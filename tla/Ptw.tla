-------------------------------- MODULE Ptw --------------------------------
(***************************************************************************)
(* PageTableWalker (src/ptw.cc) of core Cpu over the virtual memory it     *)
(* shares with the other cores (module Vmem).  A walk reads one PTE per    *)
(* translation_level from the cache below, the PSCLs let it start at a     *)
(* lower level.  PageTableWalker::operate runs once per cycle:             *)
(*                                                                         *)
(*   construct  CR3_addr is taken from the page table                      *)
(*   idle       between two cycles; the other parts run                    *)
(*   finish     lower_level->returned: finish_packet                       *)
(*   complete   the ready prefix of completed is answered                  *)
(*   fill       the ready prefix of finished goes on: handle_fill          *)
(*   read       the upper levels in turn: handle_read                      *)
(*                                                                         *)
(* Addresses count words of PTE_BYTES.  An event_cycle becomes `left', the *)
(* cycles until it is due.  A PSCL is one set of an lru_table, the entry   *)
(* used last in front; as configured, there is one for each level but the  *)
(* lowest.  MSHR is searched by block only, so what std::partition does to *)
(* its order shows in the order of finished alone: any order is taken.     *)
(***************************************************************************)
EXTENDS Vmem, Sequences, SequencesExt, FiniteSetsExt

CONSTANTS Cpu, None,
          Loads,                 \* identities of the requests in flight
          NumUppers, RQ_SIZE,
          PSCL_WAY, BLOCK,       \* BLOCK: words in a cache block
          MAX_READ, MAX_FILL, HIT_LATENCY, minor_fault_penalty,
          LOWER_SIZE,            \* requests the cache below holds at a time
          MaxWalks,              \* bound: requests in the walker when another one comes
          OtherAddresses         \* bound: what the other cores translate

Uppers == 1..NumUppers
PAGE   == PTES * RADIX
Steps  == pt_levels - 1          \* std::size(pscl)

ASSUME PtwAssumption ==
  /\ Cpu \in Cpus /\ OtherAddresses \subseteq Addresses
  /\ 0 \in Addresses             \* the root page is made for address 0
  /\ None \notin [upper : Uppers, v_address : Addresses]
  /\ {NumUppers, RQ_SIZE, PSCL_WAY, BLOCK, MAX_READ, MAX_FILL, LOWER_SIZE} \subseteq Nat \ {0}
  /\ {HIT_LATENCY, minor_fault_penalty, MaxWalks} \subseteq Nat

VARIABLES
  pc, bw,                        \* the stage, and the bandwidth it has left
  ul,                            \* the upper level whose turn it is
  warmup, CR3_addr,
  RQ,                            \* upper level -> queue
  MSHR, finished, completed,
  pscl,                          \* 1..Steps -> entries
  asked, returned,               \* lower_level: blocks asked for, blocks answered
  waiting                        \* environment: load -> who waits for it, and for what

walks == <<MSHR, finished, completed>>
lower == <<asked, returned>>
vars  == <<vmem, pc, bw, ul, warmup, CR3_addr, RQ, walks, pscl, lower, waiting>>
-----------------------------------------------------------------------------
mshr_type == [address : Nat, v_address : Addresses, translation_level : 0..Steps, data : Nat,
              left : Nat, instr_depend_on_me : SUBSET Loads, to_return : SUBSET Uppers]

Due(q) == q # <<>> /\ q[1].left = 0
BlockOf(address) == address \div BLOCK
GoTo(stage, n) == pc' = stage /\ bw' = n /\ ul' = 1
InFlight == Len(MSHR) + Len(finished) + Len(completed)
            + FoldFunction(LAMBDA q, n : Len(q) + n, 0, RQ)

\* champsim::splice_bits(page, offset, LOG2_PAGE_SIZE)
Splice(page, offset) == PAGE * (page \div PAGE) + offset

\* What get_pte_pa returns: the address of the entry for v in its PTE page.
PteAddr(page, v, level) == page.frame * PAGE + page.slot * RADIX + get_offset(v, level)
get_pte(v, level) ==
  PteAddr(IF PteFaults(Cpu, v, level) THEN FrontPte ELSE page_table[PteKey(Cpu, v, level)],
          v, level)

\* What va_to_pa returns, as a frame.
get_pa(v) == IF Faults(Cpu, v) THEN next_ppage ELSE vpage_to_ppage_map[MapKey(Cpu, v)]

Penalty(fault) ==
  IF warmup THEN 0 ELSE HIT_LATENCY + (IF fault THEN minor_fault_penalty ELSE 0)

Init ==
  /\ VmemInit
  /\ pc = "construct" /\ bw = 0 /\ ul = 1 /\ warmup \in BOOLEAN /\ CR3_addr = 0
  /\ RQ = [u \in Uppers |-> <<>>]
  /\ MSHR = <<>> /\ finished = <<>> /\ completed = <<>>
  /\ pscl = [i \in 1..Steps |-> <<>>]
  /\ asked = <<>> /\ returned = <<>>
  /\ waiting = [l \in Loads |-> None]

Construct ==
  /\ pc = "construct" /\ GoTo("idle", 0)
  /\ get_pte_pa(Cpu, 0, pt_levels) /\ CR3_addr' = get_pte(0, pt_levels)
  /\ UNCHANGED <<warmup, RQ, walks, pscl, lower, waiting>>
-----------------------------------------------------------------------------
(* idle: the levels above and below and the other cores run *)

Request == [v_address : Addresses, response_requested : BOOLEAN,
            instr_depend_on_me : SUBSET Loads]
Wanted == [upper : Uppers, v_address : Addresses]
CanAdd(u) == pc = "idle" /\ InFlight < MaxWalks /\ Len(RQ[u]) < RQ_SIZE
Add(u, v, resp, deps) ==
  RQ' = [RQ EXCEPT ![u] = Append(@, [v_address |-> v, response_requested |-> resp,
                                     instr_depend_on_me |-> deps])]

AddRq(u, l, v) ==
  /\ CanAdd(u) /\ waiting[l] = None
  /\ waiting' = [waiting EXCEPT ![l] = [upper |-> u, v_address |-> v]]
  /\ Add(u, v, TRUE, {l})
  /\ UNCHANGED <<vmem, pc, bw, ul, warmup, CR3_addr, walks, pscl, lower>>

AddRqNoResponse(u, v) ==
  /\ CanAdd(u) /\ Add(u, v, FALSE, {})
  /\ UNCHANGED <<vmem, pc, bw, ul, warmup, CR3_addr, walks, pscl, lower, waiting>>

\* The cache below answers a request, or merges it with another one for its block.
LowerAnswers(i) ==
  /\ pc = "idle" /\ i \in DOMAIN asked /\ asked' = RemoveAt(asked, i)
  /\ \/ returned' = Append(returned, asked[i])
     \/ asked[i] \in ToSet(asked') /\ UNCHANGED returned
  /\ UNCHANGED <<vmem, pc, bw, ul, warmup, CR3_addr, RQ, walks, pscl, waiting>>

OtherCore(cpu, v) ==
  /\ pc = "idle" /\ cpu # Cpu
  /\ va_to_pa(cpu, v) \/ \E level \in 1..Steps : get_pte_pa(cpu, v, level)
  /\ UNCHANGED <<pc, bw, ul, warmup, CR3_addr, RQ, walks, pscl, lower, waiting>>

EndWarmup ==
  /\ pc = "idle" /\ warmup /\ warmup' = FALSE
  /\ UNCHANGED <<vmem, pc, bw, ul, CR3_addr, RQ, walks, pscl, lower, waiting>>

StartCycle ==
  /\ pc = "idle" /\ GoTo("finish", 0)
  /\ UNCHANGED <<vmem, warmup, CR3_addr, RQ, walks, pscl, lower, waiting>>
-----------------------------------------------------------------------------
(* finish_packet: every walk that reads the block of the answer *)

ReadsBlock(b) == {i \in DOMAIN MSHR : BlockOf(MSHR[i].address) = b}
Erased(i) == RemoveAt(MSHR, i)
Finishing(i) == pc = "finish" /\ returned # <<>> /\ i \in ReadsBlock(returned[1])

\* (mutant) the last step is taken for a step
NoLastStep(m) == FALSE
LastStep(m) == m.translation_level = 0

FinishStep(i) ==
  /\ Finishing(i) /\ ~LastStep(MSHR[i]) /\ MSHR' = Erased(i)
  /\ LET m == MSHR[i]
     IN /\ get_pte_pa(Cpu, m.v_address, m.translation_level)
        /\ finished' = Append(finished,
             [m EXCEPT !.data = get_pte(m.v_address, m.translation_level),
                       !.left = Penalty(PteFaults(Cpu, m.v_address, m.translation_level))])
  /\ UNCHANGED <<pc, bw, ul, warmup, CR3_addr, RQ, completed, pscl, lower, waiting>>

FinishLastStep(i) ==
  /\ Finishing(i) /\ LastStep(MSHR[i]) /\ MSHR' = Erased(i)
  /\ LET m == MSHR[i]
     IN /\ va_to_pa(Cpu, m.v_address)
        /\ completed' = Append(completed,
             [m EXCEPT !.data = get_pa(m.v_address), !.left = Penalty(Faults(Cpu, m.v_address))])
  /\ UNCHANGED <<pc, bw, ul, warmup, CR3_addr, RQ, finished, pscl, lower, waiting>>

PacketDone ==
  /\ pc = "finish" /\ returned # <<>> /\ ReadsBlock(returned[1]) = {}
  /\ returned' = Tail(returned)
  /\ UNCHANGED <<vmem, pc, bw, ul, warmup, CR3_addr, RQ, walks, pscl, asked, waiting>>

EndFinish ==
  /\ pc = "finish" /\ returned = <<>> /\ GoTo("complete", MAX_FILL)
  /\ UNCHANGED <<vmem, warmup, CR3_addr, RQ, walks, pscl, lower, waiting>>
-----------------------------------------------------------------------------
(* complete: walks that are over are answered *)

Complete ==
  /\ pc = "complete" /\ bw > 0 /\ Due(completed)
  /\ LET m == completed[1]
     IN waiting' = [l \in Loads |->
          IF /\ l \in m.instr_depend_on_me /\ waiting[l] # None
             /\ waiting[l].upper \in m.to_return
          THEN None ELSE waiting[l]]
  /\ completed' = Tail(completed) /\ bw' = bw - 1
  /\ UNCHANGED <<vmem, pc, ul, warmup, CR3_addr, RQ, MSHR, finished, pscl, lower>>

EndComplete ==
  /\ pc = "complete" /\ ~(bw > 0 /\ Due(completed)) /\ GoTo("fill", bw)
  /\ UNCHANGED <<vmem, warmup, CR3_addr, RQ, walks, pscl, lower, waiting>>
-----------------------------------------------------------------------------
(* fill: a PTE goes into its PSCL, and the walk goes on one level below *)

\* (mutant) a walk whose request is refused waits for an answer all the same
AskAnyway(m) == /\ asked' = IF Len(asked) < LOWER_SIZE THEN Append(asked, BlockOf(m.address)) ELSE asked
                /\ MSHR' = Append(MSHR, m)
\* step_translation, when add_rq takes the request.
Ask(m) == /\ Len(asked) < LOWER_SIZE
          /\ asked' = Append(asked, BlockOf(m.address)) /\ MSHR' = Append(MSHR, m)
Refused == Len(asked) >= LOWER_SIZE

\* The PSCL of index i covers the addresses that agree above shamt(level).
Tag(i, v) == Upper(v, pt_levels + 1 - i)
Hits(i, v) == {k \in DOMAIN pscl[i] : Tag(i, pscl[i][k].vaddr) = Tag(i, v)}

\* lru_table::fill: the entry of that tag, or else the one used longest ago, is replaced.
Others(i, v) == IF Hits(i, v) = {} THEN pscl[i] ELSE RemoveAt(pscl[i], Min(Hits(i, v)))
Newest(q, n) == SubSeq(q, 1, Min({Len(q), n}))
PsclFill(i, e) == [pscl EXCEPT ![i] = <<e>> \o Newest(Others(i, e.vaddr), PSCL_WAY - 1)]

NextLevel(m) == m.translation_level - 1

\* handle_fill
FillPscl(m) ==
  pscl' = PsclFill(Steps - m.translation_level + 1,
                   [vaddr |-> m.v_address, ptw_addr |-> m.data, level |-> m.translation_level - 1])
Filling == pc = "fill" /\ bw > 0 /\ Due(finished)

Fill ==
  /\ Filling /\ FillPscl(finished[1])
  /\ Ask([finished[1] EXCEPT !.address = finished[1].data,
                             !.translation_level = NextLevel(finished[1])])
  /\ finished' = Tail(finished) /\ bw' = bw - 1
  /\ UNCHANGED <<vmem, pc, ul, warmup, CR3_addr, RQ, completed, returned, waiting>>

\* A refused walk has filled its PSCL, and will again.
FillRefused ==
  /\ Filling /\ Refused /\ FillPscl(finished[1]) /\ GoTo("read", MAX_READ)
  /\ UNCHANGED <<vmem, warmup, CR3_addr, RQ, walks, lower, waiting>>

EndFill ==
  /\ pc = "fill" /\ ~Filling /\ GoTo("read", MAX_READ)
  /\ UNCHANGED <<vmem, warmup, CR3_addr, RQ, walks, pscl, lower, waiting>>
-----------------------------------------------------------------------------
(* read: new walks *)

\* check_hit of every PSCL; the hit nearest to the page wins.
HitPscls(v) == {i \in 1..Steps : Hits(i, v) # {}}
Hit(i, v) == pscl[i][Min(Hits(i, v))]
WalkInit(v) == IF HitPscls(v) = {} THEN [vaddr |-> v, ptw_addr |-> CR3_addr, level |-> Steps]
               ELSE Hit(Max(HitPscls(v)), v)
Touch(v) == pscl' = [i \in 1..Steps |->
                       IF Hits(i, v) = {} THEN pscl[i] ELSE <<Hit(i, v)>> \o Others(i, v)]

\* (mutant) nobody is answered when the walk is over
ReturnToNone(r) == {}
ReturnTo(r) == IF r.response_requested THEN {ul} ELSE {}

NewWalk(r) ==
  LET init == WalkInit(r.v_address)
  IN [address |-> Splice(init.ptw_addr, get_offset(r.v_address, init.level)),
      v_address |-> r.v_address, translation_level |-> init.level, data |-> 0, left |-> 0,
      instr_depend_on_me |-> r.instr_depend_on_me, to_return |-> ReturnTo(r)]
Reading == pc = "read" /\ ul \in Uppers /\ bw > 0 /\ RQ[ul] # <<>>

\* handle_read
Read ==
  /\ Reading /\ Touch(RQ[ul][1].v_address) /\ Ask(NewWalk(RQ[ul][1]))
  /\ RQ' = [RQ EXCEPT ![ul] = Tail(@)] /\ bw' = bw - 1
  /\ UNCHANGED <<vmem, pc, ul, warmup, CR3_addr, finished, completed, returned, waiting>>

\* A refused request has touched the PSCLs; the next upper level is tried.
ReadRefused ==
  /\ Reading /\ Refused /\ Touch(RQ[ul][1].v_address) /\ ul' = ul + 1
  /\ UNCHANGED <<vmem, pc, bw, warmup, CR3_addr, RQ, walks, lower, waiting>>

NextUpper ==
  /\ pc = "read" /\ ul \in Uppers /\ ~Reading /\ ul' = ul + 1
  /\ UNCHANGED <<vmem, pc, bw, warmup, CR3_addr, RQ, walks, pscl, lower, waiting>>

Sooner(q) == [i \in DOMAIN q |-> [q[i] EXCEPT !.left = IF @ > 0 THEN @ - 1 ELSE 0]]
Tick ==
  /\ pc = "read" /\ ul \notin Uppers /\ GoTo("idle", 0)
  /\ finished' = Sooner(finished) /\ completed' = Sooner(completed)
  /\ UNCHANGED <<vmem, warmup, CR3_addr, RQ, MSHR, pscl, lower, waiting>>
-----------------------------------------------------------------------------
Arrive == \E u \in Uppers, v \in Addresses :
            AddRqNoResponse(u, v) \/ \E l \in Loads : AddRq(u, l, v)
LowerLevel == \E i \in DOMAIN asked : LowerAnswers(i)
OtherCores == \E cpu \in Cpus, v \in OtherAddresses : OtherCore(cpu, v)
Operate ==
  \/ Construct \/ StartCycle \/ PacketDone \/ EndFinish
  \/ \E i \in DOMAIN MSHR : FinishStep(i) \/ FinishLastStep(i)
  \/ Complete \/ EndComplete \/ Fill \/ FillRefused \/ EndFill
  \/ Read \/ ReadRefused \/ NextUpper \/ Tick

Next == Arrive \/ LowerLevel \/ OtherCores \/ EndWarmup \/ Operate
Spec == Init /\ [][Next]_vars
-----------------------------------------------------------------------------
(* Properties *)

TypeOK ==
  /\ VmemTypeOK
  /\ pc \in {"construct", "idle", "finish", "complete", "fill", "read"}
  /\ bw \in 0..(MAX_READ + MAX_FILL) /\ ul \in 1..(NumUppers + 1)
  /\ warmup \in BOOLEAN /\ CR3_addr \in Nat
  /\ \A u \in Uppers : RQ[u] \in Seq(Request)
  /\ {MSHR, finished, completed} \subseteq Seq(mshr_type)
  /\ \A i \in 1..Steps :
       pscl[i] \in Seq([vaddr : Addresses, ptw_addr : Nat, level : {Steps - i}])
  /\ {asked, returned} \subseteq Seq(Nat)
  /\ waiting \in [Loads -> Wanted \cup {None}]

\* A walk ends only when the block it reads comes back: every entry of MSHR has
\* its block still asked for below, or answered but not yet looked at.
WalksAreAsked == \A i \in DOMAIN MSHR : BlockOf(MSHR[i].address) \in ToSet(asked) \cup ToSet(returned)

\* What a walk and the PSCLs have read stays true while other walks, and other
\* cores, change the virtual memory: nobody is told of a change.
AnswersAreCurrent ==
  /\ TypeOK /\ WalksAreAsked
  /\ \A i \in DOMAIN completed :
       LET key == MapKey(Cpu, completed[i].v_address)
       IN key \in DOMAIN vpage_to_ppage_map /\ completed[i].data = vpage_to_ppage_map[key]
  /\ \A i \in 1..Steps : \A k \in DOMAIN pscl[i] :
       LET e == pscl[i][k]  key == PteKey(Cpu, e.vaddr, e.level + 1)
       IN key \in DOMAIN page_table /\ e.ptw_addr = PteAddr(page_table[key], e.vaddr, e.level + 1)

Has(q, l) == {i \in DOMAIN q : l \in q[i].instr_depend_on_me}
\* The walker implements LoadPort: every request is remembered until it is answered.
Piped(q, l, w) == Cardinality({i \in Has(q, l) : /\ w.upper \in q[i].to_return
                                                 /\ q[i].v_address = w.v_address})
Queued(q, l, w) == Cardinality({i \in Has(q, l) : /\ q[i].response_requested
                                                  /\ q[i].v_address = w.v_address})
Places(l, w) == Queued(RQ[w.upper], l, w) + Piped(MSHR, l, w) + Piped(finished, l, w)
                + Piped(completed, l, w)
HeldFor(l) == {w \in Wanted : Places(l, w) > 0}
Held == [l \in Loads |-> IF waiting[l] \in HeldFor(l) THEN waiting[l]
                         ELSE IF HeldFor(l) = {} THEN None
                         ELSE CHOOSE w \in HeldFor(l) : TRUE]
Port == INSTANCE LoadPort WITH Requests <- Wanted, Nothing <- None, held <- Held
ImplementsLoadPort == Port!Spec

\* The walker and the other cores use the virtual memory as Vmem says, so that
\* what is proved of Vmem holds here.
UsesVmem == VmemSpec

\* operate() is called again and again (champsim::do_phase), and so is the cache
\* below, which answers the request it has had longest at some time.
FairSpec == Spec /\ WF_vars(Operate) /\ SF_vars(LowerAnswers(1))

\* A refusal below, a slow first entry of finished or completed or an answer that
\* serves several walks never leaves a walk behind: when no more requests come,
\* every load is answered.
LoadsAnswered == (<>[][~Arrive]_vars) => \A l \in Loads : []<>(waiting[l] = None)
=============================================================================
