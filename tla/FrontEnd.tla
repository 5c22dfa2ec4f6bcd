------------------------------ MODULE FrontEnd ------------------------------
(***************************************************************************)
(* The front end of O3_CPU (src/ooo_cpu.cc), up to the dispatch buffer.    *)
(* Every cycle O3_CPU::operate runs, after the back end (module Backend):  *)
(*                                                                         *)
(*   memory   handle_memory_return: the answers of the L1I (it comes       *)
(*            before dispatch_instruction, which only makes room)          *)
(*   decode   decode_instruction                                           *)
(*   promote  promote_to_decode                                            *)
(*   fetch    fetch_instruction: requests to the L1I                       *)
(*   dib      check_dib: the decoded instruction buffer                    *)
(*   init     initialize_instruction: new instructions and their branches  *)
(*                                                                         *)
(* The predictors are external: any branch may be mispredicted.  An        *)
(* event_cycle becomes `left', the cycles until it comes; instructions in  *)
(* IFETCH_BUFFER have one that is past.  The DIB is one set.               *)
(***************************************************************************)
EXTENDS Integers, Sequences, SequencesExt, FiniteSets, FiniteSetsExt

CONSTANTS Windows, BlockOf,          \* ip >> lg2(DIB window), and its cache block
          IFETCH_BUFFER_SIZE, DECODE_BUFFER_SIZE, DISPATCH_BUFFER_SIZE, DIB_WAY,
          FETCH_WIDTH, DECODE_WIDTH, L1I_BANDWIDTH,
          DECODE_LATENCY, BRANCH_MISPREDICT_PENALTY,
          L1I_SIZE,                  \* capacity of the L1I's read queue
          TraceLength                \* bound: instructions in the trace

ASSUME FrontEndAssumption ==
  /\ {IFETCH_BUFFER_SIZE, DECODE_BUFFER_SIZE, DISPATCH_BUFFER_SIZE, DIB_WAY, FETCH_WIDTH,
      DECODE_WIDTH, L1I_BANDWIDTH, L1I_SIZE} \subseteq Nat \ {0}
  /\ {DECODE_LATENCY, BRANCH_MISPREDICT_PENALTY, TraceLength} \subseteq Nat

Ids   == 1..TraceLength
Never == -1                          \* fetch_resume_cycle = max: a branch is unresolved

VARIABLES
  pc, bw,                            \* the stage, and the bandwidth it has left
  reads,                             \* memory: answers it may still take
  at,                                \* fetch: where the next chunk may begin
  warmup,
  next,                              \* instr_id of the next instruction of the trace
  IFETCH_BUFFER, DECODE_BUFFER, DISPATCH_BUFFER,
  DIB,                               \* windows, the one used last in front
  resume,                            \* cycles until fetch_resume_cycle, or Never
  asked, returned,                   \* L1I: packets
  executing                          \* environment: mispredicted branches in the back end

buffers == <<IFETCH_BUFFER, DECODE_BUFFER, DISPATCH_BUFFER>>
L1I     == <<asked, returned>>
vars    == <<pc, bw, reads, at, warmup, next, buffers, DIB, resume, L1I, executing>>
-----------------------------------------------------------------------------
\* mispredicted says where the branch is found out, if it is mispredicted.
instr_type == [instr_id : Ids, window : Windows, mispredicted : {"no", "decode", "execute"},
               dib_checked : BOOLEAN, fetched : {"no", "INFLIGHT", "COMPLETED"},
               decoded : BOOLEAN, left : Nat]
Packet == [block : {BlockOf[w] : w \in Windows}, instr_depend_on_me : SUBSET Ids]

GoTo(stage, n) == pc' = stage /\ bw' = n
Sooner(n) == IF n > 0 THEN n - 1 ELSE n

Init ==
  /\ pc = "idle" /\ bw = 0 /\ reads = 0 /\ at = 1 /\ warmup \in BOOLEAN /\ next = 1
  /\ IFETCH_BUFFER = <<>> /\ DECODE_BUFFER = <<>> /\ DISPATCH_BUFFER = <<>>
  /\ DIB = <<>> /\ resume = 0 /\ asked = <<>> /\ returned = <<>> /\ executing = {}
-----------------------------------------------------------------------------
(* idle: the L1I and the back end run *)

\* The L1I merges a packet into another one of its block.
L1IMerges(i, j) ==
  /\ pc = "idle" /\ i # j /\ asked[i].block = asked[j].block
  /\ asked' = RemoveAt([asked EXCEPT ![j].instr_depend_on_me = @ \cup asked[i].instr_depend_on_me], i)
  /\ UNCHANGED <<pc, bw, reads, at, warmup, next, buffers, DIB, resume, returned, executing>>

L1IAnswers(i) ==
  /\ pc = "idle" /\ i \in DOMAIN asked
  /\ asked' = RemoveAt(asked, i) /\ returned' = Append(returned, asked[i])
  /\ UNCHANGED <<pc, bw, reads, at, warmup, next, buffers, DIB, resume, executing>>

\* dispatch_instruction
Dispatch ==
  /\ pc = "idle" /\ DISPATCH_BUFFER # <<>> /\ DISPATCH_BUFFER' = Tail(DISPATCH_BUFFER)
  /\ executing' = executing \cup {x.instr_id : x \in {x \in {DISPATCH_BUFFER[1]} : x.mispredicted # "no"}}
  /\ UNCHANGED <<pc, bw, reads, at, warmup, next, IFETCH_BUFFER, DECODE_BUFFER, DIB, resume, L1I>>

\* do_complete_execution
Complete(id) ==
  /\ pc = "idle" /\ id \in executing /\ executing' = executing \ {id}
  /\ resume' = BRANCH_MISPREDICT_PENALTY
  /\ UNCHANGED <<pc, bw, reads, at, warmup, next, buffers, DIB, L1I>>

EndWarmup ==
  /\ pc = "idle" /\ warmup /\ warmup' = FALSE
  /\ UNCHANGED <<pc, bw, reads, at, next, buffers, DIB, resume, L1I, executing>>

StartCycle ==
  /\ pc = "idle" /\ GoTo("memory", FETCH_WIDTH) /\ reads' = L1I_BANDWIDTH
  /\ UNCHANGED <<at, warmup, next, buffers, DIB, resume, L1I, executing>>
-----------------------------------------------------------------------------
(* handle_memory_return *)

Taking == pc = "memory" /\ bw > 0 /\ reads > 0 /\ returned # <<>>
Fetched(i) == IFETCH_BUFFER' = [IFETCH_BUFFER EXCEPT ![i].fetched = "COMPLETED"]
At(id) == {i \in DOMAIN IFETCH_BUFFER : IFETCH_BUFFER[i].instr_id = id}
Oldest == Min(returned[1].instr_depend_on_me)

\* (mutant) the answer is taken off with its first dependent
OneDependent == returned' = Tail(returned) /\ reads' = reads - 1
\* The oldest dependent of the answer in front is done with, and the answer with the last.
NextDependent ==
  LET rest == returned[1].instr_depend_on_me \ {Oldest}
  IN /\ returned' = IF rest = {} THEN Tail(returned)
                    ELSE [returned EXCEPT ![1].instr_depend_on_me = rest]
     /\ reads' = IF rest = {} THEN reads - 1 ELSE reads

CompleteFetch(i) ==
  /\ Taking /\ i \in At(Oldest) /\ NextDependent /\ Fetched(i) /\ bw' = bw - 1
  /\ UNCHANGED <<pc, at, warmup, next, DECODE_BUFFER, DISPATCH_BUFFER, DIB, resume, asked, executing>>

\* The instruction has left IFETCH_BUFFER: the reference points at storage that is
\* free, still holds the old instruction, or holds another one by now.
DanglingFetch ==
  /\ Taking /\ At(Oldest) = {} /\ NextDependent
  /\ \/ bw' \in {bw, bw - 1} /\ UNCHANGED IFETCH_BUFFER
     \/ /\ bw' = bw - 1
        /\ \E i \in DOMAIN IFETCH_BUFFER :
             /\ BlockOf[IFETCH_BUFFER[i].window] = returned[1].block
             /\ IFETCH_BUFFER[i].fetched # "no" /\ Fetched(i)
  /\ UNCHANGED <<pc, at, warmup, next, DECODE_BUFFER, DISPATCH_BUFFER, DIB, resume, asked, executing>>

Lesser(m, n) == IF m < n THEN m ELSE n
EndMemory ==
  /\ pc = "memory" /\ (bw > 0 /\ reads > 0 => returned = <<>>)
  /\ GoTo("decode", Lesser(DECODE_WIDTH, DISPATCH_BUFFER_SIZE - Len(DISPATCH_BUFFER))) /\ reads' = 0
  /\ UNCHANGED <<at, warmup, next, buffers, DIB, resume, L1I, executing>>
-----------------------------------------------------------------------------
(* decode_instruction *)

\* lru_table: the window comes to the front, from its way, from a free one or from the
\* one that was used longest ago.
WayOf(w) == IF w \in ToSet(DIB) THEN CHOOSE i \in DOMAIN DIB : DIB[i] = w
            ELSE Lesser(DIB_WAY, Len(DIB) + 1)
Used(w) == [i \in DOMAIN DIB \cup {WayOf(w)} |->
              IF i = 1 THEN w ELSE IF i <= WayOf(w) THEN DIB[i - 1] ELSE DIB[i]]

Decodable == DECODE_BUFFER # <<>> /\ DECODE_BUFFER[1].left = 0

\* (mutant) the bit is not cleared: fetch is resumed at execute as well
ResolvedKept(x) == x
\* A misprediction that decoding reveals is resolved here.
Resolved(x) == IF x.mispredicted = "decode" THEN [x EXCEPT !.mispredicted = "no"] ELSE x

Decode ==
  /\ pc = "decode" /\ bw > 0 /\ Decodable /\ bw' = bw - 1
  /\ DIB' = Used(DECODE_BUFFER[1].window)
  /\ resume' = IF DECODE_BUFFER[1].mispredicted = "decode" THEN BRANCH_MISPREDICT_PENALTY ELSE resume
  /\ DISPATCH_BUFFER' = Append(DISPATCH_BUFFER, Resolved(DECODE_BUFFER[1]))
  /\ DECODE_BUFFER' = Tail(DECODE_BUFFER)
  /\ UNCHANGED <<pc, reads, at, warmup, next, IFETCH_BUFFER, L1I, executing>>

EndDecode ==
  /\ pc = "decode" /\ (bw > 0 => ~Decodable)
  /\ GoTo("promote", Lesser(FETCH_WIDTH, DECODE_BUFFER_SIZE - Len(DECODE_BUFFER)))
  /\ UNCHANGED <<reads, at, warmup, next, buffers, DIB, resume, L1I, executing>>
-----------------------------------------------------------------------------
(* promote_to_decode *)

Promotable == IFETCH_BUFFER # <<>> /\ IFETCH_BUFFER[1].fetched = "COMPLETED"

Promote ==
  /\ pc = "promote" /\ bw > 0 /\ Promotable /\ bw' = bw - 1
  /\ DECODE_BUFFER' = Append(DECODE_BUFFER, [IFETCH_BUFFER[1] EXCEPT !.left =
                               IF warmup \/ IFETCH_BUFFER[1].decoded THEN 0 ELSE DECODE_LATENCY])
  /\ IFETCH_BUFFER' = Tail(IFETCH_BUFFER)
  /\ UNCHANGED <<pc, reads, at, warmup, next, DISPATCH_BUFFER, DIB, resume, L1I, executing>>

EndPromote ==
  /\ pc = "promote" /\ (bw > 0 => ~Promotable) /\ GoTo("fetch", L1I_BANDWIDTH) /\ at' = 1
  /\ UNCHANGED <<reads, warmup, next, buffers, DIB, resume, L1I, executing>>
-----------------------------------------------------------------------------
(* fetch_instruction *)

Begins == LET S == {i \in DOMAIN IFETCH_BUFFER : /\ i >= at /\ IFETCH_BUFFER[i].dib_checked
                                                 /\ IFETCH_BUFFER[i].fetched = "no"}
          IN {i \in S : \A j \in S : i <= j}
\* The instructions from i on that are in one block with it.
Chunk(i) == {j \in DOMAIN IFETCH_BUFFER : j >= i /\ \A k \in i..j :
               BlockOf[IFETCH_BUFFER[k].window] = BlockOf[IFETCH_BUFFER[i].window]}

Fetch(i) ==
  /\ pc = "fetch" /\ bw > 0 /\ i \in Begins /\ Len(asked) < L1I_SIZE
  /\ asked' = Append(asked, [block |-> BlockOf[IFETCH_BUFFER[i].window],
                             instr_depend_on_me |-> {IFETCH_BUFFER[j].instr_id : j \in Chunk(i)}])
  /\ IFETCH_BUFFER' = [j \in DOMAIN IFETCH_BUFFER |->
       IF j \in Chunk(i) THEN [IFETCH_BUFFER[j] EXCEPT !.fetched = "INFLIGHT"] ELSE IFETCH_BUFFER[j]]
  /\ at' = Max(Chunk(i)) + 1 /\ bw' = bw - 1
  /\ UNCHANGED <<pc, reads, warmup, next, DECODE_BUFFER, DISPATCH_BUFFER, DIB, resume, returned, executing>>

\* (mutant) the chunk is marked although the L1I refused it
RefusedInFlight(i) ==
  /\ pc = "fetch" /\ bw > 0 /\ i \in Begins /\ Len(asked) >= L1I_SIZE
  /\ IFETCH_BUFFER' = [j \in DOMAIN IFETCH_BUFFER |->
       IF j \in Chunk(i) THEN [IFETCH_BUFFER[j] EXCEPT !.fetched = "INFLIGHT"] ELSE IFETCH_BUFFER[j]]
  /\ at' = Max(Chunk(i)) + 1 /\ bw' = bw - 1
  /\ UNCHANGED <<pc, reads, warmup, next, DECODE_BUFFER, DISPATCH_BUFFER, DIB, resume, L1I, executing>>
FetchRefused(i) ==
  /\ pc = "fetch" /\ bw > 0 /\ i \in Begins /\ Len(asked) >= L1I_SIZE
  /\ at' = Max(Chunk(i)) + 1 /\ bw' = bw - 1
  /\ UNCHANGED <<pc, reads, warmup, next, buffers, DIB, resume, L1I, executing>>

EndFetch ==
  /\ pc = "fetch" /\ (bw > 0 => Begins = {}) /\ GoTo("dib", FETCH_WIDTH)
  /\ UNCHANGED <<reads, at, warmup, next, buffers, DIB, resume, L1I, executing>>
-----------------------------------------------------------------------------
(* check_dib *)

FirstUnchecked == {i \in DOMAIN IFETCH_BUFFER : /\ ~IFETCH_BUFFER[i].dib_checked
                                                /\ \A j \in 1..(i - 1) : IFETCH_BUFFER[j].dib_checked}

\* do_check_dib
CheckDib(i) ==
  /\ pc = "dib" /\ bw > 0 /\ i \in FirstUnchecked /\ bw' = bw - 1
  /\ IF IFETCH_BUFFER[i].window \in ToSet(DIB)
     THEN /\ IFETCH_BUFFER' = [IFETCH_BUFFER EXCEPT ![i].dib_checked = TRUE, ![i].decoded = TRUE,
                                                    ![i].fetched = "COMPLETED"]
          /\ DIB' = Used(IFETCH_BUFFER[i].window)
     ELSE IFETCH_BUFFER' = [IFETCH_BUFFER EXCEPT ![i].dib_checked = TRUE] /\ UNCHANGED DIB
  /\ UNCHANGED <<pc, reads, at, warmup, next, DECODE_BUFFER, DISPATCH_BUFFER, resume, L1I, executing>>

EndDib ==
  /\ pc = "dib" /\ (bw > 0 => FirstUnchecked = {})
  /\ GoTo("init", Lesser(FETCH_WIDTH, IFETCH_BUFFER_SIZE - Len(IFETCH_BUFFER)))
  /\ UNCHANGED <<reads, at, warmup, next, buffers, DIB, resume, L1I, executing>>
-----------------------------------------------------------------------------
(* initialize_instruction *)

NewInstr(w, where) ==
  [instr_id |-> next, window |-> w, mispredicted |-> where, dib_checked |-> FALSE,
   fetched |-> "no", decoded |-> FALSE, left |-> 0]
Initialize(w, where) ==
  /\ pc = "init" /\ bw > 0 /\ resume = 0 /\ next \in Ids /\ next' = next + 1
  /\ IFETCH_BUFFER' = Append(IFETCH_BUFFER, NewInstr(w, where))
  /\ UNCHANGED <<pc, reads, at, warmup, DECODE_BUFFER, DISPATCH_BUFFER, DIB, L1I, executing>>

\* No branch, one predicted as not taken, or mispredicted in the warmup.
InitPlain(w) == Initialize(w, "no") /\ bw' = bw - 1 /\ UNCHANGED resume
\* A branch predicted as taken ends the cycle's instructions.
InitTaken(w) == Initialize(w, "no") /\ bw' = 0 /\ UNCHANGED resume
\* A mispredicted branch stops the fetch until it is resolved.
InitMispredicted(w) ==
  /\ ~warmup /\ \E where \in {"decode", "execute"} : Initialize(w, where)
  /\ bw' = 0 /\ resume' = Never

Tick ==
  /\ pc = "init" /\ (bw > 0 => resume # 0 \/ next \notin Ids)
  /\ GoTo("idle", 0) /\ at' = 1 /\ resume' = Sooner(resume)
  /\ DECODE_BUFFER' = [i \in DOMAIN DECODE_BUFFER |-> [DECODE_BUFFER[i] EXCEPT !.left = Sooner(@)]]
  /\ UNCHANGED <<reads, warmup, next, IFETCH_BUFFER, DISPATCH_BUFFER, DIB, L1I, executing>>
-----------------------------------------------------------------------------
Operate ==
  \/ StartCycle \/ EndMemory \/ EndDecode \/ EndPromote \/ EndFetch \/ EndDib \/ Tick
  \/ DanglingFetch \/ Decode \/ Promote
  \/ \E i \in DOMAIN IFETCH_BUFFER : CompleteFetch(i) \/ Fetch(i) \/ FetchRefused(i) \/ CheckDib(i)
  \/ \E w \in Windows : InitPlain(w) \/ InitTaken(w) \/ InitMispredicted(w)
BackEnd == Dispatch \/ \E id \in executing : Complete(id)

Next == (\E i \in DOMAIN asked : L1IAnswers(i) \/ \E j \in DOMAIN asked : L1IMerges(i, j))
        \/ BackEnd \/ EndWarmup \/ Operate
Spec == Init /\ [][Next]_vars
-----------------------------------------------------------------------------
(* Properties *)

TypeOK ==
  /\ pc \in {"idle", "memory", "decode", "promote", "fetch", "dib", "init"}
  /\ bw \in Nat /\ reads \in 0..L1I_BANDWIDTH /\ at \in 1..(IFETCH_BUFFER_SIZE + 1)
  /\ warmup \in BOOLEAN /\ next \in 1..(TraceLength + 1)
  /\ {IFETCH_BUFFER, DECODE_BUFFER, DISPATCH_BUFFER} \subseteq Seq(instr_type)
  /\ Len(IFETCH_BUFFER) <= IFETCH_BUFFER_SIZE /\ Len(DECODE_BUFFER) <= DECODE_BUFFER_SIZE
  /\ Len(DISPATCH_BUFFER) <= DISPATCH_BUFFER_SIZE
  /\ DIB \in Seq(Windows) /\ Len(DIB) <= DIB_WAY /\ resume \in Nat \cup {Never}
  /\ {asked, returned} \subseteq Seq(Packet) /\ executing \subseteq Ids

\* An instruction in flight is a dependent of one packet, asked for or answered: of
\* none, and it would block the buffer for ever; of two, and the second answer would
\* find it gone.  One that has been fetched may still be the dependent of a packet.
Packets == {asked[i] : i \in DOMAIN asked} \cup {returned[i] : i \in DOMAIN returned}
FetchesArePending ==
  /\ TypeOK
  /\ \A i \in DOMAIN IFETCH_BUFFER : IFETCH_BUFFER[i].fetched = "INFLIGHT" =>
       \E p \in Packets : /\ IFETCH_BUFFER[i].instr_id \in p.instr_depend_on_me
                          /\ BlockOf[IFETCH_BUFFER[i].window] = p.block
  /\ \A p, q \in Packets : p # q => p.instr_depend_on_me \cap q.instr_depend_on_me = {}

\* Fetch stands still exactly as long as one mispredicted branch is unresolved, and
\* nothing behind the branch has been fetched: "clear the branch_mispredicted bit so
\* we don't attempt to resume fetch again at execute" (src/ooo_cpu.cc:306).
Unresolved ==
  executing \cup UNION {{b[i].instr_id : i \in {i \in DOMAIN b : b[i].mispredicted # "no"}} :
                        b \in {IFETCH_BUFFER, DECODE_BUFFER, DISPATCH_BUFFER}}
MispredictionStopsFetch == Unresolved = IF resume = Never THEN {next - 1} ELSE {}

\* operate() is called again and again (champsim::do_phase), and so are the L1I and,
\* in the same call, the back end, from which every instruction retires (Backend).
FairSpec == Spec /\ WF_vars(Operate) /\ SF_vars(L1IAnswers(1)) /\ SF_vars(BackEnd)

\* Whatever is mispredicted, refused, merged or answered late, the whole trace goes
\* through the front end.
EverythingIsDispatched ==
  <>[](next \notin Ids /\ IFETCH_BUFFER = <<>> /\ DECODE_BUFFER = <<>> /\ DISPATCH_BUFFER = <<>>)
=============================================================================
