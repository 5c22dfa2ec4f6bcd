------------------------------ MODULE Channel ------------------------------
(***************************************************************************)
(* champsim::channel (src/channel.cc): the queues between two levels.  An  *)
(* upper level appends to RQ, PQ and WQ, the lower level runs              *)
(* check_collision at the start of its cycle and then takes the heads.     *)
(* These operators work on one queue, a sequence of requests.              *)
(***************************************************************************)
EXTENDS Integers, Sequences, SequencesExt

CONSTANTS Addresses,          \* full addresses, offset included
          BlockOf,            \* address >> OFFSET_BITS
          Loads,              \* instructions, or MSHR entries of a cache above
          match_offset_bits   \* TRUE for an L1D: stores are kept apart by offset

ASSUME ChannelAssumption == match_offset_bits \in BOOLEAN

Blocks == {BlockOf[a] : a \in Addresses}

\* LOAD stands for RFO and TRANSLATION too: the cache treats them alike.
access_type == {"LOAD", "PREFETCH", "WRITE"}

Request == [address : Addresses, type : access_type, response_requested : BOOLEAN,
            instr_depend_on_me : SUBSET Loads, forward_checked : BOOLEAN]

NewRequest(a, t, resp, deps) ==
  [address |-> a, type |-> t, response_requested |-> resp,
   instr_depend_on_me |-> deps, forward_checked |-> FALSE]

\* do_add_queue: a full queue refuses.
HasRoom(q, size) == Len(q) < size
AddQueue(q, packet) == Append(q, [packet EXCEPT !.forward_checked = FALSE])

\* The entries of q[1..to] that collide with packet, compared with write_shamt
\* (the write queue) or read_shamt (the read and the prefetch queue).
WriteKey(a) == IF match_offset_bits THEN a ELSE BlockOf[a]
SameWrite(q, to, packet) ==
  {i \in 1..to : WriteKey(q[i].address) = WriteKey(packet.address)}
SameRead(q, to, packet) ==
  {i \in 1..to : BlockOf[q[i].address] = BlockOf[packet.address]}

Unchecked(q) == {i \in DOMAIN q : ~q[i].forward_checked}
First(S, i) == i \in S /\ \A j \in S : i <= j

\* do_collision_for_merge: q[j] disappears into q[i].
Merge(q, i, j) ==
  RemoveAt([q EXCEPT ![i].response_requested = @ \/ q[j].response_requested,
                     ![i].instr_depend_on_me = @ \cup q[j].instr_depend_on_me], j)

Checked(q, j) == [q EXCEPT ![j].forward_checked = TRUE]
=============================================================================
