----------------------------- MODULE AuthMemory -----------------------------
(***************************************************************************)
(* What package rpmb promises its callers: a memory of sectors in which a  *)
(* Write or a Read takes effect atomically, at most once, between its call *)
(* and its return.  A nil error says that it did take effect; an error     *)
(* says nothing (the effect may have happened and its answer been lost).   *)
(***************************************************************************)
CONSTANTS Proc, Sector, Value, Zero, dummyBlock

VARIABLES mem,    \* what each sector holds
          call,   \* the call a process is in
          stage,  \* "idle", "pending" or "applied"
          val,    \* the value a Read took effect with
          ret     \* what the last call returned

vars == <<mem, call, stage, val, ret>>

Call == [kind: {"none", "init", "write", "read", "counter", "peek", "program"},
         offset: Sector, buf: Value]
Ret == [err: BOOLEAN, buf: Value]
NoCall == [kind |-> "none", offset |-> dummyBlock, buf |-> Zero]
Failed == [err |-> TRUE, buf |-> Zero]

Writes(p) == call[p].kind \in {"init", "write"}
Reads(p)  == call[p].kind = "read"

Init == /\ mem \in [Sector -> Value]
        /\ call = [p \in Proc |-> NoCall]
        /\ stage = [p \in Proc |-> "idle"]
        /\ val = [p \in Proc |-> Zero]
        /\ ret = [p \in Proc |-> Failed]

Invoke(p, c) ==
  /\ stage[p] = "idle"
  /\ stage' = [stage EXCEPT ![p] = "pending"]
  /\ call' = [call EXCEPT ![p] = c]
  /\ UNCHANGED <<mem, val, ret>>

Apply(p) ==
  /\ stage[p] = "pending"
  /\ \/ /\ Writes(p)
        /\ mem' = [mem EXCEPT ![call[p].offset] = call[p].buf]
        /\ UNCHANGED val
     \/ /\ Reads(p)
        /\ val' = [val EXCEPT ![p] = mem[call[p].offset]]
        /\ UNCHANGED mem
  /\ stage' = [stage EXCEPT ![p] = "applied"]
  /\ UNCHANGED <<call, ret>>

\* A transport error after the effect is reported with the effect in place.
ApplyAndFail(p) ==
  /\ stage[p] = "pending"
  /\ Writes(p)
  /\ mem' = [mem EXCEPT ![call[p].offset] = call[p].buf]
  /\ stage' = [stage EXCEPT ![p] = "idle"]
  /\ ret' = [ret EXCEPT ![p] = Failed]
  /\ call' = [call EXCEPT ![p] = NoCall]
  /\ UNCHANGED val

Return(p, err) ==
  /\ stage[p] # "idle"
  /\ ~err /\ (Writes(p) \/ Reads(p)) => stage[p] = "applied"
  /\ stage' = [stage EXCEPT ![p] = "idle"]
  /\ ret' = [ret EXCEPT ![p] = [err |-> err, buf |-> IF err THEN Zero ELSE val[p]]]
  /\ val' = [val EXCEPT ![p] = Zero]
  /\ call' = [call EXCEPT ![p] = NoCall]
  /\ UNCHANGED mem

PowerCycle ==
  /\ stage' = [p \in Proc |-> "idle"]
  /\ val' = [p \in Proc |-> Zero]
  /\ ret' = [p \in Proc |-> Failed]
  /\ call' = [p \in Proc |-> NoCall]
  /\ UNCHANGED mem

Next == \/ \E p \in Proc : \/ \E c \in Call : Invoke(p, c)
                           \/ Apply(p)
                           \/ ApplyAndFail(p)
                           \/ \E err \in BOOLEAN : Return(p, err)
        \/ PowerCycle

Spec == Init /\ [][Next]_vars
=============================================================================
