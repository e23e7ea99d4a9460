----------------------------- MODULE P2PChannel -----------------------------
(***************************************************************************)
(* The point-to-point half of communication/fake/fake.go.  SendTo puts a   *)
(* message in the sender's SendChannel; the relay goroutine of that        *)
(* channel moves it, under the Orchestrator's mutex, to the one slot       *)
(* P2PMsgs[target][sender], over whatever the slot holds; the receiver     *)
(* takes it with ReceiveFrom or ReceiveAll.  DeliverP2PMessages empties    *)
(* the slots into the ReceiveChannels under the mutex.                     *)
(*                                                                         *)
(* The messages from s to t are numbered from 1 in the order of the calls  *)
(* of SendTo; 0 is an empty slot.  A party makes one call at a time.       *)
(***************************************************************************)
EXTENDS Integers, Sequences

CONSTANTS
  Parties,
  Links,      \* the pairs <<sender, target>> in use
  Receivers,  \* the parties that make receive calls
  Calls,      \* which of ReceiveFrom, ReceiveAll, Deliver are made
  MaxSends,   \* bound: the messages sent on a link
  SendCap,    \* the capacities of the two channels, 10000 each in the code
  RecvCap

ASSUME LinkAssumption == Links \subseteq Parties \X Parties /\ Receivers \subseteq Parties
ASSUME CallAssumption == Calls \subseteq {"ReceiveFrom", "ReceiveAll", "Deliver"}
ASSUME BoundAssumption ==
  MaxSends \in Nat /\ SendCap \in Nat \ {0} /\ RecvCap \in Nat \ {0}

VARIABLES
  registered,   \* the keys of P2PChannels
  sent,         \* sent[s][t]: how many messages s has sent to t
  SendChannel,  \* SendChannel[s]: the queue of s, [to |-> t, n |-> number]
  P2PMsgs,      \* P2PMsgs[t][s]: the slot, a number or 0
  flush,        \* the slots DeliverP2PMessages has still to empty
  locked,       \* DeliverP2PMessages holds the mutex
  ReceiveChannel, \* ReceiveChannel[t]: a queue of [from |-> s, n |-> number]
  op,           \* the receive call t is in, and the message in its hand
  result,       \* result[t][s]: the map ReceiveAll is building
  returned      \* returned[t][s]: the numbers t's calls have returned, in order

vars == <<registered, sent, SendChannel, P2PMsgs, flush, locked,
          ReceiveChannel, op, result, returned>>

Idle(t)    == [pc |-> "idle", from |-> t, n |-> 0]
NoMessages == [s \in Parties |-> 0]

Init ==
  /\ registered = {}
  /\ sent = [s \in Parties |-> NoMessages]
  /\ SendChannel = [s \in Parties |-> <<>>]
  /\ P2PMsgs = [t \in Parties |-> NoMessages]
  /\ flush = {} /\ locked = FALSE
  /\ ReceiveChannel = [t \in Parties |-> <<>>]
  /\ op = [t \in Parties |-> Idle(t)]
  /\ result = [t \in Parties |-> NoMessages]
  /\ returned = [t \in Parties |-> [s \in Parties |-> <<>>]]

AddP2PChannel(p) ==
  /\ ~locked
  /\ p \notin registered
  /\ registered' = registered \cup {p}
  /\ UNCHANGED <<sent, SendChannel, P2PMsgs, flush, locked, ReceiveChannel, op,
                 result, returned>>

(* Blocks when the channel is full.                                        *)
SendTo(s, t) ==
  /\ <<s, t>> \in Links
  /\ sent[s][t] < MaxSends
  /\ Len(SendChannel[s]) < SendCap
  /\ sent' = [sent EXCEPT ![s][t] = @ + 1]
  /\ SendChannel' = [SendChannel EXCEPT ![s] = Append(@, [to |-> t, n |-> sent[s][t] + 1])]
  /\ UNCHANGED <<registered, P2PMsgs, flush, locked, ReceiveChannel, op, result,
                 returned>>

(* Mutant: the relay keeps a message the target has not taken yet.         *)
MutantRelay(s) ==
  /\ ~locked
  /\ SendChannel[s] # <<>>
  /\ LET m == Head(SendChannel[s]) IN
       P2PMsgs' = [P2PMsgs EXCEPT ![m.to][s] = IF @ = 0 THEN m.n ELSE @]
  /\ SendChannel' = [SendChannel EXCEPT ![s] = Tail(@)]
  /\ UNCHANGED <<registered, sent, flush, locked, ReceiveChannel, op, result,
                 returned>>

(* The goroutine of NewPartyPointToPointChannel.                           *)
Relay(s) ==
  /\ ~locked
  /\ SendChannel[s] # <<>>
  /\ LET m == Head(SendChannel[s]) IN P2PMsgs' = [P2PMsgs EXCEPT ![m.to][s] = m.n]
  /\ SendChannel' = [SendChannel EXCEPT ![s] = Tail(@)]
  /\ UNCHANGED <<registered, sent, flush, locked, ReceiveChannel, op, result,
                 returned>>

-----------------------------------------------------------------------------
(* ReceiveFrom, in the pieces between which it holds no lock.              *)

\* Mutant: the payload is taken whether or not the key is there.
MutantLookup(t, s) ==
  /\ "ReceiveFrom" \in Calls /\ t \in Receivers
  /\ op[t].pc = "idle"
  /\ ~locked
  /\ op' = [op EXCEPT ![t] = [pc |-> "delete", from |-> s, n |-> P2PMsgs[t][s]]]
  /\ UNCHANGED <<registered, sent, SendChannel, P2PMsgs, flush, locked,
                 ReceiveChannel, result, returned>>

\* The read lock: the payload, if there is one, is in hand when it is let go.
Lookup(t, s) ==
  /\ "ReceiveFrom" \in Calls /\ t \in Receivers
  /\ op[t].pc = "idle"
  /\ ~locked
  /\ op' = [op EXCEPT ![t] =
              IF P2PMsgs[t][s] # 0 THEN [pc |-> "delete", from |-> s, n |-> P2PMsgs[t][s]]
              ELSE [pc |-> "poll", from |-> s, n |-> 0]]
  /\ UNCHANGED <<registered, sent, SendChannel, P2PMsgs, flush, locked,
                 ReceiveChannel, result, returned>>

Return(t, s, n) ==
  /\ returned' = [returned EXCEPT ![t][s] = Append(@, n)]
  /\ op' = [op EXCEPT ![t] = Idle(t)]

(* Mutant: the payload is returned and its slot kept.                      *)
MutantDelete(t) ==
  /\ op[t].pc = "delete"
  /\ ~locked
  /\ Return(t, op[t].from, op[t].n)
  /\ UNCHANGED <<registered, sent, SendChannel, P2PMsgs, flush, locked,
                 ReceiveChannel, result>>

\* The write lock: whatever the slot holds by now is deleted.
Delete(t) ==
  /\ op[t].pc = "delete"
  /\ ~locked
  /\ P2PMsgs' = [P2PMsgs EXCEPT ![t][op[t].from] = 0]
  /\ Return(t, op[t].from, op[t].n)
  /\ UNCHANGED <<registered, sent, SendChannel, flush, locked, ReceiveChannel,
                 result>>

\* The non-blocking poll: nothing there is an error, and the call is over.
Poll(t) ==
  /\ op[t].pc = "poll"
  /\ IF ReceiveChannel[t] = <<>>
     THEN op' = [op EXCEPT ![t] = Idle(t)] /\ UNCHANGED <<ReceiveChannel, returned>>
     ELSE LET m == Head(ReceiveChannel[t]) IN
       /\ ReceiveChannel' = [ReceiveChannel EXCEPT ![t] = Tail(@)]
       /\ IF m.from = op[t].from THEN Return(t, m.from, m.n)
          ELSE /\ op' = [op EXCEPT ![t] = [pc |-> "requeue", from |-> m.from, n |-> m.n]]
               /\ UNCHANGED returned
  /\ UNCHANGED <<registered, sent, SendChannel, P2PMsgs, flush, locked, result>>

\* A message of somebody else goes back to the tail, or is dropped.
Put(t, m) ==
  ReceiveChannel' = IF Len(ReceiveChannel[t]) < RecvCap
                    THEN [ReceiveChannel EXCEPT ![t] = Append(@, m)]
                    ELSE ReceiveChannel

\* Mutant: a message of somebody else is dropped.
MutantRequeue(t) ==
  /\ op[t].pc = "requeue"
  /\ op' = [op EXCEPT ![t] = Idle(t)]
  /\ UNCHANGED <<registered, sent, SendChannel, P2PMsgs, flush, locked,
                 ReceiveChannel, result, returned>>

Requeue(t) ==
  /\ op[t].pc = "requeue"
  /\ Put(t, [from |-> op[t].from, n |-> op[t].n])
  /\ op' = [op EXCEPT ![t] = Idle(t)]
  /\ UNCHANGED <<registered, sent, SendChannel, P2PMsgs, flush, locked, result,
                 returned>>

-----------------------------------------------------------------------------
(* ReceiveAll: the slots in one critical section, then the channel.        *)

\* Mutant: a party that is not registered takes nothing.
MutantTake(t) ==
  /\ "ReceiveAll" \in Calls /\ t \in Receivers
  /\ op[t].pc = "idle"
  /\ ~locked
  /\ t \in registered
  /\ result' = [result EXCEPT ![t] = P2PMsgs[t]]
  /\ P2PMsgs' = [P2PMsgs EXCEPT ![t] = NoMessages]
  /\ op' = [op EXCEPT ![t] = [pc |-> "drain", from |-> t, n |-> 0]]
  /\ UNCHANGED <<registered, sent, SendChannel, flush, locked, ReceiveChannel,
                 returned>>

Take(t) ==
  /\ "ReceiveAll" \in Calls /\ t \in Receivers
  /\ op[t].pc = "idle"
  /\ ~locked
  /\ result' = [result EXCEPT ![t] = P2PMsgs[t]]
  /\ P2PMsgs' = [P2PMsgs EXCEPT ![t] = NoMessages]
  /\ op' = [op EXCEPT ![t] = [pc |-> "drain", from |-> t, n |-> 0]]
  /\ UNCHANGED <<registered, sent, SendChannel, flush, locked, ReceiveChannel,
                 returned>>

Drain(t) ==
  /\ op[t].pc = "drain"
  /\ ReceiveChannel[t] # <<>>
  /\ LET m == Head(ReceiveChannel[t]) IN result' = [result EXCEPT ![t][m.from] = m.n]
  /\ ReceiveChannel' = [ReceiveChannel EXCEPT ![t] = Tail(@)]
  /\ UNCHANGED <<registered, sent, SendChannel, P2PMsgs, flush, locked, op,
                 returned>>

ReturnAll(t) ==
  /\ op[t].pc = "drain"
  /\ ReceiveChannel[t] = <<>>
  /\ returned' = [returned EXCEPT ![t] =
       [s \in Parties |-> IF result[t][s] = 0 THEN @[s] ELSE Append(@[s], result[t][s])]]
  /\ result' = [result EXCEPT ![t] = NoMessages]
  /\ op' = [op EXCEPT ![t] = Idle(t)]
  /\ UNCHANGED <<registered, sent, SendChannel, P2PMsgs, flush, locked,
                 ReceiveChannel>>

-----------------------------------------------------------------------------
(* DeliverP2PMessages: one push at a time, for receivers do not need the   *)
(* mutex to drain; a push to a full channel drops the message.             *)

DeliverBegin ==
  /\ "Deliver" \in Calls
  /\ ~locked
  /\ locked' = TRUE
  /\ flush' = {l \in registered \X Parties : P2PMsgs[l[1]][l[2]] # 0}
  /\ UNCHANGED <<registered, sent, SendChannel, P2PMsgs, ReceiveChannel, op,
                 result, returned>>

DeliverPush(t, s) ==
  /\ <<t, s>> \in flush
  /\ flush' = flush \ {<<t, s>>}
  /\ Put(t, [from |-> s, n |-> P2PMsgs[t][s]])
  /\ P2PMsgs' = [P2PMsgs EXCEPT ![t][s] = 0]
  /\ UNCHANGED <<registered, sent, SendChannel, locked, op, result, returned>>

DeliverEnd ==
  /\ locked
  /\ flush = {}
  /\ locked' = FALSE
  /\ UNCHANGED <<registered, sent, SendChannel, P2PMsgs, flush, ReceiveChannel,
                 op, result, returned>>

-----------------------------------------------------------------------------
Party(p) ==
  \/ AddP2PChannel(p)
  \/ Relay(p)
  \/ Delete(p) \/ Poll(p) \/ Requeue(p)
  \/ Take(p) \/ Drain(p) \/ ReturnAll(p)
  \/ \E q \in Parties : SendTo(p, q) \/ Lookup(p, q) \/ DeliverPush(p, q)

Next == DeliverBegin \/ DeliverEnd \/ \E p \in Parties : Party(p)

Spec == Init /\ [][Next]_vars

(* Goroutines run, a call that was started goes on, and a party that has   *)
(* ended a ReceiveAll calls it again; nobody need send or deliver.         *)
FairSpec ==
  /\ Spec
  /\ \A p \in Parties :
       /\ WF_vars(Relay(p))
       /\ WF_vars(Delete(p) \/ Poll(p) \/ Requeue(p) \/ Drain(p) \/ ReturnAll(p))
       /\ WF_vars(Take(p))

-----------------------------------------------------------------------------
(* Properties.                                                             *)

Number  == Nat \ {0}
Message == [to : Parties, n : Number]
Packet  == [from : Parties, n : Number]
Call    == [pc : {"idle", "delete", "poll", "requeue", "drain"}, from : Parties, n : Nat]

(* Types, and: an absent message, 0, is never handed on.                   *)
TypeOK ==
  /\ registered \subseteq Parties
  /\ sent \in [Parties -> [Parties -> Nat]]
  /\ SendChannel \in [Parties -> Seq(Message)]
  /\ P2PMsgs \in [Parties -> [Parties -> Nat]]
  /\ flush \subseteq Parties \X Parties
  /\ locked \in BOOLEAN
  /\ ReceiveChannel \in [Parties -> Seq(Packet)]
  /\ op \in [Parties -> Call]
  /\ result \in [Parties -> [Parties -> Nat]]
  /\ returned \in [Parties -> [Parties -> Seq(Number)]]

Increasing(q) == \A i, j \in 1..Len(q) : i < j => q[i] < q[j]

(* Without DeliverP2PMessages, what a party is given of a sender comes in  *)
(* the order it was sent in, and nothing of it twice, though ReceiveFrom   *)
(* reads the slot and empties it under two different locks.                *)
InOrder == \A t, s \in Parties : Increasing(returned[t][s])

\* The number of the last message of s to t that the relay has moved.
NewestRelayed(t, s) ==
  LET queued == {i \in 1..Len(SendChannel[s]) : SendChannel[s][i].to = t}
  IN  IF queued = {} THEN sent[s][t]
      ELSE SendChannel[s][CHOOSE i \in queued : \A j \in queued : i <= j].n - 1

HasReached(t, s, n) ==
  \/ n = P2PMsgs[t][s] \/ n = result[t][s]
  \/ op[t].from = s /\ op[t].n = n
  \/ \E i \in 1..Len(ReceiveChannel[t]) : ReceiveChannel[t][i] = [from |-> s, n |-> n]
  \/ \E i \in 1..Len(returned[t][s]) : returned[t][s][i] = n

Survives(t, s) == NewestRelayed(t, s) # 0 => HasReached(t, s, NewestRelayed(t, s))

(* fake.go:20, "mu protects concurrent access to P2PMsgs": a message that  *)
(* has been relayed and that no later one has replaced is in the slot, in  *)
(* a call's hands, or returned; no receiver destroys it unread.            *)
NewestRelayedSurvives == \A t, s \in Parties : Survives(t, s)

(* Without DeliverP2PMessages, what ReceiveFrom destroys between its two   *)
(* locks is all that is ever lost: a step after which the newest relayed   *)
(* message of a link survives no longer is the write lock of a ReceiveFrom *)
(* that returns an older one of the same sender, which it had read before  *)
(* the relay stored the newer in the slot.                                 *)
OnlyOvertakenLost ==
  [][\A t, s \in Parties :
       Survives(t, s) /\ ~Survives(t, s)' =>
         /\ op[t].pc = "delete" /\ op[t].from = s
         /\ P2PMsgs[t][s] = NewestRelayed(t, s) /\ op[t].n < P2PMsgs[t][s]
         /\ P2PMsgs'[t][s] = 0
         /\ returned'[t][s] = Append(returned[t][s], op[t].n)]_vars

(* What was sent is returned, or something sent after it on the link is.   *)
Delivered ==
  \A t, s \in Parties : \A n \in 1..MaxSends :
    sent[s][t] = n ~> \E i \in 1..Len(returned[t][s]) : returned[t][s][i] >= n
=============================================================================
