-------------------------- MODULE BroadcastChannel --------------------------
(***************************************************************************)
(* The broadcast half of communication/fake/fake.go.  A party puts its     *)
(* message in a channel of one place; ReceiveMessages collects, with one   *)
(* goroutine for each party and a timeout of a second, what is or comes    *)
(* there; Broadcast, or SendMessageChannels for some of them, puts the     *)
(* round into the ReceiveChannels, of one place too, and blocks on one     *)
(* that is not read.  The Orchestrator's user is a single goroutine that   *)
(* delivers round after round, as deliverBroadcastRound does.              *)
(*                                                                         *)
(* A party's messages are numbered from 1; 0 is an empty channel.          *)
(***************************************************************************)
EXTENDS Integers, Sequences, FiniteSets

CONSTANTS
  Parties,     \* the keys of Channels
  NoRound,     \* an empty ReceiveChannel
  Calls,       \* which of SendMessageChannels and WaitMessageChannel are made
  MaxSends,    \* bounds: the messages of a party
  MaxRounds    \* and the rounds

ASSUME PartyAssumption == Parties \subseteq Nat /\ IsFiniteSet(Parties)
ASSUME CallAssumption == Calls \subseteq {"SendMessageChannels", "WaitMessageChannel"}
ASSUME BoundAssumption == MaxSends \in Nat /\ MaxRounds \in Nat
ASSUME NoRoundAssumption == NoRound \notin [Parties -> 0..MaxSends]

VARIABLES
  sent,            \* sent[p]: how many messages p has sent
  SendChannel,     \* SendChannel[p]: the number in the channel, or 0
  ReceiveChannel,  \* ReceiveChannel[p]: a round's messages, or NoRound
  orch,            \* what the Orchestrator's user is in
  collector,       \* the goroutines of ReceiveMessages
  agg,             \* what they have put in the channel agg
  RoundMsgs,
  todo,            \* the channels Broadcast has still to fill
  held,            \* WaitMessageChannel's message: [from |-> p, n |-> number]
  casts,           \* the rounds broadcast so far, with the parties they are for
  due,             \* what lay in the SendChannels when ReceiveMessages was called
  log              \* log[p]: the rounds p has received

vars == <<sent, SendChannel, ReceiveChannel, orch, collector, agg, RoundMsgs,
          todo, held, casts, due, log>>

None == [p \in Parties |-> 0]
Nothing == [from |-> 0, n |-> 0]

Init ==
  /\ sent = None /\ SendChannel = None
  /\ ReceiveChannel = [p \in Parties |-> NoRound]
  /\ orch = "idle"
  /\ collector = [p \in Parties |-> "off"]
  /\ agg = None /\ RoundMsgs = None
  /\ todo = {} /\ held = Nothing
  /\ casts = <<>> /\ due = None
  /\ log = [p \in Parties |-> <<>>]

Send(p) ==
  /\ sent[p] < MaxSends
  /\ SendChannel[p] = 0
  /\ sent' = [sent EXCEPT ![p] = @ + 1]
  /\ SendChannel' = [SendChannel EXCEPT ![p] = sent[p] + 1]
  /\ UNCHANGED <<ReceiveChannel, orch, collector, agg, RoundMsgs, todo, held,
                 casts, due, log>>

ReceiveRound(p) ==
  /\ ReceiveChannel[p] # NoRound
  /\ log' = [log EXCEPT ![p] = Append(@, ReceiveChannel[p])]
  /\ ReceiveChannel' = [ReceiveChannel EXCEPT ![p] = NoRound]
  /\ UNCHANGED <<sent, SendChannel, orch, collector, agg, RoundMsgs, todo, held,
                 casts, due>>

-----------------------------------------------------------------------------
(* ReceiveMessages.                                                        *)

ReceiveMessages ==
  /\ orch = "idle"
  /\ Len(casts) < MaxRounds
  /\ orch' = "collect"
  /\ RoundMsgs' = None
  /\ agg' = None
  /\ collector' = [p \in Parties |-> "start"]
  /\ due' = SendChannel
  /\ UNCHANGED <<sent, SendChannel, ReceiveChannel, todo, held, casts, log>>

Pick(p) ==
  /\ SendChannel[p] # 0
  /\ agg' = [agg EXCEPT ![p] = SendChannel[p]]
  /\ SendChannel' = [SendChannel EXCEPT ![p] = 0]
  /\ collector' = [collector EXCEPT ![p] = "done"]

\* Mutant: the goroutine may give up without having looked.
MutantFirstLook(p) ==
  /\ collector[p] = "start"
  /\ \/ Pick(p)
     \/ collector' = [collector EXCEPT ![p] = "wait"] /\ UNCHANGED <<agg, SendChannel>>
  /\ UNCHANGED <<sent, ReceiveChannel, orch, RoundMsgs, todo, held, casts, due, log>>

\* The first select: take a message that is there, or go on to wait.
FirstLook(p) ==
  /\ collector[p] = "start"
  /\ \/ Pick(p)
     \/ /\ SendChannel[p] = 0
        /\ collector' = [collector EXCEPT ![p] = "wait"]
        /\ UNCHANGED <<agg, SendChannel>>
  /\ UNCHANGED <<sent, ReceiveChannel, orch, RoundMsgs, todo, held, casts, due, log>>

\* The second select, whose two cases may both be ready.
LateMessage(p) ==
  /\ collector[p] = "wait"
  /\ Pick(p)
  /\ UNCHANGED <<sent, ReceiveChannel, orch, RoundMsgs, todo, held, casts, due, log>>

\* Mutant: after the timeout the goroutine looks again.
MutantTimeout(p) ==
  /\ collector[p] = "wait"
  /\ collector' = [collector EXCEPT ![p] = "start"]
  /\ UNCHANGED <<sent, SendChannel, ReceiveChannel, orch, agg, RoundMsgs, todo,
                 held, casts, due, log>>

Timeout(p) ==
  /\ collector[p] = "wait"
  /\ collector' = [collector EXCEPT ![p] = "done"]
  /\ UNCHANGED <<sent, SendChannel, ReceiveChannel, orch, agg, RoundMsgs, todo,
                 held, casts, due, log>>

\* Mutant: the wait for the goroutines is dropped.
MutantCollected ==
  /\ orch = "collect"
  /\ orch' = "ready"
  /\ RoundMsgs' = agg
  /\ agg' = None
  /\ UNCHANGED <<sent, SendChannel, ReceiveChannel, collector, todo, held, casts,
                 due, log>>

Collected ==
  /\ orch = "collect"
  /\ \A p \in Parties : collector[p] = "done"
  /\ orch' = "ready"
  /\ RoundMsgs' = agg
  /\ agg' = None
  /\ collector' = [p \in Parties |-> "off"]
  /\ UNCHANGED <<sent, SendChannel, ReceiveChannel, todo, held, casts, due, log>>

-----------------------------------------------------------------------------
(* Broadcast and SendMessageChannels.                                      *)

\* collectRoundMessages: the senders 0 .. len(Channels) - 1.
RoundMessages ==
  [p \in Parties |-> IF p < Cardinality(Parties) THEN RoundMsgs[p] ELSE 0]

Broadcast(to) ==
  /\ orch = "ready"
  /\ to = Parties \/ "SendMessageChannels" \in Calls
  /\ orch' = "push"
  /\ todo' = to
  /\ casts' = Append(casts, [msgs |-> RoundMessages, to |-> to])
  /\ UNCHANGED <<sent, SendChannel, ReceiveChannel, collector, agg, RoundMsgs,
                 held, due, log>>

\* Mutant: a round that finds the channel full replaces what is there.
MutantPush(p) ==
  /\ orch = "push" /\ p \in todo
  /\ ReceiveChannel' = [ReceiveChannel EXCEPT ![p] = RoundMessages]
  /\ todo' = todo \ {p}
  /\ UNCHANGED <<sent, SendChannel, orch, collector, agg, RoundMsgs, held, casts,
                 due, log>>

\* The map is walked in any order, and so is a caller's list.
Push(p) ==
  /\ orch = "push" /\ p \in todo
  /\ ReceiveChannel[p] = NoRound
  /\ ReceiveChannel' = [ReceiveChannel EXCEPT ![p] = RoundMessages]
  /\ todo' = todo \ {p}
  /\ UNCHANGED <<sent, SendChannel, orch, collector, agg, RoundMsgs, held, casts,
                 due, log>>

Pushed ==
  /\ orch = "push" /\ todo = {}
  /\ orch' = "idle"
  /\ UNCHANGED <<sent, SendChannel, ReceiveChannel, collector, agg, RoundMsgs,
                 todo, held, casts, due, log>>

-----------------------------------------------------------------------------
(* WaitMessageChannel: out of the channel, and back into it.               *)

WaitMessageChannel(p) ==
  /\ "WaitMessageChannel" \in Calls
  /\ orch = "idle"
  /\ SendChannel[p] # 0
  /\ orch' = "hold"
  /\ held' = [from |-> p, n |-> SendChannel[p]]
  /\ SendChannel' = [SendChannel EXCEPT ![p] = 0]
  /\ UNCHANGED <<sent, ReceiveChannel, collector, agg, RoundMsgs, todo, casts,
                 due, log>>

PutBack ==
  /\ orch = "hold"
  /\ SendChannel[held.from] = 0
  /\ SendChannel' = [SendChannel EXCEPT ![held.from] = held.n]
  /\ held' = Nothing
  /\ orch' = "idle"
  /\ UNCHANGED <<sent, ReceiveChannel, collector, agg, RoundMsgs, todo, casts,
                 due, log>>

-----------------------------------------------------------------------------
Collector(p) == FirstLook(p) \/ LateMessage(p) \/ Timeout(p)

Next ==
  \/ ReceiveMessages \/ Collected \/ Pushed \/ PutBack
  \/ \E to \in SUBSET Parties : Broadcast(to)
  \/ \E p \in Parties :
       Send(p) \/ ReceiveRound(p) \/ Collector(p) \/ Push(p) \/ WaitMessageChannel(p)

Spec == Init /\ [][Next]_vars

(* The goroutines of ReceiveMessages and its caller run, and a party reads *)
(* what is in its channel; nobody need send anything.                      *)
FairSpec ==
  /\ Spec
  /\ WF_vars(Collected) /\ WF_vars(Pushed) /\ WF_vars(Broadcast(Parties))
  /\ \A p \in Parties :
       WF_vars(Collector(p)) /\ WF_vars(Push(p)) /\ WF_vars(ReceiveRound(p))

-----------------------------------------------------------------------------
(* Properties.                                                             *)

Numbers == [Parties -> 0..MaxSends]

(* Types, and: no goroutine of ReceiveMessages outlives it, to send on the *)
(* channel agg after its close.                                            *)
TypeOK ==
  /\ sent \in Numbers /\ SendChannel \in Numbers
  /\ ReceiveChannel \in [Parties -> Numbers \cup {NoRound}]
  /\ orch \in {"idle", "collect", "ready", "push", "hold"}
  /\ collector \in [Parties -> {"off", "start", "wait", "done"}]
  /\ orch # "collect" => collector = [p \in Parties |-> "off"]
  /\ agg \in Numbers /\ RoundMsgs \in Numbers
  /\ todo \subseteq Parties
  /\ held \in [from : Parties, n : 1..MaxSends] \cup {Nothing}
  /\ casts \in Seq([msgs : Numbers, to : SUBSET Parties])
  /\ due \in Numbers
  /\ log \in [Parties -> Seq(Numbers)]

(* A message that lies in its channel when ReceiveMessages is called is in *)
(* the round that call collects, however long the others take.             *)
PromptMessages ==
  orch = "ready" => \A p \in Parties : due[p] # 0 => RoundMsgs[p] = due[p]

(* The parties see one sequence of rounds: no message is lost, repeated or *)
(* out of order, and no party misses, repeats or reorders a round.         *)
Rounds == INSTANCE AtomicRounds WITH posted <- sent, rounds <- casts

OneSequence == Rounds!Spec

(* fake.go:50, "waits for messages with a timeout to avoid blocking        *)
(* forever": a round that was begun is collected and broadcast, though     *)
(* parties send nothing, as long as they read.                             *)
RoundEnds == orch \in {"collect", "push"} ~> orch = "idle"
=============================================================================
