# FDPSS in TLA+

A verification development of the Go program FDPSS: a fluid (committee-to-committee) verifiable secret sharing, its in-memory network, and the randomness and redistribution algorithms on top of it. This directory holds TLA+ models of the sharing, the network and the algorithms, TLC configurations that check them on small instances, and TLAPS proofs of what matters most for every size.

Paths below are relative to the repository; `com_3.go` and the like are in `protocols/fdvss/`, `fake.go` in `communication/fake/`.

## 1. Inventory

| Component | State | Operations | Modelled in |
|---|---|---|---|
| FDVSS sharing (`dealer.go`, `com_1.go` .. `com_4.go`, `future_reconstruct.go`, `reconstruct.go`, `io.go`, `messages.go`, `inputs.go`) | per member: the inputs of one step and its output; nothing survives the step | `PrepareDealerOutputs`; `Perform` of Com1 .. Com4; `ReconstructSecret`; the senders, receivers and broadcasts of `io.go` | `FDVSS`, `VSS` |
| The driver of a sharing (`firstparty_vss_test.go`) | the phase, the members already run | member 1 of each committee alone, then the others in parallel; a broadcast round between the phases | `FDVSS` |
| Consistency graph (`com_3.go`, `findCliqueIDs`) | an adjacency matrix | decoding of the Com2 broadcasts, one edge for each pair, then the search on degrees | `ConsistencyGraph`, `CliqueSearch`, `DealerStatus` |
| Point-to-point channels (`fake.go`) | a SendChannel and a ReceiveChannel of capacity 10000 for each party, the map `P2PMsgs[target][sender]` behind a mutex, one relay goroutine for each party | `SendTo`, the relay, `ReceiveFrom`, `ReceiveAll`, `DeliverP2PMessages`, `AddP2PChannel` | `P2PChannel` |
| Broadcast channels (`fake.go`) | two channels of capacity 1 for each party, `RoundMsgs` | `Send`, `ReceiveRound`, `ReceiveMessages` (one goroutine for each party, timeout of 1 s), `Broadcast`, `SendMessageChannels`, `WaitMessageChannel` | `BroadcastChannel`, `AtomicRounds` |
| Field arithmetic (`field.go`) | P, and a flag that spares a second primality test | `Validate`, `Uint64FromInt`, add, subtract, multiply, power, invert, divide | `Field`, `Algorithms` |
| Interpolation, Reed-Solomon decoding (`interpolate.go`, `shamir_reconstruct_export.go`) | a cache of inverted denominators | Newton and Lagrange interpolation, Berlekamp-Welch | `ReedSolomon`, `Algorithms`; in `FDVSS` by what it returns |
| Trivariate polynomials, Shamir sharing (`Tripoly.go`, `projection_eval.go`, `sharing.go`) | the coefficients | generation, projection, specialization, sharing | `TriPoly`; in `FDVSS` as points of agreement |
| Randomness generation (`protocols/fdpss/random_generation`) | none | Vandermonde combination of the dealers' shares | `Redistribution` |
| Redistribution (`protocols/fdpss/redistribution`) | none | mask, send, reconstruct | `Redistribution` |
| Message encoding (`msgpack/msgpack.go`) | a buffer and a position | encode, decode, size, each by the type | `Msgpack`, `Algorithms` |
| Parameters, interfaces (`primitives`, `communication/communication.go`) | none | records and interfaces | nothing to model |

### How the parts interact

A sharing runs through four committees of N members, and each member speaks once. The dealer sends a row and a column of its polynomial to every Com1 member, and column shares to every Com3 member, point to point. A Com1 member shares its column and row out to Com2 (zero tests), Com3 (cross shares) and Com4 (shares of the output). Com2 broadcasts, for every pair of Com1 members it heard, the differences of what they sent. Com3 decodes those differences, draws the consistency graph, and broadcasts: disqualified or not, the unhappy Com1 members, and the shares that open their columns. Com4 votes on the Com3 broadcasts, opens the columns of the unhappy members, compares them with the cross shares, and outputs a share, or zero for a disqualified dealer. The dealer decodes the secret from the Com4 broadcasts.

All of this goes over `fake.go`. Point-to-point messages are moved to `P2PMsgs` by relay goroutines the protocol never waits for. The `*All` receivers of `io.go` take whatever is there at that moment. Broadcast rounds are collected and pushed by the driver, between the phases.

Randomness generation takes the shares that a Com4 member holds of N dealers and combines them into N - D shares of values nobody knows; redistribution masks the shares of a secret with the first D of them and hands the masked shares to the next committee. Both are written as functions of one member, and nothing in the repository calls them yet.

### What is hard

- Concurrency: relays against receivers; the members of a committee in parallel; the collecting goroutines against senders and their own timeout; a `Broadcast` that blocks on an unread ReceiveChannel.
- Failure: up to D faulty members in each committee and a faulty dealer; one error ends the run, after the others have broadcast.
- Ordering: the slot of `P2PMsgs` is overwritten; `runCom3` calls `ReceiveAll` twice and throws away what the first call took of Com1.
- Identity: a message carries the number of its sender, and receivers file it under that number; so do the votes, the opened shares and the results.
- Filters that must fit together: the zero test of pairs, the degree search, the votes of Com4, the repair of unhappy members.
- Boundaries: decoding with exactly degree + 1 points, N = 3D + 1, full queues, small fields, sums and products at the width of a word, buffers that end in the middle of a value.

`PROJECT.json` lists the hazards one by one, each at its line, with the properties that cover it or the reason why none does yet.

### What makes each component correct

- FDVSS: an honest dealer's sharing is never replaced by another one; whatever a dealer does, the honest Com4 members output shares of one polynomial, the one the honest Com1 members hold, or all output zero; all honest Com4 members agree on which of the two; the run ends. What of this the code keeps against which faults is in section 2.
- Consistency graph: any two accepted members agree, and no clique of at least 2D + 1 members exists outside the accepted one.
- Point-to-point channels: no message twice, none out of order, none destroyed unread.
- Broadcast channels: all parties see one sequence of rounds; a message that was there in time is in the round; a round ends.
- Zero tests: a pair is joined exactly when its rows and columns agree, whatever D Com2 members broadcast.
- Field and decoding: the operations are those of the integers modulo P, the decoder finds the one codeword within its radius or reports an error.
- Randomness and redistribution: D dealers cannot determine the generated values; the secret is the same in every epoch and the sharing of it is fresh.
- Encoding: decoding an encoding gives the value back; a buffer too short or too long, and a number too wide, is an error.

## 2. The modules

| Module | Models | Extends or instantiates |
|---|---|---|
| `ConsistencyGraph` | `findCliqueIDs` and its degree loop, as operators on any graph | |
| `CliqueSearch` | the pair loop of `computeDealerStatusesFromCom2` and the search, one pair a step, whatever each pair comes out as | `ConsistencyGraph` |
| `Field` | `field.go`, in words of width `Word` | |
| `ReedSolomon` | `interpolate.go`, `shamir_reconstruct_export.go` | `Field` |
| `TriPoly` | `Tripoly.go`, `projection_eval.go`, the deterministic part of `sharing.go` | `ReedSolomon` |
| `DealerStatus` | what each pair comes out as: the sharing of Com1, the differences of Com2, their decoding by Com3 | `TriPoly`, `CliqueSearch` |
| `FDVSS` | one sharing of one dealer, end to end | `ConsistencyGraph`, instantiates `VSS` |
| `VSS` | the abstract specification: bind, output, reconstruct | |
| `Redistribution` | `fdpss`: epochs of randomness generation and redistribution | `TriPoly` |
| `Msgpack` | `msgpack.go`, for any table of types | |
| `Algorithms` | calls of the functions of `field.go`, `interpolate.go` and `msgpack.go`, one a behaviour, with reference definitions | `ReedSolomon`, `Msgpack` |
| `P2PChannel` | point-to-point half of `fake.go` | |
| `BroadcastChannel` | broadcast half of `fake.go` | instantiates `AtomicRounds` |
| `AtomicRounds` | the abstract specification: one sequence of rounds | |
| `MC*` | the instances TLC runs | |
| `PolynomialProofs` | no code of its own: the operations of `Field` and polynomials over it | `TriPoly` |
| `DecoderProofs` | no code of its own: the decoder of `ReedSolomon` | `PolynomialProofs` |
| the other `*Proofs` | theorems about the module of that name | the module, and `DecoderProofs` (where polynomials are needed) or `TLAPS` |

Operators whose name starts with `Mutant` are plausible bugs: each differs from the definition after it in one place, is used by no specification, and is there to show that a property can fail.

### FDVSS

| TLA+ | Code |
|---|---|
| `phase`, `served`, `erred`, `MayRun`, `Serve`, `Fail`, `Advance`, `Abort` | `continueFDVSSFromCom1` and `runOthersParallel`: member 1 runs alone and its error ends the run at once; the others run in parallel in any order, and an error among them ends the run after the last of them |
| `sent`, `relayed`, `Send`, `Relay`, `Arrived` | a sender's SendChannel is one queue with one relay, so what has arrived is a prefix of what was sent; the functions `DealerToCom1` .. `Com1ToCom4` give each message its place in the order of the sends |
| `taken` | what the first `ReceiveAll` of `runCom3` had to take and threw away |
| `full`, `DeliverRound`, `Drained` | the ReceiveChannels of `Broadcast`, the driver's drain before each round |
| `entry`, `future`, `meet` | what the dealer gives each Com1 member (a number, a row, a column, and whether words are unreduced) and what it sends to Com3 |
| `Com1`, `Com1Refuses`, `Com1Timeout` | `runCom1`: it sends nothing if the entry is one `com_1.go` refuses, and waits 500 ms for it (`ReceiveDealerFromCom1Reliable`) |
| `Claimed`, `Com1ID`, `Latest` | the receivers of `io.go` drop the sender of a Com1 message; Com2, Com3 and Com4 file it under the Com1ID in it, a later one over an earlier. An honest member repeats the number its dealer wrote |
| `Com2` | `runCom2`: which Com1 members it heard and the number each gave; a faulty member broadcasts some vectors (`Lie`) or none |
| `Source`, `Cross`, `PairAgrees`, `PairDiffers`, `Agreements` | `computeDealerStatusesFromCom2`: the pairs that certainly come out zero, those that certainly do not, and any choice of the others |
| `Supporters`, `Disqualified`, `Unhappy`, `Com3Reply` | the degree search and the reply of Com3 |
| `DqVotes`, `UnhappyVotes`, `UnhappySet`, `DisqualifiedByVote` | the votes of Com4, entry by entry |
| `ColumnShares`, `CrossShares`, `ForgedShares`, `Column`, `BucketFails`, `verdict` | the opened shares by the Com3Seq in them, a later one over an earlier, and what the decoder makes of them |
| `CrossConsistent`, `AdditionalDQ`, `ZeroShare` | the cross check |
| `Untied`, `RecipientPoint`, `PointMissing`, `Decoded`, `Com4Decode`, `Com4Answer` | the points of a Com4 share, by the Com1ID in each, and their decoding |
| `Results`, `ResultsRefused`, `Recovered`, `Reconstruct` | `ReconstructSecret` at the dealer: results by the index in each, refused when one occurs twice |

**The data abstraction.** A polynomial of degree D in each variable is a model value, a *version*. Two of them are compared at points only, so all that matters is the set `meet` of the points where they agree; `MeetAssumption` says what algebra says (`VersionsMeetInLines` proves it of trivariate polynomials): more than D points of agreement on a line are agreement on the line. Versions agree at a point for every Z or for none, and one set serves all pairs of them, which is exact for two. `Junk` is a value on no version. A decoder of n points returns a version that at most (n - D - 1)/2 of them contradict, which is the radius the code computes; from other points it returns an error or `Junk`. A row or column is a version; the sharing among Com2 or Com3 members is what `DealerStatus` and `TriPoly` are about. Where faulty members have enough points to make some other codeword, the model does not compute what they make: a pair is free to come out zero or not unless the honest values decide it (`Clear`, `PairAgrees`), and opened shares that forged ones decide come out as any member of `Verdicts`. The random scalar of `com_3.go:272` that hides a difference is left out; `FewScalarsHide` counts how many do.

**Faulty parties.** A faulty dealer gives any entry of `Dealings` and any shares, or none, to Com3. A faulty Com1 member shares out anything, to each receiver anew, or is silent; a faulty Com2, Com3 or Com4 member broadcasts anything of its message's form, or nothing. The code takes five things from a message without a check, and `Forged` says which of them faulty members make use of:

| `Forged` | What a faulty member may do | Where the code lets it |
|---|---|---|
| `"Com1ID"` | a Com1 member writes any member of `Claims`, to each receiver another | `io.go:190`, `com_2.go:39`, `com_4.go:355` |
| `"Vectors"` | a Com2 member lists a pair several times or in vectors that are too long | `com_3.go:204`, `com_3.go:262` |
| `"Votes"` | a Com3 member repeats a disqualification or an unhappy entry | `com_4.go:103`, `com_4.go:110` |
| `"Com3Seq"` | a Com3 member opens shares under every Com3Seq | `future_reconstruct.go:58`, `:80` |
| `"Index"` | a Com4 member gives several results, or one under another's index | `reconstruct.go:57` |

The properties say which of these they survive. `Commitment`, `HonestDealerShares`, `ComplaintsDecide` and `Verifiable` hold whatever Com1IDs and vectors are written, but ask for `OneVoice`, which excludes `"Votes"` and `"Com3Seq"`: one Com3 member that repeats a vote carries it alone, and then, with the shares of all others overwritten, makes the repair of a member succeed with a column of its own. `Verifiable` asks for `"Index"` to be excluded as well. `TestAssertion` asks for `PlainLists`, which excludes `"Vectors"`, `"Votes"` and `"Index"`. These are hypotheses about what faulty members do, and the code enforces none of them; section 5 lists what happens without.

A dealing binds the dealer (`Bindable`) if every honest Com1 member was given its own number, reduced words, and a row and a column that agree on the diagonal, none of which anybody compares with anything, and if so many honest Com2 members heard each two of them, as themselves, that the others' vectors cannot decide the pair.

**The abstract sharing.** `VSS` has three steps: the dealer is bound to a value, a receiver outputs it, the secret is reconstructed. `Verifiable` says that `FDVSS` implements it under the mapping `Sharing`: `bound` is nothing until the Com2 round is complete, then zero if that round makes somebody unhappy, else the polynomial that the honest columns are on; polynomials that agree on the share line count as one value. The value is fixed *before* Com3 opens a column or Com4 outputs anything, so nothing a faulty Com4 member does can change it, nor a Com3 member that speaks once and for itself. `Loose` is the sharing without a promise. The mapping takes it only for a dealer that is not honest, when no Com2 broadcast mentions it, when its dealing is not `Bindable`, or when no polynomial fits all honest columns; of a bindable dealing with everybody happy the last does not happen (`BindableCommon`).

**Not in the model.** Several dealers in one run (the code treats them one after the other and independently, but an error on one ends all); messages that name another dealer; a dealer that sends Com3 the shares of some columns only; ragged matrices of a dealer, on which `projection_eval.go:47` panics; the receivers for a single message that no caller uses.

### DealerStatus

`CliqueSearch` with the free outcome of each pair computed from the code. Rows and columns are matrices of machine words (`WordMatrix`), since `com_1.go` checks no more than their size; `Canonical` is what the words stand for. Com1 shares them entry by entry (`ShareMatrix`, which reduces a word as `sharing.go:172` does), Com2 broadcasts `LeftDiff` and `RightDiff` at the crossing points, Com3 decodes them (`CoeffVectorZero`) by a random combination if all vectors have full length and coefficient by coefficient otherwise. A faulty Com2 member broadcasts vectors of any content, `shape` says how many for each pair and how long. The random scalar is any that is not zero; the few that hide a difference are left out of `SideOutcomes` and counted by `FewScalarsHide` instead. Receiver 0 in `diffs` is the secret difference that nobody is sent. What a happy member sends to Com4 (`SpecializeColumnCoefficients`) is made of its words as they are, so `HappyColumnsFit` asks for reduced ones.

### Redistribution

A state is an epoch in progress: the current shares, the polynomials of this epoch's dealers (`dealt`), the random shares (`rg`), the masked values (`out`), and the shares that members of the next committee have decoded (`next`). `Receive` decodes what N senders sent, up to D of them lying. `HandOver` makes the next committee the current one; it stands for the missing caller. The dealers of the randomness are taken as shared: that a dealing reaches all members as one polynomial is what `FDVSS` is about.

### Field, ReedSolomon, TriPoly, Msgpack

Pure operators, named after their functions. A result of a function that may fail is a set, empty for an error. In `Field` every machine operation is taken modulo `Word`. Loops and recursion are recursive functions (`Euclid`, `Powers`, `Pow`, the columns of `NewtonInterpolate`, the rows of `GaussianSolve`, the varints and the types of `Msgpack`). `Tabulated` makes TLC compute a function once; it changes no value.

In `Msgpack` a byte of a varint carries a digit below `Half` (128 in the program) and at most `MaxLen` bytes (10) make a word. What Go's reflection finds out about a type is a descriptor; `Types` is a table of them, and a type is its place in the table, where the types of its parts come before it. A struct is the pair of its first exported field and the rest, and ends with an empty one; strings and byte slices are `Bytes`; a map is the set of its entries, and is encoded in any order of them. `Encodings[t][v]`, `Decodings[t][data]` and `Size[t][v]` are `appendEncodeVarint`, `decodeVarintValue` and `sizeValueVarint` at the type t: each function of one place of the table uses itself at the places of the parts only. `Overlong` says which bytes lead to an allocation (`reflect.MakeSlice`, `msgpack.go:328`) of more elements than there are bytes left. Floats, arrays of bytes, pointers and interfaces occur in no message and are not modelled.

`Algorithms` calls them all: a task is drawn (`FieldTasks`, all pairs of words, or one of `DecodeTasks`, `EncodeTasks`, `ParseTasks`), `FieldCall`, `DecodeCall`, `EncodeCall` or `ParseCall` computes what the code answers (`ParsePanic`: or nothing, for bytes that are `Overlong`), and the invariants compare the answer with definitions that share nothing with the code that made it: repeated multiplication, Horner's rule, all codewords within the radius, and for messages the encoder and the decoder each other.

### P2PChannel

One action for each critical section: `Lookup` (read lock), `Delete` (write lock), `Poll`, `Requeue` are the pieces of `ReceiveFrom`; `Take`, `Drain`, `ReturnAll` those of `ReceiveAll`; `DeliverBegin`, `DeliverPush`, `DeliverEnd` those of `DeliverP2PMessages`, which holds the mutex from the first to the last while receivers may drain the channel it fills. The messages of a link are numbered. `returned` is a history variable: what the calls have given to their callers. A party makes one receive call at a time, as every user in the repository does.

### BroadcastChannel

`FirstLook`, `LateMessage` and `Timeout` are the two selects of a collecting goroutine; `Collected` is `wg.Wait` and the loop over `agg`; `Push` is one blocking send of `Broadcast` or `SendMessageChannels`; `WaitMessageChannel` and `PutBack` are the two channel operations of `WaitMessageChannel`. `casts`, `due` and `log` are history variables. The Orchestrator has one user, which makes its calls one after the other. `AddChannel` is called before the first round, so `Parties` is constant.

`OneSequence` is the refinement: under `posted <- sent, rounds <- casts`, every behaviour of the channels is a behaviour of `AtomicRounds`, where a round takes place in one step.

## 3. The runs

Counts are distinct states, to show that the runs are not vacuous.

| Run | Checks | Instance | What it shows |
|---|---|---|---|
| `statuses` (13.6 k) | `NobodyLeftOut`, `ClearSupportFound`, `EdgesAgree`, `HappyAgree`, `HonestSupported`, `FewScalarsHide`, `HappyColumnsFit`, `HonestDealerAccepted` | four members over the field of 5, reduced and unreduced dealings, Com2 member 4 faulty | joined pairs agree and pairs that agree are joined; any two happy members agree; an honest dealer has all members happy; the happy members are the only large clique; their columns, if reduced, give each Com4 member one polynomial |
| `fdvss_faulty` (358 k) | `Commitment`, `Verifiable` | faulty dealer that may be late, Com1 member 2 faulty under any Com1ID, Com2 member 3 faulty with vectors of any length, three meeting sets, seven dealings | one polynomial, fixed before anything is opened, behind all honest outputs and the recovered secret |
| `fdvss_honest` (22 k) | `TestAssertion` | honest dealer, one liar in each of Com2, Com3 (under any Com3Seq), Com4, prompt relays | the secret is recovered |
| `fdvss_lag` (253 k) | `TypeOK`, `HonestDealerShares`, `ComplaintsDecide`, `Termination` | honest dealer, Com1 member 1 faulty or silent and under another Com1ID, Com3 member 4 faulty, late relay of Com1 member 3 | a dealing may be lost to lateness, never replaced; the driver ends, though nothing makes a relay run |
| `fdvss_test` | `TestAssertion`, violated | all honest, one late relay | finding 1 |
| `p2p_order` (53 k) | `TypeOK`, `InOrder`, `OnlyOvertakenLost` | `ReceiveFrom` and `ReceiveAll`, two senders, 3 messages a link | in order, none twice; lost only to a `ReceiveFrom` that returns an older one |
| `p2p_all` (18 k) | `NewestRelayedSurvives`, `Delivered` | `ReceiveAll` only, 3 messages a link | nothing destroyed, everything returned or superseded |
| `p2p_single` (3.6 k) | `NewestRelayedSurvives` | all three calls, one message a link | nothing lost when each pair exchanges one message |
| `p2p_lost` | `NewestRelayedSurvives`, violated | `ReceiveFrom`, 2 messages a link | finding 2 |
| `rounds` (287 k) | `TypeOK`, `PromptMessages`, `OneSequence`, `RoundEnds` | two parties, 2 messages, 3 rounds, all calls | the channels implement one sequence of rounds; a round that was begun is broadcast |
| `redistribution` (109 k) | `SecretKept`, `Refreshed`, `Extracted` | four members over the field of 5, any secret and sharing of it, four dealer polynomials, one lying sender | any number of epochs keeps the secret and refreshes its sharing |
| `algorithms` (35 k) | `FieldExact`, `DecoderExact`, `RoundTrip`, `WholeMessagesOnly`, `AcceptedIsValue` | P = 7 in words of 64; lists of up to six points; six types, byte strings of up to three bytes | the algorithms against reference definitions |

### Bounds, and why they are enough

- **N = 4, D = 1** (`MCFDVSS`) is the smallest committee with N >= 3D + 1 and D >= 1. Every threshold the code uses is distinct from its neighbours there: D + 1 = 2, 2D + 1 = 3, N = 4, and the decoding radius of N points is 1. `ComplaintsDecide`, `HonestDealerShares`, `Commitment`, `Verifiable` and, for prompt relays, `TestAssertion` are proved for every N and D, under the hypotheses they name.
- **Two polynomials F and G** and a third value `Junk`: the properties compare two versions at a time.
- **Meeting sets and dealings** (`SomeMeets`, `SomeDealings`). F and G meet at a point of the share line and one of the diagonal, on a row and a column, or at two pairs of crossing points; the faulty dealer deals F everywhere, G to two members, G to one member as its column only, rows and columns mixed so that every crossing agrees, unreduced words to member 4, to member 4 the number of member 3, or an entry that member 4 refuses. The first four pass some of the zero tests and not the others, and the fourth passes all of them. The runs with an honest dealer take one meeting set.
- **Forging.** `Claims`: a number nobody has (0, at which a Com2 member gives up), another member's and one's own. `Numbers`: 1 .. N and one more, so that a Com3 member can fill the shares of everybody and of nobody. `SomeVerdicts`: forged columns that come out as F, as nothing meant or as an error, cross shares that all match or none does, or are refused. Each passing run has those fields in `Forged` that its properties allow and its faulty members can write.
- **`statuses`**: P = 5 is the smallest prime with N < P for N = 4; the dealings are every mixture of rows and columns of two polynomials that share a row and a column, and `Skewed`, which agrees at every crossing point and is on no polynomial. The lies take three values, vectors of 0 to 3 coefficients (2 is right) and the pair once, twice or not at all; one or two honest Com2 members may have missed Com1 member 3. `Unreduced` has words of 1 and more times P above the element, at one, two or all members. `NobodyLeftOut` and `ClearSupportFound` are proved for every graph, the other six for every field, committee, dealing and lie.
- **`redistribution`**: P = 5, N = 4, D = 1; all 25 sharings of a secret at the start. The state repeats after each epoch, so the run is over all numbers of epochs. Its three invariants are proved for every field, committee and dealing.
- **`algorithms`**: P = 7 and words of 64, so the widest sum and product of elements fit and those of unreduced words do not; every pair of words. Lists of six points of degree 1 are corrected up to two errors, with more than that in most lists, so the decoder's refusals are there as well; lists of 1 to 4 points for degrees 0 to 2 have the boundaries n = d, d + 1, d + 2, unsorted and repeated points. Digits below 4 and words of three bytes reach the overflow of a word; the types have a number narrower than a word, nested sequences, maps and arrays, and lengths above the bytes left. All five invariants are proved for every field and word, every list of points, and every table of types.
- **`Pauses`**: where a late relay may have stopped when somebody looks, besides not begun and done. `fdvss_test` has a stop inside each of the stretches of a queue (2, 6, 10, 22); `fdvss_lag` one (6), which is between the messages of a Com1 member for two members of Com3; `fdvss_faulty` one (2), which is among the dealer's messages for Com1, so that `Com1Timeout` is there. More would take too long, and the three invariants of `fdvss_lag` and the two properties of `fdvss_faulty` are proved for every set of pauses.
- **One faulty member a committee** is D. Which members are faulty differs between the runs, and member 1 (which runs alone) is one of them.
- **`MaxSends`, `SendCap`, `RecvCap`** (`P2PChannel`): three messages a link are enough for one in a caller's hand, one in the slot and one in the queue; capacities of 1 or 2 let the channels run full, which 10000 would not. `InOrder`, `TypeOK`, `OnlyOvertakenLost` and `NewestRelayedSurvives` are proved for every bound.
- **`MaxSends`, `MaxRounds`** (`BroadcastChannel`): three rounds let one be in a ReceiveChannel, one be collected and one be over, and two messages let a party send its next one while the first is held by `WaitMessageChannel`. `TypeOK`, `PromptMessages` and `OneSequence` are proved for every bound and any number of parties. The run stops there, hence `CHECK_DEADLOCK FALSE`. The other runs check deadlock; in `FDVSS` the step `Terminated` stands for the end of the program, and is guarded by `phase`, so a driver stuck in the middle is a deadlock that TLC reports.
- **Late relays.** `fdvss_honest` has none: `TestAssertion` is false with one (finding 1). `fdvss_faulty` has that of the dealer only: those of Com1 members would multiply its states by such in which the Com2 round does not bind the dealer, about which the two properties say little. What holds however late they are (`HonestDealerShares`, `ComplaintsDecide`, `Termination`) is checked with a late Com1 member, and all but `Termination` are proved with any.

### Fairness

- `FDVSS!FairSpec`: weak fairness of the driver's steps as a whole. The driver and its members are goroutines that never wait for anything but each other, a 500 ms deadline, and ReceiveChannels. There is no fairness of `Relay`: nothing in the protocol waits for one.
- `P2PChannel!FairSpec`: each relay goroutine runs, a call that was started goes on, and a party keeps calling `ReceiveAll`. That last part is the caller's side of `Delivered`; sends and deliveries need not happen.
- `BroadcastChannel!FairSpec`: the collecting goroutines, their caller and the pushes run, and a party reads a round that is in its channel. That last part is what the code relies on: `Broadcast` blocks without it.

## 4. The proofs

All proofs are checked by tlapm to the last leaf. They rest on the assumptions the modules declare, on the hypotheses that a theorem names, and on nothing else:

| Module | Assumptions |
|---|---|
| `Field` and all above it | `WordAssumption`, `FieldAssumption`: P is prime and (P - 1)^2 fits a word, which `Validate` checks |
| `TriPoly` and above | `CommitteeAssumption`: N < P, N >= 3D + 1, which `PublicInput.Validate` checks |
| `DealerStatus` | `StatusAssumption`: the thresholds of the code, at most D faulty Com2 members, and P >= 3; `DealingAssumption`: rows and columns are (D + 1) by (D + 1) matrices of words, masks of elements (`Dealings` and `Masks` may hold any of them) |
| `Redistribution` | `DealerAssumption`: dealings and lies are elements |
| `Msgpack` | `VarintAssumption`: `Half >= 2`, `MaxLen >= 1`; `TypeAssumption`: each place of the table has a descriptor of one of the kinds, whose parts come before it and whose numbers fit a word (so a type is finite; the message structs are) |
| `Algorithms` | `TaskAssumption`: the points to decode are lists of pairs of elements, as honest members send them and as the exported function makes them (`% p`); a value to encode is one of its type; the bytes to read are any |
| `CliqueSearch` | `Size \in Nat`, `Threshold >= 1` |
| `FDVSS` | `SizeAssumption` (D >= 1, N >= 3D + 1; the code also accepts D = 0, where there is nobody to guard against), `ValueAssumption` and `MessageAssumption` (the model values are different, `None` is no message), `MeetAssumption` (section 2), `DealingAssumption` (every member is dealt an entry, or one that it refuses), `FaultAssumption` (at most D faulty members a committee; `Forged`, `Claims`, `Numbers` and `Verdicts` are of their types, and any) |
| `P2PChannel` | `LinkAssumption`, `CallAssumption`, `BoundAssumption` |
| `BroadcastChannel` | `PartyAssumption` (finitely many parties, numbered), `CallAssumption`, `BoundAssumption`, `NoRoundAssumption` (`NoRound` is not a round) |

### The network

**`P2PChannelProofs`**
- `TypeCorrect` (`TypeOK`). It is not inductive alone: a call about to delete must hold a real message and a slot marked for flushing must not be empty. `TypeInv` adds both.
- `OrderCorrect` (`InOrder` when `Deliver` is never called). The invariant `OrderInv` follows a message along its way: the queue is increasing for each target and lies above the slot (`QueueOrder`), which lies above what has been returned (`SlotOrder`); what a `ReceiveFrom` or a `ReceiveAll` has in hand lies above what has been returned and not above the slot or the queue (`HandOrder`); what has been returned is increasing (`ReturnedOrder`). The hand is the interesting part: a relay may store a newer message after `Lookup` and `Delete` destroys it, which loses a message and yet keeps the order. `NoDelivery` keeps the ReceiveChannels empty.
- `SurvivesAll` (`NewestRelayedSurvives` under `AllOnly`, which says that receivers call `ReceiveAll` only). A link's queue is `Dense`: it holds the last messages sent, without a gap, so that the newest relayed one is a number that can be computed from the queue and from how many were sent (`Newest`). `KeptInv` says that this message is in the slot, in the map of a call, or returned; a message is overwritten only by a newer one and taken together with the slot.
- `LossNeedsOvertaking` (`OnlyOvertakenLost`, an action property, when `Deliver` is never called): what finding 2 can cost and no more. A step after which the newest relayed message of a link is nowhere is the `Delete` of a `ReceiveFrom` whose hand is older than the slot, and that step returns what is in the hand. `LossInv` adds to `OrderInv` that queues are dense and that only a `ReceiveFrom` between its locks has a hand (`HandsEmpty`); `DeleteLoses` uses `HandOrder`, that the hand is never newer than the slot; `OthersKeep` goes through the other steps.
- `SurvivesSingle` (`NewestRelayedSurvives` with `MaxSends = 1`, any mix of calls). `OnceInv` follows the one message of a link: once the relay has moved it, it is in the slot, in a hand, in the ReceiveChannel or returned (`Got`), never in two of the slot, the ReceiveChannel and the hand of a `Requeue` (`Holding`), and a ReceiveChannel holds at most one message of each sender, so that a `Requeue` never finds it full. The second is where the hypothesis `RoomForAll` is used: `RecvCap`, 10000 in the code, is at least the number of a party's senders. Both properties fail without their hypotheses (`p2p_lost`).

**`BroadcastChannelProofs`**, for any number of parties, calls and messages:
- `TypeCorrect` (`TypeOK`, which includes that no collecting goroutine outlives `ReceiveMessages`).
- `PromptCorrect` (`PromptMessages`). `PromptInv`: a message that was due stays in its channel until its goroutine looks for the first time, and is in that goroutine's place of the round from then on.
- `ImplementsRounds` (`OneSequence`), for parties numbered from 0 as `collectRoundMessages` numbers them (`Consecutive`). `RoundsInv` counts: the number of a message is how many of a party's messages earlier rounds carried (`Numbering`, with the places a message may be in between: the channel, a goroutine's slot, the round, or the hand of `WaitMessageChannel`), and the rounds a party has been sent are the next ones that were meant for it (`Reading`, `Pushing`). A round is cast in the step that starts its first push; every other step is a step of `AtomicRounds` or a stutter.

### The sharing

**`FDVSSProofs`**, for every N >= 3D + 1, every dealer and every choice of at most D faulty members in each committee:
- `TypeCorrect` (`TypeOK`, with `SentInv`: an honest Com1 member whose messages are on their way has an entry).
- The invariant `CourseInv` of everything that follows. `Order`: nobody speaks out of turn. `Shown`: the happy members are what the search makes of one of the outcomes that the Com2 round allows. `Spoken`: an honest Com3 broadcast is the verdict on those happy members and has no cross shares of an unhappy one; a faulty one is as `Forged` says. Then `Answered`: what an honest Com4 member has output is one of its three answers, by that verdict.
- `ComplaintsDecideHolds` (`ComplaintsDecide`). `Votes`: when nobody votes twice entries are members, 2D + 1 honest voices reach the threshold and D faulty ones do not, so Com4 finds the verdict of the honest Com3 members. `UnhappyZero`: of an owner they call unhappy they open no cross shares, and D others, each with its own share, do not fill a bucket, so the repair finds no match. `ComputedZero` puts the two together. This is where `OneVoice` is needed.
- `HonestDealerSharesHold` (`HonestDealerShares`). `HonestPoints`: when nobody is unhappy all but D points of a Com4 decode are the columns of honest Com1 members; a faulty one takes at most one place, its own or another's, under whatever number it writes. `DecodedCommon`: the decoder then returns a polynomial that all honest columns agree with (`Common`), as two that meet at more than D points of the share line meet on all of it (`ShareLineFull`). An honest dealer's polynomial is one of them (`DealtCommon`), and they have one share line (`OneCommon`).
- `CommitmentHolds` (`Commitment`), also for late relays. If nobody complains every pair of members came out zero (`AllSupport`), so if the dealing is `Bindable` every honest row meets every honest column (`BindableCommon`). The rest is the argument of the bivariate sharing, in one state (`CrossingCommon`). Suppose the column v of h is not what the other honest columns agree with at the share line. At most D rows can meet it as another version, since versions that meet at more than D points of a line meet on all of it (`LineFull`); so more than D honest rows are of version v (`HonestLeft`), every other honest column meets them and with them v at the share line, and v is what all agree with.
- `ImplementsVSS` (`Verifiable`), for `OneVoice` and results under their own index, also for late relays. `BoundFixed` and `BoundStep` show that once the dealer is bound no step changes `Bound`: what it depends on is only written before the Com2 round ends. The step that ends the round is `Bind`, every earlier one a stutter, and by `Order` nothing has been output yet. `HeldKnown` says that whatever an honest member has output, the dealer is bound to it, from `Answered` and the lemmas above. `ResultsMany` counts the results, `RecoveredHonest` finds an honest share among those that the secret is recovered from, and `AllRecover` says that the decoder finds what all honest ones are shares of.
- `PromptRunRecovers` (`TestAssertion` under `Prompt`: dealer and Com1 honest, no silence, no lagging relay). The only property here that needs to know where the run is: `Carried` says that what was sent has arrived and that each phase finds its messages, `Uttered` that each phase finds the broadcasts of the one before, and from these that no guard of an error holds. Every pair comes out zero (`AllPairsAgree`), where plain vectors are needed, so all members are happy (`AllSupporters`) and the verdict is clear (`PromptVerdict`); a Com4 member then decodes the dealt column (`PromptAnswer`), and the dealer its secret (`PromptRecover`). Shares that a faulty Com3 member opens, under whatever Com3Seq, are not looked at. Without `Prompt` the assertion is false (finding 1).

### The field and the decoder

**`PolynomialProofs`**, the field first. `AddExact`, `SubExact`, `MulExact`: for every P that `Validate` accepts and all elements of the field, the operations on machine words give an element, the one of addition, subtraction and multiplication modulo P. `SumsFit` and `ProductsFit` show that no sum or product leaves the word, from the bound on (P - 1)^2 (and Word >= 4, for P = 2). (`ModAdd` and the others reduce their arguments first, which makes them elements.) `InvExact`: the loop of `ModInv` ends with the inverse of every element but zero. It is an induction on the second remainder: the two remainders have no common divisor, since P is prime, and each is congruent to its coefficient times the argument. Then sums over finite sets, the values of a polynomial (`Evaluate` sums the coefficients times the powers, as the code does), and what follows from them. `FewRoots` divides by a root and goes on with one degree less; `OnePolynomial` takes the difference of two polynomials. `LagrangeExact` is `interpolateAtZero`.

Three results are about what is shared out. `ProjectionsCross`: the row of x and the column of y that a dealer projects take the same polynomial in Z where they cross; both are the double sum over the coefficients, in two orders (`SumsExchange`). `VersionsMeetInLines`: two trivariate polynomials that agree at more than D points of a line, a row or a column of 0 .. N, agree on all of it; so the sets of `MeetAssumption` are those that polynomials have, and the proofs about `FDVSS` assume nothing that algebra does not give. `SharesHideSecret`: for any D receivers, whatever they hold and whatever the secret, exactly one choice of the coefficients that `sampleCoeffs` draws deals this out. (That each is as likely as the next one is the generator's part.)

**`DecoderProofs`**: what `reedSolomonDecodeImpl` returns for every list of points, along its own path.
- `NewtonExact`: each column of the table of `newtonInterpolate` holds divided differences; the polynomial through a prefix of the points, plus a multiple of the product that vanishes on that prefix, is the one through one point more.
- The fast path: its answer contradicts at most `ErrorBound` points, and if the points are on one polynomial at all it is that one.
- `polyDivMod`: quotient and remainder satisfy the identity of division with a remainder of smaller degree, so a remainder of zero means that the divisor divides.
- `gaussianSolve`: elimination keeps the set of solutions, one pivot after the other, so what it returns solves the system and it returns nothing only where there is no solution.
- `KeyEquations`: a polynomial within the radius together with the polynomial whose roots are its wrong points solves them; and for any solution, numerator minus that polynomial times the denominator has more roots than its degree allows, so the quotient is that polynomial.
- `DecodeSound`, `DecodeExact`, and both in one, `DecodeMeans`: nothing for points that repeat an x (or, in the strict variant, are not ascending), and else the values at zero of the polynomials within the radius, of which there is one or none.

**`AlgorithmsProofs`** puts these together into the invariants that `algorithms` checks, for every field, pair of words, list of points, table of types and string of bytes. `AnswersRight` says of every answer that it is right; each case is a lemma on one function.
- `FieldExactHolds` (`FieldExact`). The inverse and the quotient are all solutions of their equations, since there are no divisors of zero. `PowExact`: the loop keeps the product of the result so far and the base to the exponent that is left (`PowersRaise`), by induction on that exponent. `FromIntExact`: `Uint64FromInt` gives the residue of a negative number, with P for zero.
- `DecoderExactHolds` (`DecoderExact`) is `DecodeMeans` with the reference definitions: Horner's rule gives what `Evaluate` sums (`ValueIsEvaluate`), so `Codewords` are the polynomials within the radius, and the exported function is the variant that is not strict.

### The encoding

Also in **`AlgorithmsProofs`**. `Codec(V, enc, dec, size)` says what a matching pair of encoder and decoder is: every encoding of a value of V has the length that the size says and is read back whatever follows it (`Writes`); and whatever is read is one value of V, took at least as many bytes as its encoding has, and would have been read in the same way with more bytes behind (`Reads`). Both halves are needed, and both say what happens *in the middle* of a buffer: the decoder finds the next field where the last one ended, so a statement about whole messages alone is not inductive.
- `VarintCodec`: varints of k bytes have it for the numbers below `Capacity[k]`, by induction on k. The last byte of the longest varint may only be 0 or 1; that is what keeps every word readable and every number read in the word.
- Each kind of type has it when its parts do: one lemma for each kind, with an induction over the items where there is a sequence of them (`ListCodec`), and for a map (`MapCodec`) that the decoder builds the entries that were written from any order of them, and that of entries with a repeated key the last one is kept, so that encoding again takes no more bytes.
- `EveryTypeCodec`: so every place of the table has it, by induction on the place. This is an induction over types, in numbers.
- `RoundTripHolds`, `WholeMessagesOnlyHolds`, `AcceptedIsValueHolds` (the three invariants) follow in one state: a message cut short that were accepted would, with its missing bytes put back, be read as the same value with something left over.

### The graph of Com3

**`DealerStatusProofs`**
- On any graph: `NobodyLeftOutHolds`, `ClearSupportFoundHolds`. The inductive invariant `StoredInvariant` says that a stored clique is what `FindCliqueIDs` gives for the stored edges. The rest are facts of one state: every member of a clique of `Threshold` vertices has at least `Threshold - 1` peers, so it is among the high-degree vertices, and the search accepts all of these or none.
- `StatusImplementsSearch`: every behaviour of `DealerStatus` is one of `CliqueSearch`, so that `HappyMembers` has these theorems for the graphs that the field arithmetic makes.
- `StatusTypeCorrect`: what Com2 has broadcast are the differences of the dealing.
- `FewScalarsHideHolds`: a scalar that hides a difference is a root of it (`FewRoots`).
- `EdgesAgreeHolds`: `EdgesFound` keeps for every edge the lies and the scalars it was found with. The differences at the Com2 members are points of a polynomial with the secret difference at zero (`ShareIsPoly`, of the reduced words); with the honest values in the majority the decoder returns that one (`DecodeSound`), by the random combination and coefficient by coefficient alike. `HappyAgreeHolds`: the happy members are joined two by two (`StoredSupports`), so any two agree: enough neighbours are not enough.
- `HonestSupportedHolds`, the other direction: the honest values are zero, and the decoder corrects the rest, for vectors that are short, repeated or missing (`PairComesOutZero`). `PairsAfterCom2` keeps the loop from starting before Com2 is over.
- `HonestDealerAcceptedHolds`: by `BothWays` the search begins when no pair is left, and edges go both ways; where rows and columns cross, both sides of every pair agree (`CrossingAgrees`), so the graph is complete, and a complete graph is accepted (`ClearCliqueFound`). `ProjectingDealerAccepted` takes the dealing of `dealer.go`, whose projections cross by `ProjectionsCross`: an honest dealer loses no member to faulty Com2 members, whatever its polynomial.
- `HappyColumnsFitHolds`: the rows of D + 1 accepted members, weighted as for interpolation at zero, add up to one polynomial; the column of every accepted member meets each of these rows, so its value at X = 0 is on it. What Com2 compares is made of reduced words (`ReducedShares`); the columns that Com4 is sent are those only if their words are (`CanonicalSame`).

### Epochs

**`RedistributionProofs`**. `EpochInv`: the shares are on a polynomial with the secret, `rg` and `out` are what the code makes of the dealings and the shares, and what was decoded is on the polynomial `Fresh` of the secret and the generated values; then `SecretKeptHolds` and `RefreshedHolds`. The step is `ReceivedIsFresh`: the values masked for one receiver are points of a polynomial, whose value at zero is the receiver's point of `Fresh`, and the decoder finds it whatever D senders sent. `ExtractedHolds` is a fact of one state: if all N - D generated values were zero, so would be the dealt values weighted by any polynomial of degree below N - D (`CombinationsSpan`); one that vanishes at all dealers that shared something but one leaves that dealer's value, which is not zero (`NotAllZero`).

### Only model-checked

- `Termination`, `Delivered`, `RoundEnds`: liveness under fairness, which the prover does not reach (nor `ENABLED`). Every other property of a passing run is stated by a theorem.

Inductions over numbers and finite sets the provers do: the proofs name the set of the numbers for which a fact holds, so that the induction theorems need no operator for an argument; an induction over types or sequences is one over their places or lengths. No module declares a recursive operator.

## 5. Findings

1. **A late relay fails an honest run** (`fdvss_test`). `ReceiveCom1ToCom4All` (`io.go:443`), like the other `*All` receivers, returns what the relays have moved so far. A Com4 member that does not find the message of an honest Com1 member fails (`com_4.go:326`), and the run with it. `firstparty_vss_test.go:84` asserts that it does not. Only the dealer's message to Com1 has a reliable receiver (`ReceiveDealerFromCom1Reliable`).
2. **`ReceiveFrom` deletes a message it has not read** (`p2p_lost`). It reads the slot under the read lock, releases it (`fake.go:250`), and deletes the key under the write lock. A message the relay stores in between is destroyed; the comment at `fake.go:20` says that the mutex protects the concurrent access to the map. `p2p_single` shows that nothing is lost as long as a pair exchanges one message, and `OnlyOvertakenLost` that nothing else is: without `DeliverP2PMessages` every loss is one of this kind. The same gap lets a `DeliverP2PMessages` in between put the message just read into the ReceiveChannel, where the next call finds it again. Nothing in the repository calls these two together.

Other behaviours are worth knowing and are not findings, since nothing in the repository says otherwise:

- One unhappy Com1 member is enough to lose the dealing (`ComplaintsDecide`), because Com3 forwards the cross shares that Com4 then filters out.
- Com4 counts the votes of Com3 by entries (`com_4.go:103`, `:110`): one Com3 member that repeats an entry 2D + 1 times carries the vote, and gets the dealer zeroed (`"Votes"`).
- Com4 files opened shares by the Com3Seq in them (`future_reconstruct.go:58`, `:80`): one Com3 member can overwrite the shares of the others. By itself this changes nothing as long as nobody is unhappy; together with a repeated vote it makes the repair of a member succeed with a column nobody dealt (`"Com3Seq"`).
- Receivers drop the sender of a Com1 message (`io.go:190`) and believe the Com1ID in it, and an honest Com1 member repeats the number its dealer gave it. A faulty member can take another's place, but only one at a time at each receiver, which is why the decoder still corrects it; a number that is not positive makes a Com2 member give up (`com_2.go:33`), and the run fails.
- A Com4 member that gives a result under an index twice makes `ReconstructSecret` refuse all results (`interpolate.go:289`, `"Index"`).
- Words of a dealer that are P or more are reduced on their way to Com2 (`sharing.go:172`) and not on their way to Com4 (`projection_eval.go:19`), where the product wraps: the zero tests pass and the column is on another polynomial. `Commitment` and `HappyColumnsFit` ask for reduced words; the decoder of Com4 corrects the columns of up to D members, faulty ones counted.
- `msgpack.Decode` allocates a slice at the length it reads (`msgpack.go:328`): a length far beyond the message panics, where any other wrong length is an error (`ParsePanic`).
- One vertex of high degree outside the supporters makes `findCliqueIDs` reject all of them (the hypothesis of `ClearSupportFound`).
- A member's row is never compared with its own column: Com2 takes the pairs i < j and Com3 sets the diagonal of its graph without a look (`com_3.go:163`). A dealing that differs there can agree at every crossing point and lie on no polynomial (`Skewed` in `MCDealerStatus`, the fourth of `SomeDealings` with `Crossings` in `MCFDVSS`), so `Commitment` (in `Bindable`) and `HappyColumnsFit` have the diagonal as a hypothesis.
- A dealer that no Com2 broadcast mentions is not checked at all (`Mentioned`).
- The threshold at `com_3.go:204` counts vectors, not Com2 members: a member that broadcasts a pair twice makes up for an honest one that did not hear it. More than D honest vectors are not enough to make up for that either once D > 1: for D = 2, three honest and two lying vectors reach the threshold of five and are decoded with one error, and two lies and two honest points can be on a polynomial that is zero at zero. `EdgesAgree` and `HappyColumnsFit` ask for D honest members more than there are faulty ones as well (`HeardEnough`); the attempt to prove less found this.
- One vector that is too long makes Com3 decode coefficients that nobody else sent, and a pair that agrees comes out as different, so one Com2 member can get an honest dealer disqualified (`"Vectors"`); `HonestSupported` and `TestAssertion` are about vectors that are not too long.

## 6. The plan

The order puts the sharing itself first, then the network it runs on, then the algorithms.

Done: the consistency graph and the decoding that makes it; the sharing of one dealer and the abstract sharing it implements; both halves of the network; the field, the decoder, the polynomials; randomness generation and redistribution; the encoding; their runs and the theorems above.

To extend the model:
1. Several dealers in one run and what an error on one does to the others.
2. `Redistribution` on the dealings that `VSS` allows, those included that some members decode to zero.

To prove more:
1. What survives of `InOrder` and `OnlyOvertakenLost` when `DeliverP2PMessages` is called too: it makes two ways for the messages of a link, and its drops are the limit of the ReceiveChannel.

Not modelled, and why: the random number generator of `sharing.go` and `Tripoly.go`'s sampling (a question of probability; specifications choose the coefficients); the caches of `interpolate.go` and `com_2.go` (their keys are all that their values depend on); the flag of `FieldParams` (P is not assigned after it is made); the `ResolveBench` functions (they read flags and environment variables); floats, arrays of bytes, pointers and the kinds that `msgpack.go` gives to the codec library (no message has them); `primitives` and `communication.go` (no behaviour).
