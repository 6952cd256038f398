----------------------------- MODULE DialProofs -----------------------------
(***************************************************************************)
(* The safety property of DialStreams, for every finite set of fetches,     *)
(* every length of a body, every depth of a stream's channel and every      *)
(* number of permits and of documents.                                      *)
(*                                                                         *)
(* A fetch is dialled once, so it has one stream and one completion. Until  *)
(* the completion is adopted nobody touches the stream; after that only the *)
(* renderer thread does, and it waits for the answer of every call it makes *)
(* about a stream. So between the body task and the page the chunks are in  *)
(* one place at a time: read by the page, in the one reply under way, or in *)
(* the channel of the stream.                                               *)
(***************************************************************************)
EXTENDS DialStreams, FiniteSetTheorems, TLAPS

OptionalStream == Streams \cup {NoStream}
DialCalls == {"Dial", "CancelDial"} \X Fetches
StreamCalls == {"CancelStream", "DialRead"} \X Streams
PageRequests == {"Fetch", "AbortFetch"} \X Fetches
DialReplies == [op : {"Dial"}, fetch : Fetches, out : OptionalStream]
StreamReplies == [op : {"Unit", "Chunk", "End", "Error"}, fetch : Fetches, out : {NoStream}]
Messages == {"Chunk", "End", "Error"}
WorkerRecord == [at : {"none", "global", "tab", "send", "out", "replied"}, cancel : BOOLEAN,
                 attempt : {1, 2}, out : OptionalStream]
BodyRecord == [at : {"none", "run", "closing", "over", "aborted"}, read : 0..BodyLength]
GotRecord == [chunks : Nat, end : {"no", "End", "Error"}]

(* What of P is in the queue q is there once. *)
Once(q, P) == \A i, j \in DOMAIN q : q[i] \in P /\ q[i] = q[j] => i = j

(* The types: of the renderer's side, of the calls between the processes,   *)
(* and of the network's side.                                               *)
PageShape ==
    /\ step \in {"adopt", "requests", "launch", "adoptAgain", "task"}
    /\ dialPage \in [Fetches -> {"new", "asked", "sync", "aborted", "open", "settled", "gone"}]
    /\ filed \in [Fetches -> {"none", "queued", "started"}]
    /\ got \in [Fetches -> GotRecord]
    /\ resets \in 0..MaxResets

QueueShape ==
    /\ dialOutbox \in Seq(PageRequests)
    /\ channel \in Seq(Completions)
    /\ dialTasks \in Seq(Completions)
    /\ calls \in Seq(DialCalls \cup StreamCalls)
    /\ dialReplies \in Seq(DialReplies \cup StreamReplies)

CallShape ==
    /\ threadBlocked \in DialCalls \cup StreamCalls \cup {<<>>}
    /\ reading \in OptionalStream

NetShape ==
    /\ dials \subseteq Fetches
    /\ worker \in [Fetches -> WorkerRecord]
    /\ table \subseteq Streams
    /\ netBody \in [Streams -> BodyRecord]
    /\ buffer \in [Streams -> Seq(Messages)]
    /\ free \in [tab : Nat, global : Nat]
    /\ cache \in 0..NoEntry

DialShape == PageShape /\ QueueShape /\ CallShape /\ NetShape

(* A fetch is dialled once: it is asked for in the outbox, or queued, or    *)
(* its call is under way, or it has a worker, one after the other.          *)
LaunchInv ==
    /\ \A f \in Fetches :
          /\ dialPage[f] = "new" => filed[f] = "none" /\ worker[f].at = "none"
          /\ filed[f] = "queued" => worker[f].at = "none"
          /\ <<"Fetch", f>> \in ToSet(dialOutbox) =>
                /\ dialPage[f] # "new" /\ filed[f] = "none" /\ worker[f].at = "none"
                /\ <<"Dial", f>> \notin ToSet(calls)
          /\ <<"Dial", f>> \in ToSet(calls) =>
                dialPage[f] # "new" /\ filed[f] # "queued" /\ worker[f].at = "none"
    /\ Once(dialOutbox, {"Fetch"} \X Fetches)
    /\ Once(calls, {"Dial"} \X Fetches)

(* The stream of a fetch. *)
WorkerInv == \A f \in Fetches :
    /\ worker[f].at \notin {"out", "replied"} => worker[f].out = NoStream
    /\ worker[f].out # NoStream => worker[f].out[1] = f /\ dialPage[f] \notin {"new", "sync"}

(* A body task runs for an open stream, sends chunks, and one End or Error  *)
(* behind them that leaves only with the stream.                            *)
ChunksFirst(q, over) ==
    \A i \in 1..Len(q) : q[i] # "Chunk" => i = Len(q) /\ over
StreamOK(s) ==
    /\ netBody[s].at # "none" => worker[s[1]].out = s
    /\ netBody[s].at = "none" => netBody[s].read = 0
    /\ s \in table => netBody[s].at \in {"run", "closing", "over"}
    /\ s \notin table => netBody[s].at \notin {"run", "closing"} /\ buffer[s] = <<>>
    /\ netBody[s].at = "closing" => netBody[s].read = BodyLength
    /\ Len(buffer[s]) <= Depth
    /\ ChunksFirst(buffer[s], netBody[s].at = "over")
    /\ s \in table /\ netBody[s].at = "over" =>
          /\ Len(buffer[s]) > 0
          /\ buffer[s][Len(buffer[s])] # "Chunk"
          /\ buffer[s][Len(buffer[s])] = "End" => netBody[s].read = BodyLength
StreamInv == \A s \in Streams : StreamOK(s)

(* The call c is about a stream of f; the thread sleeps in such a call. *)
About(c, f) == c \in StreamCalls /\ c[2][1] = f
Busy(f) == About(threadBlocked, f)
Untouched(f) ==
    /\ dialPage[f] # "open" /\ got[f].chunks = 0 /\ got[f].end = "no" /\ ~ Busy(f)
    /\ worker[f].out # NoStream => worker[f].out \in table

(* The one completion of a fetch is a reply, in the channel or a task; its  *)
(* stream is untouched until it has been taken out of there.                *)
Completes(f, out) == worker[f].at = "replied" /\ worker[f].out = out /\ Untouched(f)
UntouchedInv == \A f \in Fetches : worker[f].at # "replied" => Untouched(f)
CompletionInv ==
    /\ \A r \in ToSet(dialReplies) : r.op = "Dial" =>
          /\ Completes(r.fetch, r.out)
          /\ \A c \in ToSet(channel) \cup ToSet(dialTasks) : c.fetch # r.fetch
    /\ \A c \in ToSet(channel) \cup ToSet(dialTasks) : Completes(c.fetch, c.out)
    /\ \A c \in ToSet(channel), d \in ToSet(dialTasks) : c.fetch # d.fetch
    /\ Once(dialReplies, DialReplies)
    /\ Once(channel, Completions)
    /\ Once(dialTasks, Completions)

(* The call the thread sleeps in is on its way, or its stream is being      *)
(* read, or its reply is on its way: one of them, and once.                 *)
NoAnswer == \A r \in ToSet(dialReplies) : r.op = "Dial"
BlockInv ==
    /\ \A c \in ToSet(calls) : c \in StreamCalls =>
          c = threadBlocked /\ reading = NoStream /\ NoAnswer
    /\ reading # NoStream => threadBlocked = <<"DialRead", reading>> /\ NoAnswer
    /\ \A r \in ToSet(dialReplies) : r.op # "Dial" =>
          /\ Busy(r.fetch)
          /\ threadBlocked[1] = "CancelStream" <=> r.op = "Unit"
          /\ \A q \in ToSet(dialReplies) : q.op # "Dial" => q = r
    /\ Once(calls, StreamCalls)
    /\ Once(dialReplies, StreamReplies)
    /\ \A f \in Fetches : dialPage[f] = "sync" => threadBlocked = <<"Dial", f>>

Answer(f, op) == [op |-> op, fetch |-> f, out |-> NoStream]
Ended(f) == \E op \in {"End", "Error"} : Answer(f, op) \in ToSet(dialReplies)

(* A page that holds a response holds its stream, until the end is on its   *)
(* way; it reads only what it holds, and what it cancels it holds no more.  *)
OpenOK(f) ==
    /\ dialPage[f] = "open" => Held(f) # NoStream /\ (Held(f) \in table \/ Ended(f))
    /\ Ended(f) => Held(f) \notin table
    /\ got[f].end # "no" => dialPage[f] \in {"settled", "gone"}
OpenInv ==
    /\ \A f \in Fetches : OpenOK(f)
    /\ \A s \in Streams :
          /\ threadBlocked = <<"DialRead", s>> => dialPage[s[1]] = "open" /\ Held(s[1]) = s
          /\ threadBlocked = <<"CancelStream", s>> => dialPage[s[1]] # "open"

(* The chunks the body task has read are with the page, in the reply under  *)
(* way or in the channel of the stream.                                     *)
Pending(f) == IF Answer(f, "Chunk") \in ToSet(dialReplies) THEN 1 ELSE 0
Queued(s) == IF netBody[s].at = "over" THEN Len(buffer[s]) - 1 ELSE Len(buffer[s])
FetchCount(f) ==
    /\ got[f].chunks + Pending(f) <= BodyLength
    /\ Answer(f, "End") \in ToSet(dialReplies) => got[f].chunks = BodyLength
StreamCount(s) == got[s[1]].chunks + Pending(s[1]) + Queued(s) = netBody[s].read
CountInv ==
    /\ \A f \in Fetches : FetchCount(f)
    /\ \A s \in table : StreamCount(s)
    /\ WholeBodies

(* Every stream of the tab is watched by someone who will close it. *)
Watched(s) ==
    \/ worker[s[1]].at = "out" /\ worker[s[1]].out = s
    \/ \E r \in ToSet(dialReplies) : r.out = s
    \/ \E c \in ToSet(channel) \cup ToSet(dialTasks) : c.out = s
    \/ <<"CancelStream", s>> \in ToSet(calls)
    \/ dialPage[s[1]] = "open" /\ Held(s[1]) = s
    \/ dialPage[s[1]] = "gone"
WatchInv == \A s \in table : Watched(s)

DialInv ==
    /\ DialShape /\ LaunchInv /\ WorkerInv /\ StreamInv
    /\ UntouchedInv /\ CompletionInv /\ BlockInv /\ OpenInv /\ CountInv
    /\ WatchInv /\ PermitsHeld

-----------------------------------------------------------------------------
(* The queues: an element is taken from the front or put at the end. *)
Takes(q, r, x) ==
    /\ ToSet(q) = ToSet(r) \cup {x}
    /\ \A P : Once(q, P) => Once(r, P) /\ (x \in P => x \notin ToSet(r))
Puts(q, r, x) ==
    /\ ToSet(r) = ToSet(q) \cup {x}
    /\ \A P : Once(q, P) /\ (x \in P => x \notin ToSet(q)) => Once(r, P)

LEMMA QueueTaken ==
  ASSUME NEW S, NEW q \in Seq(S), q # <<>>
  PROVE  Head(q) \in S /\ Tail(q) \in Seq(S) /\ Takes(q, Tail(q), Head(q))
<1>1. /\ Len(q) \in Nat /\ Len(q) >= 1 /\ Len(Tail(q)) = Len(q) - 1
      /\ Head(q) = q[1] /\ DOMAIN q = 1..Len(q) /\ DOMAIN Tail(q) = 1..(Len(q) - 1)
    OBVIOUS
<1>2. \A i \in 1..(Len(q) - 1) : Tail(q)[i] = q[i + 1]
    BY <1>1
<1>3. \A i \in DOMAIN q : i = 1 \/ (i - 1 \in DOMAIN Tail(q) /\ Tail(q)[i - 1] = q[i])
    BY <1>1, <1>2
<1>4. \A i \in DOMAIN Tail(q) : i + 1 \in DOMAIN q /\ Tail(q)[i] = q[i + 1]
    BY <1>1, <1>2
<1>5. ToSet(q) = ToSet(Tail(q)) \cup {Head(q)}
  <2>1. ASSUME NEW x \in ToSet(q) PROVE x \in ToSet(Tail(q)) \cup {Head(q)}
      BY <1>1, <1>3, <2>1 DEF ToSet
  <2>2. ASSUME NEW x \in ToSet(Tail(q)) PROVE x \in ToSet(q)
      BY <1>4, <2>2 DEF ToSet
  <2>3. Head(q) \in ToSet(q)
    <3>1. 1 \in DOMAIN q
        BY <1>1
    <3> QED BY <1>1, <3>1 DEF ToSet
  <2> QED BY <2>1, <2>2, <2>3
<1>6. ASSUME NEW P, Once(q, P)
      PROVE  Once(Tail(q), P) /\ (Head(q) \in P => Head(q) \notin ToSet(Tail(q)))
  <2>1. ASSUME NEW i \in DOMAIN Tail(q), NEW j \in DOMAIN Tail(q),
               Tail(q)[i] \in P, Tail(q)[i] = Tail(q)[j]
        PROVE  i = j
    <3>1. i + 1 = j + 1
        BY <1>4, <1>6, <2>1 DEF Once
    <3> QED BY <1>1, <2>1, <3>1
  <2>2. ASSUME Head(q) \in P, NEW i \in DOMAIN Tail(q), Tail(q)[i] = Head(q) PROVE FALSE
    <3>1. 1 \in DOMAIN q
        BY <1>1
    <3>2. i + 1 = 1
        BY <1>1, <1>4, <1>6, <2>2, <3>1 DEF Once
    <3> QED BY <1>1, <2>2, <3>2
  <2> QED BY <2>1, <2>2 DEF Once, ToSet
<1> QED BY <1>1, <1>5, <1>6 DEF Takes

LEMMA QueuePut ==
  ASSUME NEW S, NEW q \in Seq(S), NEW x \in S
  PROVE  Append(q, x) \in Seq(S) /\ Puts(q, Append(q, x), x)
<1>1. /\ Len(q) \in Nat /\ DOMAIN q = 1..Len(q) /\ DOMAIN Append(q, x) = 1..(Len(q) + 1)
      /\ Append(q, x)[Len(q) + 1] = x
      /\ \A i \in 1..Len(q) : Append(q, x)[i] = q[i]
    OBVIOUS
<1>2. \A i \in DOMAIN Append(q, x) : i \in DOMAIN q \/ i = Len(q) + 1
    BY <1>1
<1>3. Len(q) + 1 \in DOMAIN Append(q, x) /\ \A i \in DOMAIN q : i \in DOMAIN Append(q, x)
    BY <1>1
<1>4. ToSet(Append(q, x)) = ToSet(q) \cup {x}
  <2>1. ASSUME NEW y \in ToSet(Append(q, x)) PROVE y \in ToSet(q) \cup {x}
      BY <1>1, <1>2, <2>1 DEF ToSet
  <2>2. ASSUME NEW y \in ToSet(q) PROVE y \in ToSet(Append(q, x))
      BY <1>1, <1>3, <2>2 DEF ToSet
  <2>3. x \in ToSet(Append(q, x))
      BY <1>1, <1>3 DEF ToSet
  <2> QED BY <2>1, <2>2, <2>3
<1>5. ASSUME NEW P, Once(q, P), x \in P => x \notin ToSet(q) PROVE Once(Append(q, x), P)
  <2>1. ASSUME NEW i \in DOMAIN Append(q, x), NEW j \in DOMAIN Append(q, x),
               Append(q, x)[i] \in P, Append(q, x)[i] = Append(q, x)[j]
        PROVE  i = j
      BY <1>1, <1>2, <1>5, <2>1 DEF Once, ToSet
  <2> QED BY <2>1 DEF Once
<1> QED BY <1>4, <1>5 DEF Puts

LEMMA QueueJoined ==
  ASSUME NEW S, NEW q \in Seq(S), NEW z \in Seq(S)
  PROVE  /\ q \o z \in Seq(S)
         /\ ToSet(q \o z) = ToSet(q) \cup ToSet(z)
         /\ \A P : Once(q, P) /\ (\A x \in ToSet(z) : x \notin P) => Once(q \o z, P)
<1>1. /\ Len(q) \in Nat /\ Len(z) \in Nat /\ Len(q \o z) = Len(q) + Len(z)
      /\ DOMAIN q = 1..Len(q) /\ DOMAIN z = 1..Len(z) /\ DOMAIN (q \o z) = 1..(Len(q) + Len(z))
      /\ q \o z \in Seq(S)
    OBVIOUS
<1>2. \A i \in DOMAIN (q \o z) :
         \/ i \in DOMAIN q /\ (q \o z)[i] = q[i]
         \/ i - Len(q) \in DOMAIN z /\ (q \o z)[i] = z[i - Len(q)]
    BY <1>1
<1>3. \A i \in DOMAIN q : i \in DOMAIN (q \o z) /\ (q \o z)[i] = q[i]
    BY <1>1
<1>4. \A i \in DOMAIN z : i + Len(q) \in DOMAIN (q \o z) /\ (q \o z)[i + Len(q)] = z[i]
    BY <1>1
<1>5. ToSet(q \o z) = ToSet(q) \cup ToSet(z)
  <2>1. ASSUME NEW y \in ToSet(q \o z) PROVE y \in ToSet(q) \cup ToSet(z)
      BY <1>2, <2>1 DEF ToSet
  <2>2. ASSUME NEW y \in ToSet(q) PROVE y \in ToSet(q \o z)
      BY <1>3, <2>2 DEF ToSet
  <2>3. ASSUME NEW y \in ToSet(z) PROVE y \in ToSet(q \o z)
      BY <1>4, <2>3 DEF ToSet
  <2> QED BY <2>1, <2>2, <2>3
<1>6. ASSUME NEW P, Once(q, P), \A x \in ToSet(z) : x \notin P PROVE Once(q \o z, P)
  <2>1. ASSUME NEW i \in DOMAIN (q \o z), NEW j \in DOMAIN (q \o z),
               (q \o z)[i] \in P, (q \o z)[i] = (q \o z)[j]
        PROVE  i = j
    <3>1. \A k \in DOMAIN z : z[k] \notin P
        BY <1>6 DEF ToSet
    <3>2. /\ i \in DOMAIN q /\ (q \o z)[i] = q[i]
          /\ j \in DOMAIN q /\ (q \o z)[j] = q[j]
        BY <1>2, <2>1, <3>1
    <3> QED BY <1>6, <2>1, <3>2 DEF Once
  <2> QED BY <2>1 DEF Once
<1> QED BY <1>1, <1>5, <1>6

LEMMA QueueEmpty ==
  ASSUME NEW S
  PROVE  <<>> \in Seq(S) /\ ToSet(<<>>) = {} /\ \A P : Once(<<>>, P)
<1>1. <<>> \in Seq(S) /\ Len(<<>>) = 0 /\ DOMAIN <<>> = {}
    OBVIOUS
<1> QED BY <1>1 DEF ToSet, Once

LEMMA QueuePosted ==
  ASSUME NEW S, NEW q \in Seq(S), NEW x \in S
  PROVE  q \o <<x>> \in Seq(S) /\ Puts(q, q \o <<x>>, x) /\ q \o <<>> = q
<1>1. q \o <<x>> = Append(q, x) /\ q \o <<>> = q
    OBVIOUS
<1> QED BY <1>1, QueuePut

LEMMA SequenceOfSet ==
  ASSUME NEW S, IsFiniteSet(S)
  PROVE  SetToSeq(S) \in Seq(S)
<1>1. Cardinality(S) \in Nat /\ ExistsBijection(1..Cardinality(S), S)
    BY FS_CardinalityType, FS_CountingElements
<1>2. PICK g \in Bijection(1..Cardinality(S), S) : TRUE
    BY <1>1 DEF ExistsBijection
<1>3. g \in [1..Cardinality(S) -> S] /\ IsInjective(g)
    BY <1>2 DEF Bijection, Injection, IsInjective
<1>4. SetToSeq(S) \in [1..Cardinality(S) -> S]
    BY <1>3 DEF SetToSeq
<1> QED BY <1>1, <1>4

(* The calls, the streams and the completions are told apart. *)
LEMMA StreamTyped ==
  /\ NoStream \notin Streams
  /\ \A s \in Streams : s[1] \in Fetches /\ s # NoStream
  /\ \A f \in Fetches, n \in {1, 2} : <<f, n>> \in Streams /\ <<f, n>>[1] = f
BY DEF Streams, NoStream

LEMMA CallTyped ==
  /\ <<>> \notin StreamCalls /\ <<>> \notin DialCalls
  /\ \A f \in Fetches, op \in {"Dial", "CancelDial"} :
        /\ <<op, f>> \in DialCalls /\ <<op, f>> \notin StreamCalls /\ <<op, f>> # <<>>
        /\ <<op, f>> \in {"Dial"} \X Fetches <=> op = "Dial"
  /\ \A s \in Streams, op \in {"CancelStream", "DialRead"} :
        /\ <<op, s>> \in StreamCalls /\ <<op, s>> \notin DialCalls /\ <<op, s>> # <<>>
        /\ <<op, s>> \notin {"Dial"} \X Fetches
  /\ \A f \in Fetches, op \in {"Fetch", "AbortFetch"} :
        /\ <<op, f>> \in PageRequests
        /\ <<op, f>> \in {"Fetch"} \X Fetches <=> op = "Fetch"
BY DEF StreamCalls, DialCalls, PageRequests

LEMMA CallCases ==
  /\ \A c \in DialCalls : \E f \in Fetches : c = <<"Dial", f>> \/ c = <<"CancelDial", f>>
  /\ \A c \in StreamCalls : \E s \in Streams : c = <<"CancelStream", s>> \/ c = <<"DialRead", s>>
  /\ \A c \in PageRequests : \E f \in Fetches : c = <<"Fetch", f>> \/ c = <<"AbortFetch", f>>
BY DEF StreamCalls, DialCalls, PageRequests

LEMMA AboutCalls ==
  /\ \A f : ~ About(<<>>, f)
  /\ \A g \in Fetches : \A f : ~ About(<<"Dial", g>>, f)
  /\ \A s \in Streams, op \in {"CancelStream", "DialRead"} : \A f : About(<<op, s>>, f) <=> f = s[1]
<1>1. \A s \in Streams, op \in {"CancelStream", "DialRead"} : <<op, s>>[2] = s
    OBVIOUS
<1> QED BY <1>1, CallTyped DEF About

LEMMA ReplyTyped ==
  /\ \A f \in Fetches, op \in {"Unit", "Chunk", "End", "Error"} :
        /\ Answer(f, op) \in StreamReplies /\ Answer(f, op).op = op /\ Answer(f, op).fetch = f
        /\ Answer(f, op) \notin DialReplies
  /\ \A f, g \in Fetches, op, p \in {"Unit", "Chunk", "End", "Error"} :
        Answer(f, op) = Answer(g, p) => f = g /\ op = p
  /\ \A r \in StreamReplies : /\ r.op \in {"Unit", "Chunk", "End", "Error"} /\ r.fetch \in Fetches
                              /\ r = Answer(r.fetch, r.op)
  /\ \A r \in DialReplies : /\ r.op = "Dial" /\ r.fetch \in Fetches /\ r.out \in OptionalStream
                            /\ r \notin StreamReplies
  /\ \A f \in Fetches, s \in OptionalStream :
        [op |-> "Dial", fetch |-> f, out |-> s] \in DialReplies
  /\ \A r, q \in DialReplies : r.fetch = q.fetch /\ r.out = q.out => r = q
BY DEF Answer, StreamReplies, DialReplies

LEMMA CompletionTyped ==
  /\ \A c \in Completions : c.fetch \in Fetches /\ c.out \in OptionalStream
  /\ \A f \in Fetches, s \in OptionalStream : [fetch |-> f, out |-> s] \in Completions
  /\ \A c, d \in Completions : c.fetch = d.fetch /\ c.out = d.out => c = d
BY DEF Completions, OptionalStream

-----------------------------------------------------------------------------
(* The steps by their effect on the queues, one for each case of an action. *)
dialNetVars == <<dials, worker, free, streamVars>>
dialPipeVars == <<calls, reading, dialReplies>>

Idles ==
    UNCHANGED <<threadBlocked, dialPage, filed, dialOutbox, channel, dialTasks, got, dialPipeVars, dialNetVars>>
Files(f) ==
    /\ Takes(dialOutbox, dialOutbox', <<"Fetch", f>>)
    /\ filed' = [filed EXCEPT ![f] = "queued"]
    /\ UNCHANGED <<threadBlocked, dialPage, channel, dialTasks, got, dialPipeVars, dialNetVars>>
Drops(f) ==
    /\ Takes(dialOutbox, dialOutbox', <<"AbortFetch", f>>)
    /\ filed' = [filed EXCEPT ![f] = "none"]
    /\ calls' = calls \/ Puts(calls, calls', <<"CancelDial", f>>)
    /\ UNCHANGED <<threadBlocked, dialPage, channel, dialTasks, got, reading, dialReplies, dialNetVars>>
Starts(f) ==
    /\ filed[f] = "queued"
    /\ filed' = [filed EXCEPT ![f] = "started"]
    /\ Puts(calls, calls', <<"Dial", f>>)
    /\ UNCHANGED <<threadBlocked, dialPage, dialOutbox, channel, dialTasks, got, reading, dialReplies, dialNetVars>>
Adopts(c) ==
    /\ Takes(channel, channel', c)
    /\ Puts(dialTasks, dialTasks', c)
    /\ UNCHANGED <<threadBlocked, dialPage, filed, dialOutbox, got, dialPipeVars, dialNetVars>>
CancelsStream(s) ==
    /\ threadBlocked = <<>>
    /\ \/ s = NoStream /\ UNCHANGED <<threadBlocked, calls>>
       \/ /\ s \in Streams
          /\ threadBlocked' = <<"CancelStream", s>>
          /\ Puts(calls, calls', <<"CancelStream", s>>)
Abandons(c) ==
    /\ Takes(channel, channel', c)
    /\ CancelsStream(c.out)
    /\ UNCHANGED <<dialPage, filed, dialOutbox, dialTasks, got, reading, dialReplies, dialNetVars>>
Delivers(c) ==
    /\ Takes(dialTasks, dialTasks', c)
    /\ filed' = [filed EXCEPT ![c.fetch] = "none"]
    /\ dialPage[c.fetch] = "asked"
    /\ dialPage' = [dialPage EXCEPT ![c.fetch] = IF c.out = NoStream THEN "settled" ELSE "open"]
    /\ UNCHANGED <<threadBlocked, dialOutbox, channel, got, dialPipeVars, dialNetVars>>
Refuses(c) ==
    /\ Takes(dialTasks, dialTasks', c)
    /\ filed' = [filed EXCEPT ![c.fetch] = "none"]
    /\ \/ dialPage' = dialPage
       \/ dialPage[c.fetch] = "asked" /\ dialPage' = [dialPage EXCEPT ![c.fetch] = "settled"]
    /\ CancelsStream(c.out)
    /\ UNCHANGED <<dialOutbox, channel, got, reading, dialReplies, dialNetVars>>
Asks(f, from, to, op) ==
    /\ dialPage[f] = from
    /\ dialPage' = [dialPage EXCEPT ![f] = to]
    /\ Puts(dialOutbox, dialOutbox', <<op, f>>)
    /\ UNCHANGED <<threadBlocked, filed, channel, dialTasks, got, dialPipeVars, dialNetVars>>
AsksSync(f) ==
    /\ dialPage[f] = "new"
    /\ dialPage' = [dialPage EXCEPT ![f] = "sync"]
    /\ threadBlocked = <<>> /\ threadBlocked' = <<"Dial", f>>
    /\ Puts(calls, calls', <<"Dial", f>>)
    /\ UNCHANGED <<filed, dialOutbox, channel, dialTasks, got, reading, dialReplies, dialNetVars>>
AsksChunk(f) ==
    /\ dialPage[f] = "open"
    /\ threadBlocked = <<>> /\ threadBlocked' = <<"DialRead", worker[f].out>>
    /\ Puts(calls, calls', <<"DialRead", worker[f].out>>)
    /\ UNCHANGED <<dialPage, filed, dialOutbox, channel, dialTasks, got, reading, dialReplies, dialNetVars>>
LetsGo(f) ==
    /\ dialPage[f] = "open"
    /\ dialPage' = [dialPage EXCEPT ![f] = "settled"]
    /\ threadBlocked = <<>> /\ threadBlocked' = <<"CancelStream", worker[f].out>>
    /\ Puts(calls, calls', <<"CancelStream", worker[f].out>>)
    /\ UNCHANGED <<filed, dialOutbox, channel, dialTasks, got, reading, dialReplies, dialNetVars>>
Replaced ==
    /\ ToSet(dialTasks') = {} /\ ToSet(channel') = {} /\ ToSet(dialOutbox') = {}
    /\ \A P : Once(dialTasks', P) /\ Once(channel', P) /\ Once(dialOutbox', P)
    /\ filed' = [f \in Fetches |-> "none"]
    /\ dialPage' = [f \in Fetches |-> IF dialPage[f] = "new" THEN "new" ELSE "gone"]
    /\ ToSet(calls) \subseteq ToSet(calls')
    /\ \A c \in ToSet(calls') : c \in ToSet(calls) \/ c \in {"CancelDial"} \X Fetches
    /\ Once(calls, {"Dial"} \X Fetches) => Once(calls', {"Dial"} \X Fetches)
    /\ Once(calls, StreamCalls) => Once(calls', StreamCalls)
    /\ threadBlocked = <<>>
    /\ UNCHANGED <<threadBlocked, got, reading, dialReplies, dialNetVars>>

ServesDial(f) ==
    /\ Takes(calls, calls', <<"Dial", f>>)
    /\ worker' = [worker EXCEPT ![f].at = "global"]
    /\ UNCHANGED <<threadBlocked, dialPage, filed, dialOutbox, channel, dialTasks, got, reading, dialReplies,
                   free, streamVars>>
ServesCancel(f) ==
    /\ Takes(calls, calls', <<"CancelDial", f>>)
    /\ worker' = [worker EXCEPT ![f].cancel = @ \/ f \in dials]
    /\ UNCHANGED <<threadBlocked, dialPage, filed, dialOutbox, channel, dialTasks, got, reading, dialReplies,
                   free, streamVars>>
Closes(s) ==
    /\ table' = table \ {s}
    /\ netBody' = [netBody EXCEPT ![s].at = IF s \in table /\ Holding(s) THEN "aborted" ELSE @]
    /\ buffer' = [buffer EXCEPT ![s] = IF s \in table THEN <<>> ELSE @]
    /\ UNCHANGED <<worker, cache>>
Replies(f, op) == Puts(dialReplies, dialReplies', Answer(f, op))
ServesStream(s) ==
    /\ Takes(calls, calls', <<"CancelStream", s>>)
    /\ Closes(s)
    /\ Replies(s[1], "Unit")
    /\ UNCHANGED <<threadBlocked, dialPage, filed, dialOutbox, channel, dialTasks, got, reading>>
ServesRead(s) ==
    /\ Takes(calls, calls', <<"DialRead", s>>)
    /\ s \in table
    /\ reading' = s
    /\ UNCHANGED <<threadBlocked, dialPage, filed, dialOutbox, channel, dialTasks, got, dialReplies, dialNetVars>>
ServesGone(s) ==
    /\ Takes(calls, calls', <<"DialRead", s>>)
    /\ s \notin table
    /\ Replies(s[1], "End")
    /\ UNCHANGED <<threadBlocked, dialPage, filed, dialOutbox, channel, dialTasks, got, reading, dialNetVars>>
ReadsChunk(s) ==
    /\ reading = s /\ reading' = NoStream
    /\ buffer[s] # <<>> /\ Head(buffer[s]) = "Chunk"
    /\ buffer' = [buffer EXCEPT ![s] = Tail(@)]
    /\ Replies(s[1], "Chunk")
    /\ UNCHANGED <<threadBlocked, dialPage, filed, dialOutbox, channel, dialTasks, got, calls,
                   worker, table, netBody, cache>>
ReadsEnd(s, op) ==
    /\ reading = s /\ reading' = NoStream
    /\ \/ buffer[s] # <<>> /\ Head(buffer[s]) = op
       \/ buffer[s] = <<>> /\ ~ Holding(s) /\ op = "End"
    /\ Closes(s)
    /\ Replies(s[1], op)
    /\ UNCHANGED <<threadBlocked, dialPage, filed, dialOutbox, channel, dialTasks, got, calls>>

Completed(r) ==
    /\ Takes(dialReplies, dialReplies', r)
    /\ dialPage[r.fetch] # "sync"
    /\ \/ dialPage[r.fetch] = "gone" /\ channel' = channel
       \/ Puts(channel, channel', [fetch |-> r.fetch, out |-> r.out])
    /\ UNCHANGED <<threadBlocked, dialPage, filed, dialOutbox, dialTasks, got, calls, reading, dialNetVars>>
CompletedSync(r) ==
    /\ Takes(dialReplies, dialReplies', r)
    /\ dialPage[r.fetch] = "sync"
    /\ dialPage' = [dialPage EXCEPT ![r.fetch] = "settled"]
    /\ threadBlocked' = <<>>
    /\ UNCHANGED <<filed, dialOutbox, channel, dialTasks, got, calls, reading, dialNetVars>>
GetsChunk(f) ==
    /\ Takes(dialReplies, dialReplies', Answer(f, "Chunk"))
    /\ got' = [got EXCEPT ![f].chunks = @ + 1]
    /\ threadBlocked' = <<>>
    /\ UNCHANGED <<dialPage, filed, dialOutbox, channel, dialTasks, calls, reading, dialNetVars>>
GetsEnd(f, op) ==
    /\ Takes(dialReplies, dialReplies', Answer(f, op))
    /\ got' = [got EXCEPT ![f].end = op]
    /\ dialPage' = [dialPage EXCEPT ![f] = "settled"]
    /\ threadBlocked' = <<>>
    /\ UNCHANGED <<filed, dialOutbox, channel, dialTasks, calls, reading, dialNetVars>>
GetsUnit(f) ==
    /\ Takes(dialReplies, dialReplies', Answer(f, "Unit"))
    /\ threadBlocked' = <<>>
    /\ UNCHANGED <<dialPage, filed, dialOutbox, channel, dialTasks, got, calls, reading, dialNetVars>>

WorkerMoves(f) ==
    /\ worker[f].at \in {"global", "tab", "send"}
    /\ worker' \in [Fetches -> WorkerRecord]
    /\ \A g \in Fetches \ {f} : worker'[g] = worker[g]
    /\ worker'[f].at \notin {"none", "replied"} /\ worker'[f].out = worker[f].out
    /\ UNCHANGED <<dialRendererVars, calls, reading, dialReplies, streamVars>>
Answers(f) ==
    /\ worker[f].at = "out"
    /\ worker' = [worker EXCEPT ![f].at = "replied"]
    /\ Puts(dialReplies, dialReplies', [op |-> "Dial", fetch |-> f, out |-> worker[f].out])
    /\ UNCHANGED <<dialRendererVars, calls, reading, free, streamVars>>

(* Every action is one of these steps, and keeps the types of the queues. *)
LEMMA QueuesTyped ==
  ASSUME DialInv
  PROVE  /\ DialShape /\ PageShape /\ QueueShape /\ CallShape /\ NetShape
         /\ \A f \in Fetches : worker[f] \in WorkerRecord /\ worker[f].out \in OptionalStream
         /\ \A f \in Fetches : dialPage[f] = "open" => worker[f].out \in Streams
<1>1. DialShape /\ PageShape /\ QueueShape /\ CallShape /\ NetShape
    BY DEF DialInv, DialShape
<1>2. \A f \in Fetches : worker[f] \in WorkerRecord /\ worker[f].out \in OptionalStream
    BY <1>1 DEF NetShape, WorkerRecord
<1>3. \A f \in Fetches : dialPage[f] = "open" => worker[f].out \in Streams
    BY <1>2 DEF DialInv, OpenInv, OpenOK, Held, OptionalStream
<1> QED BY <1>1, <1>2, <1>3

LEMMA ItemsTyped ==
  ASSUME DialInv
  PROVE  /\ \A c \in ToSet(channel) \cup ToSet(dialTasks) :
               c \in Completions /\ c.fetch \in Fetches /\ c.out \in OptionalStream
         /\ \A c \in ToSet(calls) : c \in DialCalls \cup StreamCalls
         /\ \A r \in ToSet(dialReplies) : r \in DialReplies \cup StreamReplies /\ r.fetch \in Fetches
         /\ \A r \in ToSet(dialReplies) : r.op = "Dial" => r \in DialReplies
         /\ \A r \in ToSet(dialReplies) : r.op # "Dial" => r \in StreamReplies /\ r = Answer(r.fetch, r.op)
<1>1. \A S : \A q \in Seq(S) : ToSet(q) \subseteq S
  <2> SUFFICES ASSUME NEW S, NEW q \in Seq(S) PROVE ToSet(q) \subseteq S
      OBVIOUS
  <2>1. \A i \in DOMAIN q : q[i] \in S
      OBVIOUS
  <2> QED BY <2>1 DEF ToSet
<1>2. /\ ToSet(channel) \subseteq Completions /\ ToSet(dialTasks) \subseteq Completions
      /\ ToSet(calls) \subseteq DialCalls \cup StreamCalls
      /\ ToSet(dialReplies) \subseteq DialReplies \cup StreamReplies
    BY <1>1, QueuesTyped DEF QueueShape
<1> QED BY <1>2, CompletionTyped, ReplyTyped

LEMMA ApplyRequestsEffect ==
  ASSUME DialInv, ApplyRequests
  PROVE  QueueShape' /\ (Idles \/ \E f \in Fetches : Files(f) \/ Drops(f))
<1> USE DEF dialNetVars, dialPipeVars, streamVars
<1>1. CASE dialOutbox = <<>>
    BY <1>1, QueuesTyped DEF ApplyRequests, QueueShape, Idles
<1>2. CASE dialOutbox # <<>>
  <2>1. /\ Head(dialOutbox) \in PageRequests /\ Tail(dialOutbox) \in Seq(PageRequests)
        /\ Takes(dialOutbox, Tail(dialOutbox), Head(dialOutbox))
      BY <1>2, QueuesTyped, QueueTaken DEF QueueShape
  <2>2. PICK f \in Fetches : Head(dialOutbox) = <<"Fetch", f>> \/ Head(dialOutbox) = <<"AbortFetch", f>>
      BY <2>1, CallCases
  <2>3. CASE Head(dialOutbox) = <<"Fetch", f>>
    <3>1. /\ filed' = [filed EXCEPT ![f] = "queued"] /\ calls' = calls
          /\ dialOutbox' = Tail(dialOutbox)
        BY <1>2, <2>3 DEF ApplyRequests
    <3>2. Files(f)
        BY <2>1, <2>3, <3>1 DEF ApplyRequests, Files
    <3> QED BY <2>1, <3>1, <3>2, QueuesTyped DEF ApplyRequests, QueueShape
  <2>4. CASE Head(dialOutbox) = <<"AbortFetch", f>>
    <3>1. /\ CancelFetch(f)
          /\ dialOutbox' = Tail(dialOutbox)
        BY <1>2, <2>4 DEF ApplyRequests
    <3>2. <<"CancelDial", f>> \in DialCalls \cup StreamCalls
        BY CallTyped
    <3>3. /\ calls' \in Seq(DialCalls \cup StreamCalls)
          /\ calls' = calls \/ Puts(calls, calls', <<"CancelDial", f>>)
      <4>1. calls \in Seq(DialCalls \cup StreamCalls)
          BY QueuesTyped DEF QueueShape
      <4>2. /\ calls \o <<<<"CancelDial", f>>>> \in Seq(DialCalls \cup StreamCalls)
            /\ Puts(calls, calls \o <<<<"CancelDial", f>>>>, <<"CancelDial", f>>)
            /\ calls \o <<>> = calls
          BY <3>2, <4>1, QueuePosted
      <4> QED BY <3>1, <4>1, <4>2 DEF CancelFetch, Post
    <3>4. Drops(f)
        BY <2>1, <2>4, <3>1, <3>3 DEF ApplyRequests, Drops, CancelFetch
    <3> QED BY <2>1, <3>1, <3>3, <3>4, QueuesTyped DEF ApplyRequests, QueueShape
  <2> QED BY <2>2, <2>3, <2>4
<1> QED BY <1>1, <1>2

(* A call is posted. *)
LEMMA CallPosted ==
  ASSUME DialInv, NEW c \in DialCalls \cup StreamCalls, Post(<<c>>)
  PROVE  calls' \in Seq(DialCalls \cup StreamCalls) /\ Puts(calls, calls', c)
BY QueuesTyped, QueuePosted DEF QueueShape, Post

LEMMA LaunchEffect ==
  ASSUME DialInv, Launch
  PROVE  QueueShape' /\ (Idles \/ \E f \in Fetches : Starts(f))
<1> USE DEF dialNetVars, dialPipeVars, streamVars
<1>1. ASSUME NEW f \in Fetches, filed[f] = "queued", filed' = [filed EXCEPT ![f] = "started"],
             Post(<<<<"Dial", f>>>>)
      PROVE  QueueShape' /\ Starts(f)
  <2>1. calls' \in Seq(DialCalls \cup StreamCalls) /\ Puts(calls, calls', <<"Dial", f>>)
      BY <1>1, CallPosted, CallTyped
  <2> QED BY <1>1, <2>1, QueuesTyped DEF Launch, QueueShape, Starts
<1>2. CASE UNCHANGED <<filed, calls>>
    BY <1>2, QueuesTyped DEF Launch, QueueShape, Idles
<1> QED BY <1>1, <1>2 DEF Launch

LEMMA AbandonEffect ==
  ASSUME DialInv, NEW s \in OptionalStream, threadBlocked = <<>>, Abandon(s)
  PROVE  CancelsStream(s) /\ calls' \in Seq(DialCalls \cup StreamCalls)
<1>1. CASE s = NoStream
    BY <1>1, QueuesTyped DEF Abandon, CancelsStream, QueueShape
<1>2. CASE s # NoStream
  <2>1. s \in Streams /\ DialCall(<<"CancelStream", s>>)
      BY <1>2 DEF Abandon, OptionalStream
  <2>2. /\ calls' \in Seq(DialCalls \cup StreamCalls)
        /\ Puts(calls, calls', <<"CancelStream", s>>)
      BY <2>1, CallPosted, CallTyped DEF DialCall
  <2> QED BY <2>1, <2>2 DEF CancelsStream, DialCall
<1> QED BY <1>1, <1>2

LEMMA AdoptEffect ==
  ASSUME DialInv, Adopt
  PROVE  QueueShape' /\ (Idles \/ \E c \in Completions : Adopts(c) \/ Abandons(c))
<1> USE DEF dialNetVars, dialPipeVars, streamVars
<1>1. CASE channel = <<>>
    BY <1>1, QueuesTyped DEF Adopt, QueueShape, Idles
<1>2. CASE channel # <<>>
  <2> DEFINE c == Head(channel)
  <2>1. /\ c \in Completions /\ Tail(channel) \in Seq(Completions)
        /\ Takes(channel, Tail(channel), c)
      BY <1>2, QueuesTyped, QueueTaken DEF QueueShape
  <2>2. channel' = Tail(channel)
      BY <1>2 DEF Adopt
  <2>3. CASE dialTasks' = Append(dialTasks, c) /\ UNCHANGED <<threadBlocked, calls>>
    <3>1. dialTasks' \in Seq(Completions) /\ Puts(dialTasks, dialTasks', c)
        BY <2>1, <2>3, QueuesTyped, QueuePut DEF QueueShape
    <3>2. Adopts(c)
        BY <2>1, <2>2, <2>3, <3>1 DEF Adopt, Adopts
    <3> QED BY <2>1, <2>2, <2>3, <3>1, <3>2, QueuesTyped DEF Adopt, QueueShape
  <2>4. CASE dialTasks' = dialTasks /\ Abandon(c.out)
    <3>1. CancelsStream(c.out) /\ calls' \in Seq(DialCalls \cup StreamCalls)
        BY <2>1, <2>4, AbandonEffect, CompletionTyped DEF Adopt
    <3>2. Abandons(c)
        BY <2>1, <2>2, <2>4, <3>1 DEF Adopt, Abandons
    <3> QED BY <2>1, <2>2, <2>4, <3>1, <3>2, QueuesTyped DEF Adopt, QueueShape
  <2> QED BY <1>2, <2>3, <2>4 DEF Adopt
<1> QED BY <1>1, <1>2

LEMMA RunTaskEffect ==
  ASSUME DialInv, RunTask
  PROVE  QueueShape' /\ \E c \in Completions : Delivers(c) \/ Refuses(c)
<1> USE DEF dialNetVars, dialPipeVars, streamVars
<1> DEFINE c == Head(dialTasks)
<1>1. /\ c \in Completions /\ Tail(dialTasks) \in Seq(Completions)
      /\ Takes(dialTasks, Tail(dialTasks), c)
    BY QueuesTyped, QueueTaken DEF QueueShape, RunTask
<1>2. dialTasks' = Tail(dialTasks) /\ filed' = [filed EXCEPT ![c.fetch] = "none"]
    BY DEF RunTask
<1>3. CASE /\ Delivered(c.fetch)
           /\ dialPage' = [dialPage EXCEPT ![c.fetch] = IF c.out = NoStream THEN "settled" ELSE "open"]
           /\ UNCHANGED <<threadBlocked, calls>>
  <2>1. Delivers(c)
      BY <1>1, <1>2, <1>3 DEF RunTask, Delivers, Delivered
  <2> QED BY <1>1, <1>2, <1>3, <2>1, QueuesTyped DEF RunTask, QueueShape
<1>4. CASE /\ dialPage' = [dialPage EXCEPT ![c.fetch] = IF Delivered(c.fetch) THEN "settled" ELSE @]
           /\ Abandon(c.out)
  <2>1. CancelsStream(c.out) /\ calls' \in Seq(DialCalls \cup StreamCalls)
      BY <1>1, <1>4, AbandonEffect, CompletionTyped DEF RunTask, Runs
  <2>2. \/ dialPage' = dialPage
        \/ dialPage[c.fetch] = "asked" /\ dialPage' = [dialPage EXCEPT ![c.fetch] = "settled"]
      BY <1>1, <1>4, QueuesTyped, CompletionTyped DEF PageShape, Delivered
  <2>3. Refuses(c)
      BY <1>1, <1>2, <2>1, <2>2 DEF RunTask, Refuses
  <2> QED BY <1>1, <1>2, <2>1, <2>3, QueuesTyped DEF RunTask, QueueShape
<1> QED BY <1>3, <1>4 DEF RunTask

LEMMA ScriptEffect ==
  ASSUME DialInv, NEW f \in Fetches
  PROVE  /\ Fetch(f) => QueueShape' /\ Asks(f, "new", "asked", "Fetch")
         /\ Abort(f) => QueueShape' /\ Asks(f, "asked", "aborted", "AbortFetch")
         /\ FetchSync(f) => QueueShape' /\ AsksSync(f)
         /\ Read(f) => QueueShape' /\ AsksChunk(f)
         /\ Cancel(f) => QueueShape' /\ LetsGo(f)
<1> USE DEF dialNetVars, dialPipeVars, streamVars
<1>1. ASSUME Fetch(f) PROVE QueueShape' /\ Asks(f, "new", "asked", "Fetch")
  <2>1. dialOutbox' \in Seq(PageRequests) /\ Puts(dialOutbox, dialOutbox', <<"Fetch", f>>)
      BY <1>1, QueuesTyped, QueuePut, CallTyped DEF QueueShape, Fetch
  <2> QED BY <1>1, <2>1, QueuesTyped DEF Fetch, ScriptRan, QueueShape, Asks
<1>2. ASSUME Abort(f) PROVE QueueShape' /\ Asks(f, "asked", "aborted", "AbortFetch")
  <2>1. dialOutbox' \in Seq(PageRequests) /\ Puts(dialOutbox, dialOutbox', <<"AbortFetch", f>>)
      BY <1>2, QueuesTyped, QueuePut, CallTyped DEF QueueShape, Abort
  <2> QED BY <1>2, <2>1, QueuesTyped DEF Abort, ScriptRan, QueueShape, Asks
<1>3. ASSUME FetchSync(f) PROVE QueueShape' /\ AsksSync(f)
  <2>1. calls' \in Seq(DialCalls \cup StreamCalls) /\ Puts(calls, calls', <<"Dial", f>>)
      BY <1>3, CallPosted, CallTyped DEF FetchSync, DialCall
  <2> QED BY <1>3, <2>1, QueuesTyped DEF FetchSync, DialCall, Runs, ScriptRan, QueueShape, AsksSync
<1>4. ASSUME Read(f) PROVE QueueShape' /\ AsksChunk(f)
  <2>1. worker[f].out \in Streams /\ Post(<<<<"DialRead", worker[f].out>>>>)
      BY <1>4, QueuesTyped DEF Read, DialCall, Held
  <2>2. /\ calls' \in Seq(DialCalls \cup StreamCalls)
        /\ Puts(calls, calls', <<"DialRead", worker[f].out>>)
      BY <2>1, CallPosted, CallTyped
  <2> QED BY <1>4, <2>2, QueuesTyped DEF Read, DialCall, Held, Runs, ScriptRan, QueueShape, AsksChunk
<1>5. ASSUME Cancel(f) PROVE QueueShape' /\ LetsGo(f)
  <2>1. worker[f].out \in Streams /\ Post(<<<<"CancelStream", worker[f].out>>>>)
      BY <1>5, QueuesTyped DEF Cancel, DialCall, Held
  <2>2. /\ calls' \in Seq(DialCalls \cup StreamCalls)
        /\ Puts(calls, calls', <<"CancelStream", worker[f].out>>)
      BY <2>1, CallPosted, CallTyped
  <2> QED BY <1>5, <2>2, QueuesTyped DEF Cancel, DialCall, Held, Runs, ScriptRan, QueueShape, LetsGo
<1> QED BY <1>1, <1>2, <1>3, <1>4, <1>5

LEMMA ResetEffect ==
  ASSUME DialInv, Reset
  PROVE  QueueShape' /\ Replaced
<1> USE DEF dialNetVars, dialPipeVars, streamVars
<1> DEFINE Started == {g \in Fetches : filed[g] = "started"}
           Cancels == {<<"CancelDial", f>> : f \in Started}
           z == SetToSeq(Cancels)
<1>1. calls' = calls \o z
    BY DEF Reset, Post
<1>2. IsFiniteSet(Cancels)
  <2>1. IsFiniteSet({"CancelDial"} \X Fetches)
      BY DialAssumption, FS_Product, FS_Singleton DEF DialAssumption
  <2>2. Cancels \subseteq {"CancelDial"} \X Fetches
      OBVIOUS
  <2> QED BY <2>1, <2>2, FS_Subset
<1>3. z \in Seq(Cancels) /\ Cancels \subseteq {"CancelDial"} \X Fetches
    BY <1>2, SequenceOfSet
<1>4. z \in Seq(DialCalls \cup StreamCalls) /\ ToSet(z) \subseteq {"CancelDial"} \X Fetches
  <2>1. Cancels \subseteq DialCalls \cup StreamCalls
      BY <1>3 DEF DialCalls
  <2> HIDE DEF z, Cancels
  <2>2. Len(z) \in Nat /\ DOMAIN z = 1..Len(z) /\ \A i \in DOMAIN z : z[i] \in Cancels
      BY <1>3
  <2> QED BY <1>3, <2>1, <2>2 DEF ToSet
<1>5. \A x \in {"CancelDial"} \X Fetches : x \notin {"Dial"} \X Fetches /\ x \notin StreamCalls
    BY DEF StreamCalls
<1>6. /\ calls' \in Seq(DialCalls \cup StreamCalls)
      /\ ToSet(calls') = ToSet(calls) \cup ToSet(z)
      /\ \A P : Once(calls, P) /\ (\A x \in ToSet(z) : x \notin P) => Once(calls', P)
  <2> HIDE DEF z
  <2>1. calls \in Seq(DialCalls \cup StreamCalls)
      BY QueuesTyped DEF QueueShape
  <2> QED BY <1>1, <1>4, <2>1, QueueJoined
<1>7. /\ Once(calls, {"Dial"} \X Fetches) => Once(calls', {"Dial"} \X Fetches)
      /\ Once(calls, StreamCalls) => Once(calls', StreamCalls)
  <2> HIDE DEF z
  <2> QED BY <1>4, <1>5, <1>6
<1>8. /\ dialTasks' = <<>> /\ channel' = <<>> /\ dialOutbox' = <<>>
      /\ <<>> \in Seq(Completions) /\ <<>> \in Seq(PageRequests)
      /\ ToSet(<<>>) = {} /\ \A P : Once(<<>>, P)
    BY QueueEmpty DEF Reset
<1>9. QueueShape'
    BY <1>6, <1>8, QueuesTyped DEF Reset, QueueShape
<1>10. ToSet(dialTasks') = {} /\ ToSet(channel') = {} /\ ToSet(dialOutbox') = {}
    BY <1>8
<1>11. \A P : Once(dialTasks', P) /\ Once(channel', P) /\ Once(dialOutbox', P)
    BY <1>8
<1>12. /\ ToSet(calls) \subseteq ToSet(calls')
       /\ \A c \in ToSet(calls') : c \in ToSet(calls) \/ c \in {"CancelDial"} \X Fetches
  <2> HIDE DEF z
  <2> QED BY <1>4, <1>6
<1> QED BY <1>7, <1>9, <1>10, <1>11, <1>12 DEF Reset, Runs, Replaced

LEMMA ReplyPut ==
  ASSUME DialInv, NEW f \in Fetches, NEW op \in {"Unit", "Chunk", "End", "Error"},
         DialReply(op, f, NoStream)
  PROVE  dialReplies' \in Seq(DialReplies \cup StreamReplies) /\ Replies(f, op)
<1>1. dialReplies' = Append(dialReplies, Answer(f, op)) /\ Answer(f, op) \in DialReplies \cup StreamReplies
    BY ReplyTyped DEF DialReply, Answer
<1> QED BY <1>1, QueuesTyped, QueuePut DEF QueueShape, Replies

LEMMA ServeEffect ==
  ASSUME DialInv, Serve
  PROVE  /\ QueueShape'
         /\ \/ \E f \in Fetches : ServesDial(f) \/ ServesCancel(f)
            \/ \E s \in Streams : ServesStream(s) \/ ServesRead(s) \/ ServesGone(s)
<1> USE DEF dialNetVars, dialPipeVars, dialRendererVars, streamVars
<1> DEFINE c == Head(calls)
<1>1. /\ c \in DialCalls \cup StreamCalls /\ Tail(calls) \in Seq(DialCalls \cup StreamCalls)
      /\ Takes(calls, Tail(calls), c) /\ calls' = Tail(calls)
    BY QueuesTyped, QueueTaken DEF QueueShape, Serve
<1>2. \A x, y : c = <<x, y>> => c[1] = x /\ c[2] = y
    OBVIOUS
<1>3. ASSUME NEW f \in Fetches, c = <<"Dial", f>> PROVE QueueShape' /\ ServesDial(f)
  <2>1. /\ worker' = [worker EXCEPT ![f].at = "global"]
        /\ UNCHANGED <<reading, dialReplies, free, table, netBody, buffer>>
      BY <1>2, <1>3 DEF Serve
  <2> QED BY <1>1, <1>3, <2>1, QueuesTyped DEF Serve, QueueShape, ServesDial
<1>4. ASSUME NEW f \in Fetches, c = <<"CancelDial", f>> PROVE QueueShape' /\ ServesCancel(f)
  <2>1. /\ worker' = [worker EXCEPT ![f].cancel = @ \/ f \in dials]
        /\ UNCHANGED <<reading, dialReplies, free, table, netBody, buffer>>
      BY <1>2, <1>4 DEF Serve
  <2> QED BY <1>1, <1>4, <2>1, QueuesTyped DEF Serve, QueueShape, ServesCancel
<1>5. ASSUME NEW s \in Streams, c = <<"CancelStream", s>> PROVE QueueShape' /\ ServesStream(s)
  <2>1. RemoveStream(s) /\ DialReply("Unit", s[1], NoStream) /\ UNCHANGED <<worker, reading>>
      BY <1>2, <1>5 DEF Serve
  <2>2. dialReplies' \in Seq(DialReplies \cup StreamReplies) /\ Replies(s[1], "Unit")
      BY <2>1, ReplyPut, StreamTyped
  <2>3. Closes(s)
      BY <2>1 DEF Serve, RemoveStream, Closes
  <2> QED BY <1>1, <1>5, <2>1, <2>2, <2>3, QueuesTyped DEF Serve, QueueShape, ServesStream
<1>6. ASSUME NEW s \in Streams, c = <<"DialRead", s>>
      PROVE  QueueShape' /\ (ServesRead(s) \/ ServesGone(s))
  <2>1. /\ IF s \in table THEN reading' = s /\ dialReplies' = dialReplies
           ELSE DialReply("End", s[1], NoStream) /\ reading' = reading
        /\ UNCHANGED <<dials, worker, free, table, netBody, buffer>>
      BY <1>2, <1>6 DEF Serve
  <2>2. CASE s \in table
      BY <1>1, <1>6, <2>1, <2>2, QueuesTyped DEF Serve, QueueShape, ServesRead
  <2>3. CASE s \notin table
    <3>1. dialReplies' \in Seq(DialReplies \cup StreamReplies) /\ Replies(s[1], "End")
        BY <2>1, <2>3, ReplyPut, StreamTyped
    <3> QED BY <1>1, <1>6, <2>1, <2>3, <3>1, QueuesTyped DEF Serve, QueueShape, ServesGone
  <2> QED BY <2>2, <2>3
<1> QED BY <1>1, <1>3, <1>4, <1>5, <1>6, CallCases

LEMMA ReadStreamEffect ==
  ASSUME DialInv, ReadStream
  PROVE  /\ QueueShape'
         /\ \E s \in Streams : ReadsChunk(s) \/ \E op \in {"End", "Error"} : ReadsEnd(s, op)
<1> USE DEF dialNetVars, dialPipeVars, dialRendererVars, streamVars
<1> DEFINE s == reading
<1>1. s \in Streams /\ s[1] \in Fetches /\ buffer[s] \in Seq(Messages)
    BY QueuesTyped, StreamTyped DEF ReadStream, CallShape, NetShape, OptionalStream
<1>2. CASE buffer[s] # <<>> /\ Head(buffer[s]) = "Chunk"
  <2>1. DialReply("Chunk", s[1], NoStream)
      BY <1>2 DEF ReadStream
  <2>2. dialReplies' \in Seq(DialReplies \cup StreamReplies) /\ Replies(s[1], "Chunk")
      BY <1>1, <2>1, ReplyPut
  <2>3. ReadsChunk(s)
      BY <1>2, <2>2 DEF ReadStream, ReadsChunk
  <2> QED BY <1>1, <2>2, <2>3, QueuesTyped DEF ReadStream, QueueShape
<1>3. CASE buffer[s] # <<>> /\ Head(buffer[s]) # "Chunk"
  <2> DEFINE op == Head(buffer[s])
  <2>1. op \in {"End", "Error"}
      BY <1>1, <1>3 DEF Messages
  <2>2. DialReply(op, s[1], NoStream) /\ RemoveStream(s)
      BY <1>3 DEF ReadStream
  <2>3. dialReplies' \in Seq(DialReplies \cup StreamReplies) /\ Replies(s[1], op)
      BY <1>1, <2>1, <2>2, ReplyPut
  <2>4. ReadsEnd(s, op)
      BY <1>3, <2>2, <2>3 DEF ReadStream, ReadsEnd, RemoveStream, Closes
  <2> QED BY <1>1, <2>1, <2>3, <2>4, QueuesTyped DEF ReadStream, QueueShape
<1>4. CASE buffer[s] = <<>>
  <2>1. DialReply("End", s[1], NoStream) /\ RemoveStream(s) /\ ~ Holding(s)
      BY <1>4 DEF ReadStream
  <2>2. dialReplies' \in Seq(DialReplies \cup StreamReplies) /\ Replies(s[1], "End")
      BY <1>1, <2>1, ReplyPut
  <2>3. ReadsEnd(s, "End")
      BY <1>4, <2>1, <2>2 DEF ReadStream, ReadsEnd, RemoveStream, Closes
  <2> QED BY <1>1, <2>2, <2>3, QueuesTyped DEF ReadStream, QueueShape
<1> QED BY <1>2, <1>3, <1>4

LEMMA BytesReceivedEffect ==
  ASSUME DialInv, BytesReceived
  PROVE  /\ QueueShape'
         /\ \/ \E r \in DialReplies : Completed(r) \/ CompletedSync(r)
            \/ \E f \in Fetches : \/ GetsChunk(f) \/ GetsUnit(f)
                                  \/ \E op \in {"End", "Error"} : GetsEnd(f, op)
<1> USE DEF dialNetVars, dialPipeVars, streamVars
<1> DEFINE r == Head(dialReplies)
<1>1. /\ r \in DialReplies \cup StreamReplies
      /\ Tail(dialReplies) \in Seq(DialReplies \cup StreamReplies)
      /\ Takes(dialReplies, Tail(dialReplies), r) /\ dialReplies' = Tail(dialReplies)
    BY QueuesTyped, QueueTaken DEF QueueShape, BytesReceived
<1>2. CASE r \in DialReplies /\ dialPage[r.fetch] # "sync"
  <2>1. r.op = "Dial" /\ r.fetch \in Fetches /\ [fetch |-> r.fetch, out |-> r.out] \in Completions
      BY <1>2, ReplyTyped, CompletionTyped
  <2>2. /\ channel' = IF dialPage[r.fetch] = "gone" THEN channel
                      ELSE Append(channel, [fetch |-> r.fetch, out |-> r.out])
        /\ UNCHANGED <<threadBlocked, dialPage, got>>
      BY <1>2, <2>1 DEF BytesReceived
  <2>3. /\ channel' \in Seq(Completions)
        /\ \/ dialPage[r.fetch] = "gone" /\ channel' = channel
           \/ Puts(channel, channel', [fetch |-> r.fetch, out |-> r.out])
      BY <2>1, <2>2, QueuesTyped, QueuePut DEF QueueShape
  <2>4. Completed(r)
      BY <1>1, <1>2, <2>2, <2>3 DEF BytesReceived, Completed
  <2> QED BY <1>1, <1>2, <2>3, <2>4, QueuesTyped DEF BytesReceived, QueueShape
<1>3. CASE r \in DialReplies /\ dialPage[r.fetch] = "sync"
  <2>1. r.op = "Dial"
      BY <1>3, ReplyTyped
  <2>2. /\ channel' = channel /\ threadBlocked' = <<>> /\ got' = got
        /\ dialPage' = [dialPage EXCEPT ![r.fetch] = "settled"]
      BY <1>3, <2>1 DEF BytesReceived
  <2>3. CompletedSync(r)
      BY <1>1, <1>3, <2>2 DEF BytesReceived, CompletedSync
  <2> QED BY <1>1, <1>3, <2>2, <2>3, QueuesTyped DEF BytesReceived, QueueShape
<1>4. CASE r \in StreamReplies
  <2>1. /\ r.op \in {"Unit", "Chunk", "End", "Error"} /\ r.fetch \in Fetches
        /\ r = Answer(r.fetch, r.op) /\ r.op # "Dial"
      BY <1>4, ReplyTyped
  <2>2. channel' = channel /\ threadBlocked' = <<>>
      BY <2>1 DEF BytesReceived
  <2>3. QueueShape'
      BY <1>1, <2>2, QueuesTyped DEF BytesReceived, QueueShape
  <2>4. CASE r.op = "Chunk"
    <3>1. got' = [got EXCEPT ![r.fetch].chunks = @ + 1] /\ dialPage' = dialPage
        BY <2>4 DEF BytesReceived
    <3>2. GetsChunk(r.fetch)
        BY <1>1, <2>1, <2>2, <2>4, <3>1 DEF BytesReceived, GetsChunk
    <3> QED BY <2>1, <2>3, <3>2
  <2>5. CASE r.op \in {"End", "Error"}
    <3>1. /\ got' = [got EXCEPT ![r.fetch].end = r.op]
          /\ dialPage' = [dialPage EXCEPT ![r.fetch] = "settled"]
        BY <2>5 DEF BytesReceived
    <3>2. GetsEnd(r.fetch, r.op)
        BY <1>1, <2>1, <2>2, <2>5, <3>1 DEF BytesReceived, GetsEnd
    <3> QED BY <2>1, <2>3, <2>5, <3>2
  <2>6. CASE r.op = "Unit"
    <3>1. UNCHANGED <<dialPage, got>>
        BY <2>6 DEF BytesReceived
    <3>2. GetsUnit(r.fetch)
        BY <1>1, <2>1, <2>2, <2>6, <3>1 DEF BytesReceived, GetsUnit
    <3> QED BY <2>1, <2>3, <3>2
  <2> QED BY <2>1, <2>4, <2>5, <2>6
<1> QED BY <1>1, <1>2, <1>3, <1>4

LEMMA WorkerEffect ==
  ASSUME DialInv, NEW f \in Fetches
  PROVE  /\ Acquire(f) \/ DialAnswered(f) \/ Misdirected(f) \/ Cancelled(f)
               => QueueShape' /\ WorkerMoves(f)
         /\ EndDial(f) => QueueShape' /\ Answers(f)
<1>1. ASSUME NEW to \in {"tab", "send", "out"}, Work(f, {"global", "tab", "send"}, to),
             Undisturbed, UNCHANGED <<dialReplies, streamVars>>
      PROVE  WorkerMoves(f)
  <2>1. worker' = [worker EXCEPT ![f].at = to] /\ worker[f].at \in {"global", "tab", "send"}
      BY <1>1 DEF Work
  <2>2. worker' \in [Fetches -> WorkerRecord]
      BY <2>1, QueuesTyped DEF NetShape, WorkerRecord
  <2>3. /\ \A g \in Fetches \ {f} : worker'[g] = worker[g]
        /\ worker'[f].at = to /\ worker'[f].out = worker[f].out
      BY <2>1, QueuesTyped DEF NetShape, WorkerRecord
  <2> QED BY <1>1, <2>1, <2>2, <2>3 DEF WorkerMoves, Undisturbed
<1>2. ASSUME Acquire(f) \/ DialAnswered(f) \/ Cancelled(f) PROVE QueueShape' /\ WorkerMoves(f)
  <2>1. Undisturbed /\ UNCHANGED <<dialReplies, streamVars>>
      BY <1>2 DEF Acquire, CacheHit, AcquireGlobal, AcquireTab, Deadline, DialAnswered, Cancelled
  <2>2. \E to \in {"tab", "send", "out"} : Work(f, {"global", "tab", "send"}, to)
      BY <1>2 DEF Acquire, CacheHit, AcquireGlobal, AcquireTab, Deadline, DialAnswered, Cancelled, Work
  <2> QED BY <1>1, <2>1, <2>2, QueuesTyped DEF Undisturbed, dialRendererVars, QueueShape
<1>3. ASSUME Misdirected(f) PROVE QueueShape' /\ WorkerMoves(f)
  <2>1. worker' = [worker EXCEPT ![f].at = "global", ![f].attempt = 2] /\ worker[f].at = "send"
      BY <1>3 DEF Misdirected
  <2>2. worker' \in [Fetches -> WorkerRecord]
    <3>1. worker[f] \in WorkerRecord
        BY QueuesTyped
    <3>2. [[worker[f] EXCEPT !.at = "global"] EXCEPT !.attempt = 2] \in WorkerRecord
        BY <3>1 DEF WorkerRecord
    <3>3. worker' = [worker EXCEPT ![f] = [[worker[f] EXCEPT !.at = "global"] EXCEPT !.attempt = 2]]
        BY <2>1, QueuesTyped DEF NetShape
    <3> QED BY <3>2, <3>3, QueuesTyped DEF NetShape
  <2>3. /\ \A g \in Fetches \ {f} : worker'[g] = worker[g]
        /\ worker'[f].at = "global" /\ worker'[f].out = worker[f].out
      BY <2>1, QueuesTyped DEF NetShape, WorkerRecord
  <2>4. Undisturbed /\ UNCHANGED <<dialReplies, streamVars>>
      BY <1>3 DEF Misdirected, Discarded, streamVars
  <2> QED BY <2>1, <2>2, <2>3, <2>4, QueuesTyped
          DEF WorkerMoves, Undisturbed, dialRendererVars, QueueShape
<1>4. ASSUME EndDial(f) PROVE QueueShape' /\ Answers(f)
  <2> DEFINE r == [op |-> "Dial", fetch |-> f, out |-> worker[f].out]
  <2>1. r \in DialReplies \cup StreamReplies /\ dialReplies' = Append(dialReplies, r)
      BY <1>4, QueuesTyped, ReplyTyped DEF EndDial, DialReply
  <2>2. dialReplies' \in Seq(DialReplies \cup StreamReplies) /\ Puts(dialReplies, dialReplies', r)
      BY <2>1, QueuesTyped, QueuePut DEF QueueShape
  <2> QED BY <1>4, <2>2, QueuesTyped
          DEF EndDial, Work, Answers, Undisturbed, dialRendererVars, QueueShape
<1> QED BY <1>2, <1>3, <1>4

(* The steps of DialsNext, by their effect. *)
DialStep ==
    \/ Idles \/ Replaced
    \/ \E f \in Fetches :
          \/ Files(f)
          \/ Drops(f)
          \/ Starts(f)
          \/ Asks(f, "new", "asked", "Fetch")
          \/ Asks(f, "asked", "aborted", "AbortFetch")
          \/ AsksSync(f)
          \/ AsksChunk(f)
          \/ LetsGo(f)
          \/ ServesDial(f)
          \/ ServesCancel(f)
          \/ GetsChunk(f)
          \/ GetsUnit(f)
          \/ WorkerMoves(f)
          \/ Streamed(f)
          \/ Answers(f)
          \/ \E op \in {"End", "Error"} : GetsEnd(f, op)
    \/ \E c \in Completions : Adopts(c) \/ Abandons(c) \/ Delivers(c) \/ Refuses(c)
    \/ \E r \in DialReplies : Completed(r) \/ CompletedSync(r)
    \/ \E s \in Streams :
          \/ ServesStream(s)
          \/ ServesRead(s)
          \/ ServesGone(s)
          \/ ReadsChunk(s)
          \/ BodyChunk(s)
          \/ BodyDone(s)
          \/ BodyEnds(s)
          \/ BodyFails(s)
          \/ \E op \in {"End", "Error"} : ReadsEnd(s, op)

LEMMA EveryStep ==
  ASSUME DialInv, [DialsNext]_dialVars
  PROVE  QueueShape' /\ DialStep
<1>1. ASSUME Idles PROVE QueueShape'
    BY <1>1, QueuesTyped DEF Idles, QueueShape, dialPipeVars
<1>2. CASE UNCHANGED dialVars \/ Wake
    BY <1>1, <1>2 DEF dialVars, dialRendererVars, Wake, Idles, dialPipeVars, dialNetVars, DialStep
<1>3. CASE ApplyRequests
    BY <1>3, ApplyRequestsEffect DEF DialStep
<1>4. CASE Launch
    BY <1>4, LaunchEffect DEF DialStep
<1>5. CASE Adopt
    BY <1>5, AdoptEffect DEF DialStep
<1>6. CASE RunTask
    BY <1>6, RunTaskEffect DEF DialStep
<1>7. CASE Reset
    BY <1>7, ResetEffect DEF DialStep
<1>8. ASSUME NEW f \in Fetches, Fetch(f) \/ FetchSync(f) \/ Abort(f) \/ Read(f) \/ Cancel(f)
      PROVE  QueueShape' /\ DialStep
    BY <1>8, ScriptEffect DEF DialStep
<1>9. CASE Serve
    BY <1>9, ServeEffect DEF DialStep
<1>10. CASE ReadStream
    BY <1>10, ReadStreamEffect DEF DialStep
<1>11. CASE BytesReceived
    BY <1>11, BytesReceivedEffect DEF DialStep
<1>12. ASSUME NEW f \in Fetches, Worker(f) \/ Cancelled(f) PROVE QueueShape' /\ DialStep
  <2>1. CASE Streamed(f)
      BY <2>1, QueuesTyped DEF DialStep, Streamed, Undisturbed, dialRendererVars, QueueShape
  <2>2. CASE ~ Streamed(f)
      BY <1>12, <2>2, WorkerEffect DEF Worker, Respond, DialStep
  <2> QED BY <2>1, <2>2
<1>13. ASSUME NEW s \in Streams, Body(s) PROVE QueueShape' /\ DialStep
  <2>1. Undisturbed /\ UNCHANGED dialReplies
      BY <1>13 DEF Body, BodyChunk, BodyDone, BodyEnds, BodyFails, BodyOver
  <2>2. QueueShape'
      BY <2>1, QueuesTyped DEF Undisturbed, dialRendererVars, QueueShape
  <2> QED BY <1>13, <2>2 DEF Body, DialStep
<1> QED
    BY <1>2, <1>3, <1>4, <1>5, <1>6, <1>7, <1>8, <1>9, <1>10, <1>11, <1>12, <1>13
       DEF DialsNext, System, Drain, Service, PageScript

(* Every step keeps the one dial of a fetch, ... *)
LEMMA LaunchStep ==
  ASSUME DialInv, DialStep
  PROVE  LaunchInv'
<1>1. CASE Idles
    BY <1>1, QueuesTyped, CallTyped
       DEF Takes, Puts, DialInv, LaunchInv, PageShape, NetShape, WorkerRecord, Idles,
           dialNetVars, dialPipeVars, streamVars
<1>2. ASSUME NEW f \in Fetches, Files(f) PROVE LaunchInv'
    BY <1>2, QueuesTyped, CallTyped
       DEF Takes, Puts, DialInv, LaunchInv, PageShape, NetShape, WorkerRecord, Files,
           dialNetVars, dialPipeVars, streamVars
<1>3. ASSUME NEW f \in Fetches, Drops(f) PROVE LaunchInv'
    BY <1>3, QueuesTyped, CallTyped
       DEF Takes, Puts, DialInv, LaunchInv, PageShape, NetShape, WorkerRecord, Drops,
           dialNetVars, dialPipeVars, streamVars
<1>4. ASSUME NEW f \in Fetches, Starts(f) PROVE LaunchInv'
    BY <1>4, QueuesTyped, CallTyped
       DEF Takes, Puts, DialInv, LaunchInv, PageShape, NetShape, WorkerRecord, Starts,
           dialNetVars, dialPipeVars, streamVars
<1>5. ASSUME NEW c \in Completions, Adopts(c) PROVE LaunchInv'
    BY <1>5, QueuesTyped, CallTyped
       DEF Takes, Puts, DialInv, LaunchInv, PageShape, NetShape, WorkerRecord, Adopts,
           dialNetVars, dialPipeVars, streamVars
<1>6. ASSUME NEW c \in Completions, Abandons(c) PROVE LaunchInv'
    BY <1>6, QueuesTyped, CallTyped
       DEF Takes, Puts, DialInv, LaunchInv, PageShape, NetShape, WorkerRecord, Abandons,
           CancelsStream, dialNetVars, dialPipeVars, streamVars
<1>7. ASSUME NEW c \in Completions, Delivers(c) PROVE LaunchInv'
    BY <1>7, QueuesTyped, CallTyped
       DEF Takes, Puts, DialInv, LaunchInv, PageShape, NetShape, WorkerRecord, Delivers,
           dialNetVars, dialPipeVars, streamVars
<1>8. ASSUME NEW c \in Completions, Refuses(c) PROVE LaunchInv'
    BY <1>8, QueuesTyped, CallTyped
       DEF Takes, Puts, DialInv, LaunchInv, PageShape, NetShape, WorkerRecord, Refuses,
           CancelsStream, dialNetVars, dialPipeVars, streamVars
<1>9. ASSUME NEW f \in Fetches, Asks(f, "new", "asked", "Fetch") PROVE LaunchInv'
    BY <1>9, QueuesTyped, CallTyped
       DEF Takes, Puts, DialInv, LaunchInv, PageShape, NetShape, WorkerRecord, Asks,
           dialNetVars, dialPipeVars, streamVars
<1>10. ASSUME NEW f \in Fetches, Asks(f, "asked", "aborted", "AbortFetch") PROVE LaunchInv'
    BY <1>10, QueuesTyped, CallTyped
       DEF Takes, Puts, DialInv, LaunchInv, PageShape, NetShape, WorkerRecord, Asks,
           dialNetVars, dialPipeVars, streamVars
<1>11. ASSUME NEW f \in Fetches, AsksSync(f) PROVE LaunchInv'
    BY <1>11, QueuesTyped, CallTyped
       DEF Takes, Puts, DialInv, LaunchInv, PageShape, NetShape, WorkerRecord, AsksSync,
           dialNetVars, dialPipeVars, streamVars
<1>12. ASSUME NEW f \in Fetches, AsksChunk(f) PROVE LaunchInv'
    BY <1>12, QueuesTyped, CallTyped
       DEF Takes, Puts, DialInv, LaunchInv, PageShape, NetShape, WorkerRecord,
           AsksChunk, dialNetVars, dialPipeVars, streamVars
<1>13. ASSUME NEW f \in Fetches, LetsGo(f) PROVE LaunchInv'
    BY <1>13, QueuesTyped, CallTyped
       DEF Takes, Puts, DialInv, LaunchInv, PageShape, NetShape, WorkerRecord, LetsGo,
           dialNetVars, dialPipeVars, streamVars
<1>14. CASE Replaced
    BY <1>14, QueuesTyped, CallTyped
       DEF Takes, Puts, DialInv, LaunchInv, PageShape, NetShape, WorkerRecord, Replaced,
           dialNetVars, dialPipeVars, streamVars
<1>15. ASSUME NEW f \in Fetches, ServesDial(f) PROVE LaunchInv'
    BY <1>15, QueuesTyped, CallTyped
       DEF Takes, Puts, DialInv, LaunchInv, PageShape, NetShape, WorkerRecord,
           ServesDial, streamVars
<1>16. ASSUME NEW f \in Fetches, ServesCancel(f) PROVE LaunchInv'
    BY <1>16, QueuesTyped, CallTyped
       DEF Takes, Puts, DialInv, LaunchInv, PageShape, NetShape, WorkerRecord,
           ServesCancel, streamVars
<1>17. ASSUME NEW s \in Streams, ServesStream(s) PROVE LaunchInv'
    BY <1>17, QueuesTyped, CallTyped
       DEF Takes, Puts, DialInv, LaunchInv, PageShape, NetShape, WorkerRecord,
           ServesStream, Closes, Holding, Replies
<1>18. ASSUME NEW s \in Streams, ServesRead(s) PROVE LaunchInv'
    BY <1>18, QueuesTyped, CallTyped
       DEF Takes, Puts, DialInv, LaunchInv, PageShape, NetShape, WorkerRecord,
           ServesRead, dialNetVars, dialPipeVars, streamVars
<1>19. ASSUME NEW s \in Streams, ServesGone(s) PROVE LaunchInv'
    BY <1>19, QueuesTyped, CallTyped
       DEF Takes, Puts, DialInv, LaunchInv, PageShape, NetShape, WorkerRecord,
           ServesGone, Replies, dialNetVars, dialPipeVars, streamVars
<1>20. ASSUME NEW s \in Streams, ReadsChunk(s) PROVE LaunchInv'
    BY <1>20, QueuesTyped, CallTyped
       DEF Takes, Puts, DialInv, LaunchInv, PageShape, NetShape, WorkerRecord,
           ReadsChunk, Replies
<1>21. ASSUME NEW s \in Streams, NEW op \in {"End", "Error"}, ReadsEnd(s, op) PROVE LaunchInv'
    BY <1>21, QueuesTyped, CallTyped
       DEF Takes, Puts, DialInv, LaunchInv, PageShape, NetShape, WorkerRecord, ReadsEnd,
           Closes, Holding, Replies
<1>22. ASSUME NEW r \in DialReplies, Completed(r) PROVE LaunchInv'
    BY <1>22, QueuesTyped, CallTyped
       DEF Takes, Puts, DialInv, LaunchInv, PageShape, NetShape, WorkerRecord,
           Completed, dialNetVars, dialPipeVars, streamVars
<1>23. ASSUME NEW r \in DialReplies, CompletedSync(r) PROVE LaunchInv'
    BY <1>23, QueuesTyped, CallTyped
       DEF Takes, Puts, DialInv, LaunchInv, PageShape, NetShape, WorkerRecord,
           CompletedSync, dialNetVars, dialPipeVars, streamVars
<1>24. ASSUME NEW f \in Fetches, GetsChunk(f) PROVE LaunchInv'
    BY <1>24, QueuesTyped, CallTyped
       DEF Takes, Puts, DialInv, LaunchInv, PageShape, NetShape, WorkerRecord,
           GetsChunk, dialNetVars, dialPipeVars, streamVars
<1>25. ASSUME NEW f \in Fetches, GetsUnit(f) PROVE LaunchInv'
    BY <1>25, QueuesTyped, CallTyped
       DEF Takes, Puts, DialInv, LaunchInv, PageShape, NetShape, WorkerRecord, GetsUnit,
           dialNetVars, dialPipeVars, streamVars
<1>26. ASSUME NEW f \in Fetches, NEW op \in {"End", "Error"}, GetsEnd(f, op) PROVE LaunchInv'
    BY <1>26, QueuesTyped, CallTyped
       DEF Takes, Puts, DialInv, LaunchInv, PageShape, NetShape, WorkerRecord, GetsEnd,
           dialNetVars, dialPipeVars, streamVars
<1>27. ASSUME NEW f \in Fetches, WorkerMoves(f) PROVE LaunchInv'
    BY <1>27, QueuesTyped, CallTyped
       DEF Takes, Puts, DialInv, LaunchInv, PageShape, NetShape, WorkerRecord,
           WorkerMoves, dialRendererVars, streamVars
<1>28. ASSUME NEW f \in Fetches, Streamed(f) PROVE LaunchInv'
    BY <1>28, QueuesTyped, CallTyped
       DEF Takes, Puts, DialInv, LaunchInv, PageShape, NetShape, WorkerRecord, Streamed,
           Undisturbed, dialRendererVars
<1>29. ASSUME NEW f \in Fetches, Answers(f) PROVE LaunchInv'
    BY <1>29, QueuesTyped, CallTyped
       DEF Takes, Puts, DialInv, LaunchInv, PageShape, NetShape, WorkerRecord, Answers,
           dialRendererVars, streamVars
<1>30. ASSUME NEW s \in Streams, BodyChunk(s) PROVE LaunchInv'
    BY <1>30, QueuesTyped, CallTyped
       DEF Takes, Puts, DialInv, LaunchInv, PageShape, NetShape, WorkerRecord,
           BodyChunk, SendDial, Undisturbed, dialRendererVars
<1>31. ASSUME NEW s \in Streams, BodyDone(s) PROVE LaunchInv'
    BY <1>31, QueuesTyped, CallTyped
       DEF Takes, Puts, DialInv, LaunchInv, PageShape, NetShape, WorkerRecord, BodyDone,
           Undisturbed, dialRendererVars
<1>32. ASSUME NEW s \in Streams, BodyEnds(s) PROVE LaunchInv'
    BY <1>32, QueuesTyped, CallTyped
       DEF Takes, Puts, DialInv, LaunchInv, PageShape, NetShape, WorkerRecord, BodyEnds,
           BodyOver, SendDial, Undisturbed, dialRendererVars
<1>33. ASSUME NEW s \in Streams, BodyFails(s) PROVE LaunchInv'
    BY <1>33, QueuesTyped, CallTyped
       DEF Takes, Puts, DialInv, LaunchInv, PageShape, NetShape, WorkerRecord,
           BodyFails, BodyOver, SendDial, Undisturbed, dialRendererVars
<1> QED
    BY <1>1, <1>2, <1>3, <1>4, <1>5, <1>6, <1>7, <1>8, <1>9, <1>10, <1>11, <1>12, <1>13,
       <1>14, <1>15, <1>16, <1>17, <1>18, <1>19, <1>20, <1>21, <1>22, <1>23, <1>24,
       <1>25, <1>26, <1>27, <1>28, <1>29, <1>30, <1>31, <1>32, <1>33 DEF DialStep

(* ... the stream of a worker, ... *)
LEMMA WorkerStep ==
  ASSUME DialInv, DialStep
  PROVE  WorkerInv'
<1>1. CASE Idles
    BY <1>1, QueuesTyped, CallTyped, StreamTyped, CompletionTyped
       DEF DialInv, WorkerInv, PageShape, NetShape, WorkerRecord, Idles, dialNetVars,
           dialPipeVars, streamVars
<1>2. ASSUME NEW f \in Fetches, Files(f) PROVE WorkerInv'
    BY <1>2, QueuesTyped, CallTyped, StreamTyped, CompletionTyped
       DEF DialInv, WorkerInv, PageShape, NetShape, WorkerRecord, Files, dialNetVars,
           dialPipeVars, streamVars
<1>3. ASSUME NEW f \in Fetches, Drops(f) PROVE WorkerInv'
    BY <1>3, QueuesTyped, CallTyped, StreamTyped, CompletionTyped
       DEF DialInv, WorkerInv, PageShape, NetShape, WorkerRecord, Drops, dialNetVars,
           dialPipeVars, streamVars
<1>4. ASSUME NEW f \in Fetches, Starts(f) PROVE WorkerInv'
    BY <1>4, QueuesTyped, CallTyped, StreamTyped, CompletionTyped
       DEF DialInv, WorkerInv, PageShape, NetShape, WorkerRecord, Starts, dialNetVars,
           dialPipeVars, streamVars
<1>5. ASSUME NEW c \in Completions, Adopts(c) PROVE WorkerInv'
    BY <1>5, QueuesTyped, CallTyped, StreamTyped, CompletionTyped
       DEF DialInv, WorkerInv, PageShape, NetShape, WorkerRecord, Adopts, dialNetVars,
           dialPipeVars, streamVars
<1>6. ASSUME NEW c \in Completions, Abandons(c) PROVE WorkerInv'
    BY <1>6, QueuesTyped, CallTyped, StreamTyped, CompletionTyped
       DEF DialInv, WorkerInv, PageShape, NetShape, WorkerRecord, Abandons,
           CancelsStream, dialNetVars, dialPipeVars, streamVars
<1>7. ASSUME NEW c \in Completions, Delivers(c) PROVE WorkerInv'
    BY <1>7, QueuesTyped, CallTyped, StreamTyped, CompletionTyped
       DEF DialInv, WorkerInv, PageShape, NetShape, WorkerRecord, Delivers, dialNetVars,
           dialPipeVars, streamVars
<1>8. ASSUME NEW c \in Completions, Refuses(c) PROVE WorkerInv'
    BY <1>8, QueuesTyped, CallTyped, StreamTyped, CompletionTyped
       DEF DialInv, WorkerInv, PageShape, NetShape, WorkerRecord, Refuses,
           CancelsStream, dialNetVars, dialPipeVars, streamVars
<1>9. ASSUME NEW f \in Fetches, Asks(f, "new", "asked", "Fetch") PROVE WorkerInv'
    BY <1>9, QueuesTyped, CallTyped, StreamTyped, CompletionTyped
       DEF DialInv, WorkerInv, PageShape, NetShape, WorkerRecord, Asks, dialNetVars,
           dialPipeVars, streamVars
<1>10. ASSUME NEW f \in Fetches, Asks(f, "asked", "aborted", "AbortFetch") PROVE WorkerInv'
    BY <1>10, QueuesTyped, CallTyped, StreamTyped, CompletionTyped
       DEF DialInv, WorkerInv, PageShape, NetShape, WorkerRecord, Asks, dialNetVars,
           dialPipeVars, streamVars
<1>11. ASSUME NEW f \in Fetches, AsksSync(f) PROVE WorkerInv'
    BY <1>11, QueuesTyped, CallTyped, StreamTyped, CompletionTyped
       DEF DialInv, WorkerInv, PageShape, NetShape, WorkerRecord, AsksSync, dialNetVars,
           dialPipeVars, streamVars
<1>12. ASSUME NEW f \in Fetches, AsksChunk(f) PROVE WorkerInv'
    BY <1>12, QueuesTyped, CallTyped, StreamTyped, CompletionTyped
       DEF DialInv, WorkerInv, PageShape, NetShape, WorkerRecord, AsksChunk,
           dialNetVars, dialPipeVars, streamVars
<1>13. ASSUME NEW f \in Fetches, LetsGo(f) PROVE WorkerInv'
    BY <1>13, QueuesTyped, CallTyped, StreamTyped, CompletionTyped
       DEF DialInv, WorkerInv, PageShape, NetShape, WorkerRecord, LetsGo, dialNetVars,
           dialPipeVars, streamVars
<1>14. CASE Replaced
    BY <1>14, QueuesTyped, CallTyped, StreamTyped, CompletionTyped
       DEF DialInv, WorkerInv, PageShape, NetShape, WorkerRecord, Replaced, dialNetVars,
           dialPipeVars, streamVars
<1>15. ASSUME NEW f \in Fetches, ServesDial(f) PROVE WorkerInv'
    BY <1>15, QueuesTyped DEF Takes, DialInv, LaunchInv, WorkerInv, NetShape, WorkerRecord, ServesDial
<1>16. ASSUME NEW f \in Fetches, ServesCancel(f) PROVE WorkerInv'
    BY <1>16, QueuesTyped, CallTyped, StreamTyped, CompletionTyped
       DEF DialInv, WorkerInv, PageShape, NetShape, WorkerRecord, ServesCancel,
           streamVars
<1>17. ASSUME NEW s \in Streams, ServesStream(s) PROVE WorkerInv'
    BY <1>17, QueuesTyped, CallTyped, StreamTyped, CompletionTyped
       DEF DialInv, WorkerInv, PageShape, NetShape, WorkerRecord, ServesStream, Closes,
           Holding, Replies
<1>18. ASSUME NEW s \in Streams, ServesRead(s) PROVE WorkerInv'
    BY <1>18, QueuesTyped, CallTyped, StreamTyped, CompletionTyped
       DEF DialInv, WorkerInv, PageShape, NetShape, WorkerRecord, ServesRead,
           dialNetVars, dialPipeVars, streamVars
<1>19. ASSUME NEW s \in Streams, ServesGone(s) PROVE WorkerInv'
    BY <1>19, QueuesTyped, CallTyped, StreamTyped, CompletionTyped
       DEF DialInv, WorkerInv, PageShape, NetShape, WorkerRecord, ServesGone, Replies,
           dialNetVars, dialPipeVars, streamVars
<1>20. ASSUME NEW s \in Streams, ReadsChunk(s) PROVE WorkerInv'
    BY <1>20, QueuesTyped, CallTyped, StreamTyped, CompletionTyped
       DEF DialInv, WorkerInv, PageShape, NetShape, WorkerRecord, ReadsChunk, Replies
<1>21. ASSUME NEW s \in Streams, NEW op \in {"End", "Error"}, ReadsEnd(s, op) PROVE WorkerInv'
    BY <1>21, QueuesTyped, CallTyped, StreamTyped, CompletionTyped
       DEF DialInv, WorkerInv, PageShape, NetShape, WorkerRecord, ReadsEnd, Closes,
           Holding, Replies
<1>22. ASSUME NEW r \in DialReplies, Completed(r) PROVE WorkerInv'
    BY <1>22, QueuesTyped, CallTyped, StreamTyped, CompletionTyped
       DEF DialInv, WorkerInv, PageShape, NetShape, WorkerRecord, Completed,
           dialNetVars, dialPipeVars, streamVars
<1>23. ASSUME NEW r \in DialReplies, CompletedSync(r) PROVE WorkerInv'
    BY <1>23, QueuesTyped, CallTyped, StreamTyped, CompletionTyped
       DEF DialInv, WorkerInv, PageShape, NetShape, WorkerRecord, CompletedSync,
           dialNetVars, dialPipeVars, streamVars
<1>24. ASSUME NEW f \in Fetches, GetsChunk(f) PROVE WorkerInv'
    BY <1>24, QueuesTyped, CallTyped, StreamTyped, CompletionTyped
       DEF DialInv, WorkerInv, PageShape, NetShape, WorkerRecord, GetsChunk,
           dialNetVars, dialPipeVars, streamVars
<1>25. ASSUME NEW f \in Fetches, GetsUnit(f) PROVE WorkerInv'
    BY <1>25, QueuesTyped, CallTyped, StreamTyped, CompletionTyped
       DEF DialInv, WorkerInv, PageShape, NetShape, WorkerRecord, GetsUnit, dialNetVars,
           dialPipeVars, streamVars
<1>26. ASSUME NEW f \in Fetches, NEW op \in {"End", "Error"}, GetsEnd(f, op) PROVE WorkerInv'
    BY <1>26, QueuesTyped, CallTyped, StreamTyped, CompletionTyped
       DEF DialInv, WorkerInv, PageShape, NetShape, WorkerRecord, GetsEnd, dialNetVars,
           dialPipeVars, streamVars
<1>27. ASSUME NEW f \in Fetches, WorkerMoves(f) PROVE WorkerInv'
    BY <1>27, QueuesTyped, CallTyped, StreamTyped, CompletionTyped
       DEF DialInv, WorkerInv, PageShape, NetShape, WorkerRecord, WorkerMoves,
           dialRendererVars, streamVars
<1>28. ASSUME NEW f \in Fetches, Streamed(f) PROVE WorkerInv'
  <2>1. worker[f].attempt \in {1, 2} /\ dialPage[f] \notin {"new", "sync"}
      BY <1>28, QueuesTyped DEF DialInv, LaunchInv, WorkerRecord, Streamed
  <2> QED BY <1>28, <2>1, QueuesTyped, StreamTyped
          DEF DialInv, WorkerInv, NetShape, WorkerRecord, Streamed, Undisturbed, dialRendererVars
<1>29. ASSUME NEW f \in Fetches, Answers(f) PROVE WorkerInv'
    BY <1>29, QueuesTyped, CallTyped, StreamTyped, CompletionTyped
       DEF DialInv, WorkerInv, PageShape, NetShape, WorkerRecord, Answers,
           dialRendererVars, streamVars
<1>30. ASSUME NEW s \in Streams, BodyChunk(s) PROVE WorkerInv'
    BY <1>30, QueuesTyped, CallTyped, StreamTyped, CompletionTyped
       DEF DialInv, WorkerInv, PageShape, NetShape, WorkerRecord, BodyChunk, SendDial,
           Undisturbed, dialRendererVars
<1>31. ASSUME NEW s \in Streams, BodyDone(s) PROVE WorkerInv'
    BY <1>31, QueuesTyped, CallTyped, StreamTyped, CompletionTyped
       DEF DialInv, WorkerInv, PageShape, NetShape, WorkerRecord, BodyDone, Undisturbed,
           dialRendererVars
<1>32. ASSUME NEW s \in Streams, BodyEnds(s) PROVE WorkerInv'
    BY <1>32, QueuesTyped, CallTyped, StreamTyped, CompletionTyped
       DEF DialInv, WorkerInv, PageShape, NetShape, WorkerRecord, BodyEnds, BodyOver,
           SendDial, Undisturbed, dialRendererVars
<1>33. ASSUME NEW s \in Streams, BodyFails(s) PROVE WorkerInv'
    BY <1>33, QueuesTyped, CallTyped, StreamTyped, CompletionTyped
       DEF DialInv, WorkerInv, PageShape, NetShape, WorkerRecord, BodyFails, BodyOver,
           SendDial, Undisturbed, dialRendererVars
<1> QED
    BY <1>1, <1>2, <1>3, <1>4, <1>5, <1>6, <1>7, <1>8, <1>9, <1>10, <1>11, <1>12, <1>13,
       <1>14, <1>15, <1>16, <1>17, <1>18, <1>19, <1>20, <1>21, <1>22, <1>23, <1>24,
       <1>25, <1>26, <1>27, <1>28, <1>29, <1>30, <1>31, <1>32, <1>33 DEF DialStep

(* What happens in the channel of a stream. *)
LEMMA StreamSame ==
  ASSUME NEW s \in Streams, StreamOK(s), netBody'[s] = netBody[s], buffer'[s] = buffer[s],
         s \in table' <=> s \in table, worker'[s[1]].out = worker[s[1]].out
  PROVE  StreamOK(s)'
BY DEF StreamOK, ChunksFirst

LEMMA StreamFrame ==
  ASSUME DialInv, UNCHANGED <<table, netBody, buffer>>,
         \A f \in Fetches : worker'[f].out = worker[f].out
  PROVE  StreamInv'
BY StreamSame, StreamTyped DEF DialInv, StreamInv

LEMMA StreamClosed ==
  ASSUME DialInv, NEW s \in Streams, Closes(s)
  PROVE  StreamInv'
<1>1. /\ netBody'[s].read = netBody[s].read
      /\ netBody'[s].at = IF s \in table /\ netBody[s].at \in {"run", "closing"} THEN "aborted" ELSE netBody[s].at
      /\ buffer'[s] = IF s \in table THEN <<>> ELSE buffer[s]
      /\ s \notin table' /\ worker' = worker
      /\ \A t \in Streams \ {s} : /\ netBody'[t] = netBody[t] /\ buffer'[t] = buffer[t]
                                  /\ t \in table' <=> t \in table
    BY QueuesTyped DEF Closes, Holding, NetShape, BodyRecord
<1>2. Len(<<>>) = 0 /\ 1..0 = {} /\ Depth \in Nat
    BY DialAssumption DEF DialAssumption
<1>3. StreamOK(s)'
  <2>1. buffer'[s] = <<>> /\ netBody'[s].at \notin {"run", "closing"}
      BY <1>1 DEF DialInv, StreamInv, StreamOK
  <2>2. ChunksFirst(buffer'[s], netBody'[s].at = "over")
      BY <1>2, <2>1 DEF ChunksFirst
  <2>3. /\ netBody'[s].at # "none" => worker'[s[1]].out = s
        /\ netBody'[s].at = "none" => netBody'[s].read = 0
      BY <1>1 DEF DialInv, StreamInv, StreamOK
  <2> QED BY <1>1, <1>2, <2>1, <2>2, <2>3 DEF StreamOK
<1>4. ASSUME NEW t \in Streams \ {s} PROVE StreamOK(t)'
    BY <1>1, StreamSame DEF DialInv, StreamInv
<1> QED BY <1>3, <1>4 DEF StreamInv

(* ... what is in the channel of a stream, ... *)
LEMMA StreamStep ==
  ASSUME DialInv, DialStep
  PROVE  StreamInv'
<1>1. CASE Idles
    BY <1>1, StreamFrame DEF Idles, dialNetVars, streamVars
<1>2. ASSUME NEW f \in Fetches, Files(f) PROVE StreamInv'
    BY <1>2, StreamFrame DEF Files, dialNetVars, streamVars
<1>3. ASSUME NEW f \in Fetches, Drops(f) PROVE StreamInv'
    BY <1>3, StreamFrame DEF Drops, dialNetVars, streamVars
<1>4. ASSUME NEW f \in Fetches, Starts(f) PROVE StreamInv'
    BY <1>4, StreamFrame DEF Starts, dialNetVars, streamVars
<1>5. ASSUME NEW c \in Completions, Adopts(c) PROVE StreamInv'
    BY <1>5, StreamFrame DEF Adopts, dialNetVars, streamVars
<1>6. ASSUME NEW c \in Completions, Abandons(c) PROVE StreamInv'
    BY <1>6, StreamFrame DEF Abandons, dialNetVars, streamVars
<1>7. ASSUME NEW c \in Completions, Delivers(c) PROVE StreamInv'
    BY <1>7, StreamFrame DEF Delivers, dialNetVars, streamVars
<1>8. ASSUME NEW c \in Completions, Refuses(c) PROVE StreamInv'
    BY <1>8, StreamFrame DEF Refuses, dialNetVars, streamVars
<1>9. ASSUME NEW f \in Fetches, Asks(f, "new", "asked", "Fetch") PROVE StreamInv'
    BY <1>9, StreamFrame DEF Asks, dialNetVars, streamVars
<1>10. ASSUME NEW f \in Fetches, Asks(f, "asked", "aborted", "AbortFetch") PROVE StreamInv'
    BY <1>10, StreamFrame DEF Asks, dialNetVars, streamVars
<1>11. ASSUME NEW f \in Fetches, AsksSync(f) PROVE StreamInv'
    BY <1>11, StreamFrame DEF AsksSync, dialNetVars, streamVars
<1>12. ASSUME NEW f \in Fetches, AsksChunk(f) PROVE StreamInv'
    BY <1>12, StreamFrame DEF AsksChunk, dialNetVars, streamVars
<1>13. ASSUME NEW f \in Fetches, LetsGo(f) PROVE StreamInv'
    BY <1>13, StreamFrame DEF LetsGo, dialNetVars, streamVars
<1>14. CASE Replaced
    BY <1>14, StreamFrame DEF Replaced, dialNetVars, streamVars
<1>15. ASSUME NEW f \in Fetches, ServesDial(f) PROVE StreamInv'
  <2>1. \A g \in Fetches : worker'[g].out = worker[g].out
      BY <1>15, QueuesTyped DEF NetShape, WorkerRecord, ServesDial
  <2> QED BY <1>15, <2>1, StreamFrame DEF ServesDial, streamVars
<1>16. ASSUME NEW f \in Fetches, ServesCancel(f) PROVE StreamInv'
  <2>1. \A g \in Fetches : worker'[g].out = worker[g].out
      BY <1>16, QueuesTyped DEF NetShape, WorkerRecord, ServesCancel
  <2> QED BY <1>16, <2>1, StreamFrame DEF ServesCancel, streamVars
<1>17. ASSUME NEW s \in Streams, ServesStream(s) PROVE StreamInv'
    BY <1>17, StreamClosed DEF ServesStream
<1>18. ASSUME NEW s \in Streams, ServesRead(s) PROVE StreamInv'
    BY <1>18, StreamFrame DEF ServesRead, dialNetVars, streamVars
<1>19. ASSUME NEW s \in Streams, ServesGone(s) PROVE StreamInv'
    BY <1>19, StreamFrame DEF ServesGone, dialNetVars, streamVars
<1>20. ASSUME NEW s \in Streams, ReadsChunk(s) PROVE StreamInv'
  <2>1. /\ buffer'[s] = Tail(buffer[s]) /\ buffer[s] \in Seq(Messages) /\ Len(buffer[s]) \in Nat
        /\ Len(buffer[s]) >= 1 /\ Len(Tail(buffer[s])) = Len(buffer[s]) - 1
        /\ buffer[s][1] = "Chunk"
        /\ UNCHANGED <<worker, table, netBody>>
        /\ \A t \in Streams \ {s} : buffer'[t] = buffer[t]
      BY <1>20, QueuesTyped DEF ReadsChunk, NetShape
  <2>2. \A i \in 1..Len(buffer'[s]) : i + 1 \in 1..Len(buffer[s]) /\ buffer'[s][i] = buffer[s][i + 1]
      BY <2>1
  <2>3. StreamOK(s)
      BY DEF DialInv, StreamInv
  <2>4. s \in table
      BY <2>1, <2>3 DEF StreamOK
  <2>5. ChunksFirst(buffer'[s], netBody[s].at = "over")
    <3>1. ASSUME NEW i \in 1..Len(buffer'[s]), buffer'[s][i] # "Chunk"
          PROVE  i + 1 = Len(buffer[s]) /\ netBody[s].at = "over"
        BY <2>2, <2>3, <3>1 DEF StreamOK, ChunksFirst
    <3> QED BY <2>1, <3>1 DEF ChunksFirst
  <2>6. ASSUME netBody[s].at = "over"
        PROVE  Len(buffer'[s]) > 0 /\ buffer'[s][Len(buffer'[s])] = buffer[s][Len(buffer[s])]
    <3>1. ASSUME ~ (Len(buffer[s]) > 1) PROVE FALSE
      <4>0. \A n \in Nat : n >= 1 /\ ~ (n > 1) => n = 1
          OBVIOUS
      <4>1. Len(buffer[s]) = 1
          BY <2>1, <3>1, <4>0
      <4> QED BY <2>1, <2>3, <2>4, <2>6, <4>1 DEF StreamOK
    <3>2. Len(buffer'[s]) \in 1..Len(buffer'[s]) /\ Len(buffer'[s]) > 0
      <4>1. Len(buffer'[s]) = Len(buffer[s]) - 1
          BY <2>1
      <4>2. Len(buffer[s]) \in Nat
          BY <2>1
      <4> QED BY <3>1, <4>1, <4>2
    <3> QED BY <2>1, <2>2, <3>2
  <2>7. StreamOK(s)'
      BY <2>1, <2>3, <2>4, <2>5, <2>6, DialAssumption DEF StreamOK, DialAssumption
  <2>8. ASSUME NEW t \in Streams \ {s} PROVE StreamOK(t)'
      BY <2>1, StreamSame DEF DialInv, StreamInv
  <2> QED BY <2>7, <2>8 DEF StreamInv
<1>21. ASSUME NEW s \in Streams, NEW op \in {"End", "Error"}, ReadsEnd(s, op) PROVE StreamInv'
    BY <1>21, StreamClosed DEF ReadsEnd
<1>22. ASSUME NEW r \in DialReplies, Completed(r) PROVE StreamInv'
    BY <1>22, StreamFrame DEF Completed, dialNetVars, streamVars
<1>23. ASSUME NEW r \in DialReplies, CompletedSync(r) PROVE StreamInv'
    BY <1>23, StreamFrame DEF CompletedSync, dialNetVars, streamVars
<1>24. ASSUME NEW f \in Fetches, GetsChunk(f) PROVE StreamInv'
    BY <1>24, StreamFrame DEF GetsChunk, dialNetVars, streamVars
<1>25. ASSUME NEW f \in Fetches, GetsUnit(f) PROVE StreamInv'
    BY <1>25, StreamFrame DEF GetsUnit, dialNetVars, streamVars
<1>26. ASSUME NEW f \in Fetches, NEW op \in {"End", "Error"}, GetsEnd(f, op) PROVE StreamInv'
    BY <1>26, StreamFrame DEF GetsEnd, dialNetVars, streamVars
<1>27. ASSUME NEW f \in Fetches, WorkerMoves(f) PROVE StreamInv'
  <2>1. \A g \in Fetches : worker'[g].out = worker[g].out
      BY <1>27, QueuesTyped DEF NetShape, WorkerRecord, WorkerMoves
  <2> QED BY <1>27, <2>1, StreamFrame DEF WorkerMoves, streamVars
<1>28. ASSUME NEW f \in Fetches, Streamed(f) PROVE StreamInv'
  <2>0. PICK s \in Streams : s = <<f, worker[f].attempt>> /\ s[1] = f
      BY StreamTyped, QueuesTyped DEF WorkerRecord
  <2>1. s \in Streams /\ s[1] = f
      BY <2>0
  <2>2. worker[f].out = NoStream /\ StreamOK(s)
      BY <1>28, <2>1 DEF DialInv, WorkerInv, StreamInv, Streamed
  <2>3. netBody[s].at = "none" /\ netBody[s].read = 0 /\ buffer[s] = <<>> /\ s \notin table
      BY <2>1, <2>2, StreamTyped DEF StreamOK
  <2>4. /\ worker'[f].out = s /\ netBody'[s].at = "run" /\ netBody'[s].read = 0
        /\ buffer' = buffer /\ s \in table'
        /\ \A t \in Streams \ {s} : netBody'[t] = netBody[t] /\ (t \in table' <=> t \in table)
        /\ \A g \in Fetches \ {f} : worker'[g] = worker[g]
      BY <1>28, <2>0, <2>3, QueuesTyped DEF Streamed, NetShape, BodyRecord, WorkerRecord
  <2>5. StreamOK(s)'
    <3>1. Len(<<>>) = 0 /\ 1..0 = {} /\ Depth \in Nat
        BY DialAssumption DEF DialAssumption
    <3>2. ChunksFirst(buffer'[s], netBody'[s].at = "over")
        BY <2>3, <2>4, <3>1 DEF ChunksFirst
    <3> QED BY <2>1, <2>3, <2>4, <3>1, <3>2 DEF StreamOK
  <2>6. ASSUME NEW t \in Streams \ {s} PROVE StreamOK(t)'
    <3>1. CASE t[1] # f
        BY <2>4, <3>1, StreamSame, StreamTyped DEF DialInv, StreamInv
    <3>2. CASE t[1] = f
      <4>1. netBody[t].at = "none" /\ StreamOK(t)
          BY <2>2, <3>2, StreamTyped DEF DialInv, StreamInv, StreamOK
      <4> QED BY <2>4, <4>1 DEF StreamOK, ChunksFirst
    <3> QED BY <3>1, <3>2
  <2> QED BY <2>5, <2>6 DEF StreamInv
<1>29. ASSUME NEW f \in Fetches, Answers(f) PROVE StreamInv'
  <2>1. \A g \in Fetches : worker'[g].out = worker[g].out
      BY <1>29, QueuesTyped DEF NetShape, WorkerRecord, Answers
  <2> QED BY <1>29, <2>1, StreamFrame DEF Answers, streamVars
<1>30. ASSUME NEW s \in Streams, BodyChunk(s) PROVE StreamInv'
  <2>1. /\ buffer[s] \in Seq(Messages) /\ Len(buffer[s]) \in Nat /\ Len(buffer[s]) < Depth
        /\ buffer'[s] = Append(buffer[s], "Chunk") /\ netBody[s].at = "run" /\ netBody'[s].at = "run"
        /\ netBody[s].read \in Nat
        /\ UNCHANGED <<worker, table>>
        /\ \A t \in Streams \ {s} : buffer'[t] = buffer[t] /\ netBody'[t] = netBody[t]
      BY <1>30, QueuesTyped DEF BodyChunk, SendDial, NetShape, BodyRecord
  <2>2. /\ Len(buffer'[s]) = Len(buffer[s]) + 1 /\ buffer'[s][Len(buffer[s]) + 1] = "Chunk"
        /\ \A i \in 1..Len(buffer[s]) : buffer'[s][i] = buffer[s][i]
        /\ \A i \in 1..Len(buffer'[s]) : i \in 1..Len(buffer[s]) \/ i = Len(buffer[s]) + 1
      BY <2>1
  <2>3. StreamOK(s)
      BY DEF DialInv, StreamInv
  <2>4. s \in table
      BY <2>1, <2>3 DEF StreamOK
  <2>5. \A i \in 1..Len(buffer[s]) : buffer[s][i] = "Chunk"
      BY <2>1, <2>3 DEF StreamOK, ChunksFirst
  <2>6. ChunksFirst(buffer'[s], netBody'[s].at = "over")
      BY <2>1, <2>2, <2>5 DEF ChunksFirst
  <2>7. StreamOK(s)'
      BY <2>1, <2>2, <2>3, <2>4, <2>6, DialAssumption DEF StreamOK, DialAssumption
  <2>8. ASSUME NEW t \in Streams \ {s} PROVE StreamOK(t)'
      BY <2>1, StreamSame DEF DialInv, StreamInv
  <2> QED BY <2>7, <2>8 DEF StreamInv
<1>31. ASSUME NEW s \in Streams, BodyDone(s) PROVE StreamInv'
  <2>1. /\ netBody[s].at = "run" /\ netBody[s].read = BodyLength
        /\ netBody'[s].at = "closing" /\ netBody'[s].read = BodyLength
        /\ UNCHANGED <<worker, table, buffer>>
        /\ \A t \in Streams \ {s} : netBody'[t] = netBody[t]
      BY <1>31, QueuesTyped DEF BodyDone, NetShape, BodyRecord
  <2>2. StreamOK(s) /\ s \in table
      BY <2>1 DEF DialInv, StreamInv, StreamOK
  <2>3. StreamOK(s)'
      BY <2>1, <2>2 DEF StreamOK, ChunksFirst
  <2>4. ASSUME NEW t \in Streams \ {s} PROVE StreamOK(t)'
      BY <2>1, StreamSame DEF DialInv, StreamInv
  <2> QED BY <2>3, <2>4 DEF StreamInv
<1>32. ASSUME NEW s \in Streams, BodyEnds(s) PROVE StreamInv'
  <2>1. /\ buffer[s] \in Seq(Messages) /\ Len(buffer[s]) \in Nat /\ Len(buffer[s]) < Depth
        /\ buffer'[s] = Append(buffer[s], "End") /\ netBody[s].at = "closing" /\ netBody'[s].at = "over"
        /\ netBody'[s].read = netBody[s].read
        /\ UNCHANGED <<worker, table>>
        /\ \A t \in Streams \ {s} : buffer'[t] = buffer[t] /\ netBody'[t] = netBody[t]
      BY <1>32, QueuesTyped DEF BodyEnds, BodyOver, SendDial, NetShape, BodyRecord
  <2>2. /\ Len(buffer'[s]) = Len(buffer[s]) + 1 /\ buffer'[s][Len(buffer[s]) + 1] = "End"
        /\ \A i \in 1..Len(buffer[s]) : buffer'[s][i] = buffer[s][i]
        /\ \A i \in 1..Len(buffer'[s]) : i \in 1..Len(buffer[s]) \/ i = Len(buffer[s]) + 1
      BY <2>1
  <2>3. StreamOK(s)
      BY DEF DialInv, StreamInv
  <2>4. s \in table
      BY <2>1, <2>3 DEF StreamOK
  <2>5. \A i \in 1..Len(buffer[s]) : buffer[s][i] = "Chunk"
      BY <2>1, <2>3 DEF StreamOK, ChunksFirst
  <2>6. ChunksFirst(buffer'[s], netBody'[s].at = "over")
      BY <2>1, <2>2, <2>5 DEF ChunksFirst
  <2>7. StreamOK(s)'
      BY <2>1, <2>2, <2>3, <2>4, <2>6, DialAssumption DEF StreamOK, DialAssumption
  <2>8. ASSUME NEW t \in Streams \ {s} PROVE StreamOK(t)'
      BY <2>1, StreamSame DEF DialInv, StreamInv
  <2> QED BY <2>7, <2>8 DEF StreamInv
<1>33. ASSUME NEW s \in Streams, BodyFails(s) PROVE StreamInv'
  <2>1. /\ buffer[s] \in Seq(Messages) /\ Len(buffer[s]) \in Nat /\ Len(buffer[s]) < Depth
        /\ buffer'[s] = Append(buffer[s], "Error") /\ netBody[s].at = "run" /\ netBody'[s].at = "over"
        /\ netBody'[s].read = netBody[s].read
        /\ UNCHANGED <<worker, table>>
        /\ \A t \in Streams \ {s} : buffer'[t] = buffer[t] /\ netBody'[t] = netBody[t]
      BY <1>33, QueuesTyped DEF BodyFails, BodyOver, SendDial, NetShape, BodyRecord
  <2>2. /\ Len(buffer'[s]) = Len(buffer[s]) + 1 /\ buffer'[s][Len(buffer[s]) + 1] = "Error"
        /\ \A i \in 1..Len(buffer[s]) : buffer'[s][i] = buffer[s][i]
        /\ \A i \in 1..Len(buffer'[s]) : i \in 1..Len(buffer[s]) \/ i = Len(buffer[s]) + 1
      BY <2>1
  <2>3. StreamOK(s)
      BY DEF DialInv, StreamInv
  <2>4. s \in table
      BY <2>1, <2>3 DEF StreamOK
  <2>5. \A i \in 1..Len(buffer[s]) : buffer[s][i] = "Chunk"
      BY <2>1, <2>3 DEF StreamOK, ChunksFirst
  <2>6. ChunksFirst(buffer'[s], netBody'[s].at = "over")
      BY <2>1, <2>2, <2>5 DEF ChunksFirst
  <2>7. StreamOK(s)'
      BY <2>1, <2>2, <2>3, <2>4, <2>6, DialAssumption DEF StreamOK, DialAssumption
  <2>8. ASSUME NEW t \in Streams \ {s} PROVE StreamOK(t)'
      BY <2>1, StreamSame DEF DialInv, StreamInv
  <2> QED BY <2>7, <2>8 DEF StreamInv
<1> QED
    BY <1>1, <1>2, <1>3, <1>4, <1>5, <1>6, <1>7, <1>8, <1>9, <1>10, <1>11, <1>12, <1>13,
       <1>14, <1>15, <1>16, <1>17, <1>18, <1>19, <1>20, <1>21, <1>22, <1>23, <1>24,
       <1>25, <1>26, <1>27, <1>28, <1>29, <1>30, <1>31, <1>32, <1>33 DEF DialStep

(* A step that touches the stream of one fetch, h, spares the others. *)
Spares(h) == \A g \in Fetches \ {h} :
    /\ worker'[g].at = worker[g].at /\ worker'[g].out = worker[g].out
    /\ Untouched(g) => Untouched(g)'

LEMMA UntouchedSpared ==
  ASSUME DialInv, NEW h \in Fetches, Spares(h), worker'[h].at # "replied" => Untouched(h)'
  PROVE  UntouchedInv'
BY DEF DialInv, UntouchedInv, Spares

LEMMA CompletionSpared ==
  ASSUME DialInv, NEW h \in Fetches, Spares(h), ~ Untouched(h) \/ worker[h].at # "replied",
         UNCHANGED <<channel, dialTasks>>, Once(dialReplies', DialReplies),
         \A r \in ToSet(dialReplies') : r.op = "Dial" => r \in ToSet(dialReplies)
  PROVE  CompletionInv'
<1>1. \A g \in Fetches : \A out : Completes(g, out) => Completes(g, out)'
    BY DEF Spares, Completes
<1>2. \A r \in ToSet(dialReplies') : r.op = "Dial" => Completes(r.fetch, r.out)'
    BY <1>1, ItemsTyped DEF DialInv, CompletionInv
<1>3. \A c \in ToSet(channel) \cup ToSet(dialTasks) : Completes(c.fetch, c.out)'
    BY <1>1, ItemsTyped DEF DialInv, CompletionInv
<1> QED BY <1>2, <1>3 DEF DialInv, CompletionInv

LEMMA CompletionTaken ==
  ASSUME DialInv, NEW c \in ToSet(channel) \cup ToSet(dialTasks), Spares(c.fetch), UNCHANGED dialReplies,
         \A d \in ToSet(channel') : d \in ToSet(channel) /\ d # c,
         \A d \in ToSet(dialTasks') : d \in ToSet(dialTasks) /\ d # c,
         Once(channel', Completions), Once(dialTasks', Completions)
  PROVE  CompletionInv'
<1>1. \A d \in ToSet(channel) \cup ToSet(dialTasks) : d # c => d.fetch # c.fetch
    BY ItemsTyped, CompletionTyped DEF DialInv, CompletionInv, Completes
<1>2. \A g \in Fetches \ {c.fetch} : \A out : Completes(g, out) => Completes(g, out)'
    BY DEF Spares, Completes
<1>3. \A r \in ToSet(dialReplies) : r.op = "Dial" => Completes(r.fetch, r.out)'
    BY <1>2, ItemsTyped DEF DialInv, CompletionInv
<1>4. \A d \in ToSet(channel') \cup ToSet(dialTasks') : Completes(d.fetch, d.out)'
    BY <1>1, <1>2, ItemsTyped DEF DialInv, CompletionInv
<1> QED BY <1>3, <1>4 DEF DialInv, CompletionInv

(* The stream a call, a reply or the reader is about, is no longer untouched. *)
LEMMA Touched ==
  ASSUME DialInv
  PROVE  /\ \A s \in Streams, op \in {"CancelStream", "DialRead"} :
               <<op, s>> \in ToSet(calls) => ~ Untouched(s[1]) /\ threadBlocked = <<op, s>>
         /\ \A s \in Streams : reading = s => ~ Untouched(s[1]) /\ threadBlocked = <<"DialRead", s>>
         /\ \A f \in Fetches, op \in {"Unit", "Chunk", "End", "Error"} :
               Answer(f, op) \in ToSet(dialReplies) => ~ Untouched(f) /\ Busy(f)
         /\ \A f \in Fetches : dialPage[f] = "open" => ~ Untouched(f) /\ worker[f].out[1] = f
         /\ \A f \in Fetches : ~ Untouched(f) => worker[f].at = "replied"
<1>1. ASSUME NEW s \in Streams, NEW op \in {"CancelStream", "DialRead"}, <<op, s>> \in ToSet(calls)
      PROVE  ~ Untouched(s[1]) /\ threadBlocked = <<op, s>>
  <2>1. threadBlocked = <<op, s>>
      BY <1>1, CallTyped DEF DialInv, BlockInv
  <2>2. Busy(s[1])
      BY <2>1, AboutCalls DEF Busy
  <2> QED BY <2>1, <2>2 DEF Untouched
<1>2. ASSUME NEW s \in Streams, reading = s
      PROVE  ~ Untouched(s[1]) /\ threadBlocked = <<"DialRead", s>>
  <2>1. threadBlocked = <<"DialRead", s>>
      BY <1>2, StreamTyped DEF DialInv, BlockInv
  <2>2. Busy(s[1])
      BY <2>1, AboutCalls DEF Busy
  <2> QED BY <2>1, <2>2 DEF Untouched
<1>3. ASSUME NEW f \in Fetches, NEW op \in {"Unit", "Chunk", "End", "Error"},
             Answer(f, op) \in ToSet(dialReplies)
      PROVE  ~ Untouched(f) /\ Busy(f)
    BY <1>3, ReplyTyped DEF DialInv, BlockInv, Untouched
<1>4. ASSUME NEW f \in Fetches, dialPage[f] = "open"
      PROVE  ~ Untouched(f) /\ worker[f].out[1] = f
    BY <1>4, QueuesTyped, StreamTyped DEF Untouched, DialInv, WorkerInv
<1>5. ASSUME NEW f \in Fetches, ~ Untouched(f) PROVE worker[f].at = "replied"
    BY <1>5 DEF DialInv, UntouchedInv
<1> QED BY <1>1, <1>2, <1>3, <1>4, <1>5

LEMMA SettleSpares ==
  ASSUME DialInv, NEW c \in Completions, Abandons(c) \/ Refuses(c)
  PROVE  /\ Spares(c.fetch) /\ c.fetch \in Fetches /\ worker' = worker
         /\ worker[c.fetch].at = "replied"
         /\ c \in ToSet(channel) \cup ToSet(dialTasks)
<1>1. c \in ToSet(channel) \cup ToSet(dialTasks) /\ c.fetch \in Fetches
    BY CompletionTyped DEF Abandons, Refuses, Takes
<1>2. worker[c.fetch].at = "replied" /\ worker[c.fetch].out = c.out
    BY <1>1 DEF DialInv, CompletionInv, Completes
<1>3. worker' = worker /\ table' = table /\ got' = got /\ CancelsStream(c.out)
    BY DEF Abandons, Refuses, dialNetVars, streamVars
<1>4. \A g \in Fetches \ {c.fetch} : ~ Busy(g)'
  <2>1. CASE threadBlocked' = <<>>
      BY <2>1, AboutCalls DEF Busy
  <2>2. CASE c.out \in Streams /\ threadBlocked' = <<"CancelStream", c.out>>
    <3>1. c.out[1] = c.fetch
        BY <1>1, <1>2, <2>2, StreamTyped DEF DialInv, WorkerInv
    <3> QED BY <2>2, <3>1, AboutCalls DEF Busy
  <2> QED BY <1>3, <2>1, <2>2 DEF CancelsStream
<1>5. \A g \in Fetches \ {c.fetch} : dialPage'[g] = dialPage[g]
    BY <1>1, QueuesTyped DEF Abandons, Refuses, PageShape
<1> QED BY <1>1, <1>2, <1>3, <1>4, <1>5 DEF Spares, Untouched

LEMMA CallSpares ==
  ASSUME DialInv, NEW f \in Fetches, AsksChunk(f) \/ LetsGo(f)
  PROVE  Spares(f) /\ ~ Untouched(f) /\ worker' = worker
<1>1. worker' = worker /\ table' = table /\ got' = got /\ dialPage[f] = "open"
    BY DEF AsksChunk, LetsGo, dialNetVars, streamVars
<1>2. ~ Untouched(f) /\ worker[f].out \in Streams /\ worker[f].out[1] = f
    BY <1>1, Touched, QueuesTyped
<1>3. \A g \in Fetches \ {f} : ~ Busy(g)'
    BY <1>2, AboutCalls DEF AsksChunk, LetsGo, Busy
<1>4. \A g \in Fetches \ {f} : dialPage'[g] = dialPage[g]
    BY QueuesTyped DEF AsksChunk, LetsGo, PageShape
<1> QED BY <1>1, <1>2, <1>3, <1>4 DEF Spares, Untouched

LEMMA CloseSpares ==
  ASSUME DialInv, NEW s \in Streams, ServesStream(s) \/ \E op \in {"End", "Error"} : ReadsEnd(s, op)
  PROVE  Spares(s[1]) /\ ~ Untouched(s[1]) /\ worker' = worker /\ s[1] \in Fetches
<1>1. ~ Untouched(s[1])
    BY Touched DEF ServesStream, ReadsEnd, Takes
<1>2. worker' = worker /\ table' = table \ {s} /\ UNCHANGED <<got, dialPage, threadBlocked>>
    BY DEF ServesStream, ReadsEnd, Closes
<1>3. s[1] \in Fetches /\ \A g \in Fetches \ {s[1]} : worker[g].out # s
    BY StreamTyped DEF DialInv, WorkerInv
<1> QED BY <1>1, <1>2, <1>3 DEF Spares, Untouched, Busy

LEMMA AnswerSpares ==
  ASSUME DialInv, NEW f \in Fetches, GetsChunk(f) \/ \E op \in {"End", "Error"} : GetsEnd(f, op)
  PROVE  Spares(f) /\ ~ Untouched(f) /\ worker' = worker
<1>1. ~ Untouched(f)
    BY Touched DEF GetsChunk, GetsEnd, Takes
<1>2. worker' = worker /\ table' = table /\ threadBlocked' = <<>>
    BY DEF GetsChunk, GetsEnd, dialNetVars, streamVars
<1>3. \A g \in Fetches \ {f} : dialPage'[g] = dialPage[g] /\ got'[g] = got[g]
    BY QueuesTyped DEF GetsChunk, GetsEnd, PageShape
<1>4. \A g \in Fetches : ~ Busy(g)'
    BY <1>2, AboutCalls DEF Busy
<1> QED BY <1>1, <1>2, <1>3, <1>4 DEF Spares, Untouched

LEMMA DialSpares ==
  ASSUME DialInv, NEW f \in Fetches, WorkerMoves(f) \/ ServesDial(f)
  PROVE  /\ Spares(f) /\ worker[f].at # "replied" /\ Untouched(f)'
         /\ UNCHANGED <<dialPage, channel, dialTasks, dialReplies>>
<1>1. worker[f].at # "replied"
    BY DEF WorkerMoves, ServesDial, Takes, DialInv, LaunchInv
<1>2. /\ worker'[f].out = worker[f].out
      /\ \A g \in Fetches \ {f} : worker'[g] = worker[g]
    BY QueuesTyped DEF WorkerMoves, ServesDial, NetShape, WorkerRecord
<1>3. UNCHANGED <<dialPage, got, threadBlocked, table, channel, dialTasks, dialReplies>>
    BY DEF WorkerMoves, ServesDial, dialRendererVars, streamVars
<1> QED BY <1>1, <1>2, <1>3 DEF Spares, Untouched, Busy, DialInv, UntouchedInv

(* ... nobody touches a stream before its completion is taken, ... *)
LEMMA UntouchedStep ==
  ASSUME DialInv, DialStep
  PROVE  UntouchedInv'
<1>1. CASE Idles
    BY <1>1, QueuesTyped, ItemsTyped, CallTyped, StreamTyped, CompletionTyped,
       AboutCalls, ReplyTyped
       DEF Takes, DialInv, UntouchedInv, CompletionInv, Completes, Untouched, Busy,
           WorkerInv, PageShape, NetShape, WorkerRecord, Idles, dialNetVars,
           dialPipeVars, streamVars
<1>2. ASSUME NEW f \in Fetches, Files(f) PROVE UntouchedInv'
    BY <1>2, QueuesTyped, ItemsTyped, CallTyped, StreamTyped, CompletionTyped,
       AboutCalls, ReplyTyped
       DEF Takes, DialInv, UntouchedInv, CompletionInv, Completes, Untouched, Busy,
           WorkerInv, PageShape, NetShape, WorkerRecord, Files, dialNetVars,
           dialPipeVars, streamVars
<1>3. ASSUME NEW f \in Fetches, Drops(f) PROVE UntouchedInv'
    BY <1>3, QueuesTyped, ItemsTyped, CallTyped, StreamTyped, CompletionTyped,
       AboutCalls, ReplyTyped
       DEF Takes, DialInv, UntouchedInv, CompletionInv, Completes, Untouched, Busy,
           WorkerInv, PageShape, NetShape, WorkerRecord, Drops, dialNetVars,
           dialPipeVars, streamVars
<1>4. ASSUME NEW f \in Fetches, Starts(f) PROVE UntouchedInv'
    BY <1>4, QueuesTyped, ItemsTyped, CallTyped, StreamTyped, CompletionTyped,
       AboutCalls, ReplyTyped
       DEF Takes, DialInv, UntouchedInv, CompletionInv, Completes, Untouched, Busy,
           WorkerInv, PageShape, NetShape, WorkerRecord, Starts, dialNetVars,
           dialPipeVars, streamVars
<1>5. ASSUME NEW c \in Completions, Adopts(c) PROVE UntouchedInv'
    BY <1>5, QueuesTyped, ItemsTyped, CallTyped, StreamTyped, CompletionTyped,
       AboutCalls, ReplyTyped
       DEF Takes, DialInv, UntouchedInv, CompletionInv, Completes, Untouched, Busy,
           WorkerInv, PageShape, NetShape, WorkerRecord, Adopts, dialNetVars,
           dialPipeVars, streamVars
<1>6. ASSUME NEW c \in Completions, Abandons(c) PROVE UntouchedInv'
    BY <1>6, SettleSpares, UntouchedSpared
<1>7. ASSUME NEW c \in Completions, Delivers(c) PROVE UntouchedInv'
    BY <1>7, QueuesTyped, ItemsTyped, CallTyped, StreamTyped, CompletionTyped,
       AboutCalls, ReplyTyped
       DEF Takes, DialInv, UntouchedInv, CompletionInv, Completes, Untouched, Busy,
           WorkerInv, PageShape, NetShape, WorkerRecord, Delivers, dialNetVars,
           dialPipeVars, streamVars
<1>8. ASSUME NEW c \in Completions, Refuses(c) PROVE UntouchedInv'
    BY <1>8, SettleSpares, UntouchedSpared
<1>9. ASSUME NEW f \in Fetches, Asks(f, "new", "asked", "Fetch") PROVE UntouchedInv'
    BY <1>9, QueuesTyped, ItemsTyped, CallTyped, StreamTyped, CompletionTyped,
       AboutCalls, ReplyTyped
       DEF Takes, DialInv, UntouchedInv, CompletionInv, Completes, Untouched, Busy,
           WorkerInv, PageShape, NetShape, WorkerRecord, Asks, dialNetVars,
           dialPipeVars, streamVars
<1>10. ASSUME NEW f \in Fetches, Asks(f, "asked", "aborted", "AbortFetch") PROVE UntouchedInv'
    BY <1>10, QueuesTyped, ItemsTyped, CallTyped, StreamTyped, CompletionTyped,
       AboutCalls, ReplyTyped
       DEF Takes, DialInv, UntouchedInv, CompletionInv, Completes, Untouched, Busy,
           WorkerInv, PageShape, NetShape, WorkerRecord, Asks, dialNetVars,
           dialPipeVars, streamVars
<1>11. ASSUME NEW f \in Fetches, AsksSync(f) PROVE UntouchedInv'
    BY <1>11, QueuesTyped, ItemsTyped, CallTyped, StreamTyped, CompletionTyped,
       AboutCalls, ReplyTyped
       DEF Takes, DialInv, UntouchedInv, CompletionInv, Completes, Untouched, Busy,
           WorkerInv, PageShape, NetShape, WorkerRecord, AsksSync, dialNetVars,
           dialPipeVars, streamVars
<1>12. ASSUME NEW f \in Fetches, AsksChunk(f) PROVE UntouchedInv'
    BY <1>12, CallSpares, Touched, UntouchedSpared
<1>13. ASSUME NEW f \in Fetches, LetsGo(f) PROVE UntouchedInv'
    BY <1>13, CallSpares, Touched, UntouchedSpared
<1>14. CASE Replaced
    BY <1>14, QueuesTyped, ItemsTyped, CallTyped, StreamTyped, CompletionTyped,
       AboutCalls, ReplyTyped
       DEF Takes, DialInv, UntouchedInv, CompletionInv, Completes, Untouched, Busy,
           WorkerInv, PageShape, NetShape, WorkerRecord, Replaced, dialNetVars,
           dialPipeVars, streamVars
<1>15. ASSUME NEW f \in Fetches, ServesDial(f) PROVE UntouchedInv'
    BY <1>15, DialSpares, UntouchedSpared
<1>16. ASSUME NEW f \in Fetches, ServesCancel(f) PROVE UntouchedInv'
    BY <1>16, QueuesTyped, ItemsTyped, CallTyped, StreamTyped, CompletionTyped,
       AboutCalls, ReplyTyped
       DEF Takes, DialInv, UntouchedInv, CompletionInv, Completes, Untouched, Busy,
           WorkerInv, PageShape, NetShape, WorkerRecord, ServesCancel, streamVars
<1>17. ASSUME NEW s \in Streams, ServesStream(s) PROVE UntouchedInv'
    BY <1>17, CloseSpares, Touched, UntouchedSpared
<1>18. ASSUME NEW s \in Streams, ServesRead(s) PROVE UntouchedInv'
    BY <1>18, QueuesTyped, ItemsTyped, CallTyped, StreamTyped, CompletionTyped,
       AboutCalls, ReplyTyped
       DEF Takes, DialInv, UntouchedInv, CompletionInv, Completes, Untouched, Busy,
           WorkerInv, PageShape, NetShape, WorkerRecord, ServesRead, dialNetVars,
           dialPipeVars, streamVars
<1>19. ASSUME NEW s \in Streams, ServesGone(s) PROVE UntouchedInv'
    BY <1>19, QueuesTyped, ItemsTyped, CallTyped, StreamTyped, CompletionTyped,
       AboutCalls, ReplyTyped
       DEF Takes, DialInv, UntouchedInv, CompletionInv, Completes, Untouched, Busy,
           WorkerInv, PageShape, NetShape, WorkerRecord, ServesGone, Replies,
           dialNetVars, dialPipeVars, streamVars
<1>20. ASSUME NEW s \in Streams, ReadsChunk(s) PROVE UntouchedInv'
    BY <1>20, QueuesTyped, ItemsTyped, CallTyped, StreamTyped, CompletionTyped,
       AboutCalls, ReplyTyped
       DEF Takes, DialInv, UntouchedInv, CompletionInv, Completes, Untouched, Busy,
           WorkerInv, PageShape, NetShape, WorkerRecord, ReadsChunk, Replies
<1>21. ASSUME NEW s \in Streams, NEW op \in {"End", "Error"}, ReadsEnd(s, op) PROVE UntouchedInv'
    BY <1>21, CloseSpares, Touched, UntouchedSpared
<1>22. ASSUME NEW r \in DialReplies, Completed(r) PROVE UntouchedInv'
    BY <1>22, QueuesTyped, ItemsTyped, CallTyped, StreamTyped, CompletionTyped,
       AboutCalls, ReplyTyped
       DEF Takes, DialInv, UntouchedInv, CompletionInv, Completes, Untouched, Busy,
           WorkerInv, PageShape, NetShape, WorkerRecord, Completed, dialNetVars,
           dialPipeVars, streamVars
<1>23. ASSUME NEW r \in DialReplies, CompletedSync(r) PROVE UntouchedInv'
    BY <1>23, QueuesTyped, ItemsTyped, CallTyped, StreamTyped, CompletionTyped,
       AboutCalls, ReplyTyped
       DEF Takes, DialInv, UntouchedInv, CompletionInv, Completes, Untouched, Busy,
           WorkerInv, PageShape, NetShape, WorkerRecord, CompletedSync, dialNetVars,
           dialPipeVars, streamVars
<1>24. ASSUME NEW f \in Fetches, GetsChunk(f) PROVE UntouchedInv'
    BY <1>24, AnswerSpares, Touched, UntouchedSpared
<1>25. ASSUME NEW f \in Fetches, GetsUnit(f) PROVE UntouchedInv'
    BY <1>25, QueuesTyped, ItemsTyped, CallTyped, StreamTyped, CompletionTyped,
       AboutCalls, ReplyTyped
       DEF Takes, DialInv, UntouchedInv, CompletionInv, Completes, Untouched, Busy,
           WorkerInv, PageShape, NetShape, WorkerRecord, GetsUnit, dialNetVars,
           dialPipeVars, streamVars
<1>26. ASSUME NEW f \in Fetches, NEW op \in {"End", "Error"}, GetsEnd(f, op) PROVE UntouchedInv'
    BY <1>26, AnswerSpares, Touched, UntouchedSpared
<1>27. ASSUME NEW f \in Fetches, WorkerMoves(f) PROVE UntouchedInv'
    BY <1>27, DialSpares, UntouchedSpared
<1>28. ASSUME NEW f \in Fetches, Streamed(f) PROVE UntouchedInv'
    BY <1>28, QueuesTyped, ItemsTyped, CallTyped, StreamTyped, CompletionTyped,
       AboutCalls, ReplyTyped
       DEF Takes, DialInv, UntouchedInv, CompletionInv, Completes, Untouched, Busy,
           WorkerInv, PageShape, NetShape, WorkerRecord, Streamed, Undisturbed,
           dialRendererVars
<1>29. ASSUME NEW f \in Fetches, Answers(f) PROVE UntouchedInv'
    BY <1>29, QueuesTyped, ItemsTyped, CallTyped, StreamTyped, CompletionTyped,
       AboutCalls, ReplyTyped
       DEF Takes, DialInv, UntouchedInv, CompletionInv, Completes, Untouched, Busy,
           WorkerInv, PageShape, NetShape, WorkerRecord, Answers, dialRendererVars,
           streamVars
<1>30. ASSUME NEW s \in Streams, BodyChunk(s) PROVE UntouchedInv'
    BY <1>30, QueuesTyped, ItemsTyped, CallTyped, StreamTyped, CompletionTyped,
       AboutCalls, ReplyTyped
       DEF Takes, DialInv, UntouchedInv, CompletionInv, Completes, Untouched, Busy,
           WorkerInv, PageShape, NetShape, WorkerRecord, BodyChunk, SendDial,
           Undisturbed, dialRendererVars
<1>31. ASSUME NEW s \in Streams, BodyDone(s) PROVE UntouchedInv'
    BY <1>31, QueuesTyped, ItemsTyped, CallTyped, StreamTyped, CompletionTyped,
       AboutCalls, ReplyTyped
       DEF Takes, DialInv, UntouchedInv, CompletionInv, Completes, Untouched, Busy,
           WorkerInv, PageShape, NetShape, WorkerRecord, BodyDone, Undisturbed,
           dialRendererVars
<1>32. ASSUME NEW s \in Streams, BodyEnds(s) PROVE UntouchedInv'
    BY <1>32, QueuesTyped, ItemsTyped, CallTyped, StreamTyped, CompletionTyped,
       AboutCalls, ReplyTyped
       DEF Takes, DialInv, UntouchedInv, CompletionInv, Completes, Untouched, Busy,
           WorkerInv, PageShape, NetShape, WorkerRecord, BodyEnds, BodyOver, SendDial,
           Undisturbed, dialRendererVars
<1>33. ASSUME NEW s \in Streams, BodyFails(s) PROVE UntouchedInv'
    BY <1>33, QueuesTyped, ItemsTyped, CallTyped, StreamTyped, CompletionTyped,
       AboutCalls, ReplyTyped
       DEF Takes, DialInv, UntouchedInv, CompletionInv, Completes, Untouched, Busy,
           WorkerInv, PageShape, NetShape, WorkerRecord, BodyFails, BodyOver, SendDial,
           Undisturbed, dialRendererVars
<1> QED
    BY <1>1, <1>2, <1>3, <1>4, <1>5, <1>6, <1>7, <1>8, <1>9, <1>10, <1>11, <1>12, <1>13,
       <1>14, <1>15, <1>16, <1>17, <1>18, <1>19, <1>20, <1>21, <1>22, <1>23, <1>24,
       <1>25, <1>26, <1>27, <1>28, <1>29, <1>30, <1>31, <1>32, <1>33 DEF DialStep

(* ... the one completion of a fetch, ... *)
LEMMA CompletionStep ==
  ASSUME DialInv, DialStep
  PROVE  CompletionInv'
<1>1. CASE Idles
    BY <1>1, QueuesTyped, ItemsTyped, CallTyped, StreamTyped, CompletionTyped,
       AboutCalls, ReplyTyped
       DEF Takes, Puts, DialInv, UntouchedInv, CompletionInv, Completes, Untouched,
           Busy, WorkerInv, PageShape, NetShape, WorkerRecord, Idles, dialNetVars,
           dialPipeVars, streamVars
<1>2. ASSUME NEW f \in Fetches, Files(f) PROVE CompletionInv'
    BY <1>2, QueuesTyped, ItemsTyped, CallTyped, StreamTyped, CompletionTyped,
       AboutCalls, ReplyTyped
       DEF Takes, Puts, DialInv, UntouchedInv, CompletionInv, Completes, Untouched,
           Busy, WorkerInv, PageShape, NetShape, WorkerRecord, Files, dialNetVars,
           dialPipeVars, streamVars
<1>3. ASSUME NEW f \in Fetches, Drops(f) PROVE CompletionInv'
    BY <1>3, QueuesTyped, ItemsTyped, CallTyped, StreamTyped, CompletionTyped,
       AboutCalls, ReplyTyped
       DEF Takes, Puts, DialInv, UntouchedInv, CompletionInv, Completes, Untouched,
           Busy, WorkerInv, PageShape, NetShape, WorkerRecord, Drops, dialNetVars,
           dialPipeVars, streamVars
<1>4. ASSUME NEW f \in Fetches, Starts(f) PROVE CompletionInv'
    BY <1>4, QueuesTyped, ItemsTyped, CallTyped, StreamTyped, CompletionTyped,
       AboutCalls, ReplyTyped
       DEF Takes, Puts, DialInv, UntouchedInv, CompletionInv, Completes, Untouched,
           Busy, WorkerInv, PageShape, NetShape, WorkerRecord, Starts, dialNetVars,
           dialPipeVars, streamVars
<1>5. ASSUME NEW c \in Completions, Adopts(c) PROVE CompletionInv'
    BY <1>5, QueuesTyped, ItemsTyped, CallTyped, StreamTyped, CompletionTyped,
       AboutCalls, ReplyTyped
       DEF Takes, Puts, DialInv, UntouchedInv, CompletionInv, Completes, Untouched,
           Busy, WorkerInv, PageShape, NetShape, WorkerRecord, Adopts, dialNetVars,
           dialPipeVars, streamVars
<1>6. ASSUME NEW c \in Completions, Abandons(c) PROVE CompletionInv'
  <2>1. /\ \A d \in ToSet(channel') : d \in ToSet(channel) /\ d # c
        /\ Once(channel', Completions) /\ UNCHANGED <<dialTasks, dialReplies>>
        /\ c \in ToSet(channel)
      BY <1>6 DEF Abandons, Takes, DialInv, CompletionInv
  <2>2. \A d \in ToSet(dialTasks') : d \in ToSet(dialTasks) /\ d # c
      BY <2>1 DEF DialInv, CompletionInv
  <2>3. Once(dialTasks', Completions)
      BY <2>1 DEF DialInv, CompletionInv
  <2> QED BY <1>6, <2>1, <2>2, <2>3, SettleSpares, CompletionTaken
<1>7. ASSUME NEW c \in Completions, Delivers(c) PROVE CompletionInv'
    BY <1>7, QueuesTyped, ItemsTyped, CallTyped, StreamTyped, CompletionTyped,
       AboutCalls, ReplyTyped
       DEF Takes, Puts, DialInv, UntouchedInv, CompletionInv, Completes, Untouched,
           Busy, WorkerInv, PageShape, NetShape, WorkerRecord, Delivers, dialNetVars,
           dialPipeVars, streamVars
<1>8. ASSUME NEW c \in Completions, Refuses(c) PROVE CompletionInv'
  <2>1. /\ \A d \in ToSet(dialTasks') : d \in ToSet(dialTasks) /\ d # c
        /\ Once(dialTasks', Completions) /\ UNCHANGED <<channel, dialReplies>>
        /\ c \in ToSet(dialTasks)
      BY <1>8 DEF Refuses, Takes, DialInv, CompletionInv
  <2>2. \A d \in ToSet(channel') : d \in ToSet(channel) /\ d # c
      BY <2>1 DEF DialInv, CompletionInv
  <2>3. Once(channel', Completions)
      BY <2>1 DEF DialInv, CompletionInv
  <2> QED BY <1>8, <2>1, <2>2, <2>3, SettleSpares, CompletionTaken
<1>9. ASSUME NEW f \in Fetches, Asks(f, "new", "asked", "Fetch") PROVE CompletionInv'
    BY <1>9, QueuesTyped, ItemsTyped, CallTyped, StreamTyped, CompletionTyped,
       AboutCalls, ReplyTyped
       DEF Takes, Puts, DialInv, UntouchedInv, CompletionInv, Completes, Untouched,
           Busy, WorkerInv, PageShape, NetShape, WorkerRecord, Asks, dialNetVars,
           dialPipeVars, streamVars
<1>10. ASSUME NEW f \in Fetches, Asks(f, "asked", "aborted", "AbortFetch") PROVE CompletionInv'
    BY <1>10, QueuesTyped, ItemsTyped, CallTyped, StreamTyped, CompletionTyped,
       AboutCalls, ReplyTyped
       DEF Takes, Puts, DialInv, UntouchedInv, CompletionInv, Completes, Untouched,
           Busy, WorkerInv, PageShape, NetShape, WorkerRecord, Asks, dialNetVars,
           dialPipeVars, streamVars
<1>11. ASSUME NEW f \in Fetches, AsksSync(f) PROVE CompletionInv'
    BY <1>11, QueuesTyped, ItemsTyped, CallTyped, StreamTyped, CompletionTyped,
       AboutCalls, ReplyTyped
       DEF Takes, Puts, DialInv, UntouchedInv, CompletionInv, Completes, Untouched,
           Busy, WorkerInv, PageShape, NetShape, WorkerRecord, AsksSync, dialNetVars,
           dialPipeVars, streamVars
<1>12. ASSUME NEW f \in Fetches, AsksChunk(f) PROVE CompletionInv'
  <2>1. UNCHANGED <<channel, dialTasks, dialReplies>>
      BY <1>12 DEF AsksChunk
  <2>2. Once(dialReplies', DialReplies)
      BY <2>1 DEF DialInv, CompletionInv
  <2> QED BY <1>12, <2>1, <2>2, CallSpares, CompletionSpared
<1>13. ASSUME NEW f \in Fetches, LetsGo(f) PROVE CompletionInv'
  <2>1. UNCHANGED <<channel, dialTasks, dialReplies>>
      BY <1>13 DEF LetsGo
  <2>2. Once(dialReplies', DialReplies)
      BY <2>1 DEF DialInv, CompletionInv
  <2> QED BY <1>13, <2>1, <2>2, CallSpares, CompletionSpared
<1>14. CASE Replaced
    BY <1>14, QueuesTyped, ItemsTyped, CallTyped, StreamTyped, CompletionTyped,
       AboutCalls, ReplyTyped
       DEF Takes, Puts, DialInv, UntouchedInv, CompletionInv, Completes, Untouched,
           Busy, WorkerInv, PageShape, NetShape, WorkerRecord, Replaced, dialNetVars,
           dialPipeVars, streamVars
<1>15. ASSUME NEW f \in Fetches, ServesDial(f) PROVE CompletionInv'
  <2>1. Once(dialReplies', DialReplies)
      BY <1>15, DialSpares DEF DialInv, CompletionInv
  <2> QED BY <1>15, <2>1, DialSpares, CompletionSpared
<1>16. ASSUME NEW f \in Fetches, ServesCancel(f) PROVE CompletionInv'
    BY <1>16, QueuesTyped, ItemsTyped, CallTyped, StreamTyped, CompletionTyped,
       AboutCalls, ReplyTyped
       DEF Takes, Puts, DialInv, UntouchedInv, CompletionInv, Completes, Untouched,
           Busy, WorkerInv, PageShape, NetShape, WorkerRecord, ServesCancel, streamVars
<1>17. ASSUME NEW s \in Streams, ServesStream(s) PROVE CompletionInv'
  <2>1. Answer(s[1], "Unit") \notin DialReplies /\ Answer(s[1], "Unit").op # "Dial"
      BY StreamTyped, ReplyTyped
  <2>2. /\ UNCHANGED <<channel, dialTasks>> /\ Once(dialReplies', DialReplies)
        /\ \A r \in ToSet(dialReplies') : r.op = "Dial" => r \in ToSet(dialReplies)
      BY <1>17, <2>1 DEF ServesStream, Replies, Puts, DialInv, CompletionInv
  <2> QED BY <1>17, <2>2, CloseSpares, CompletionSpared
<1>18. ASSUME NEW s \in Streams, ServesRead(s) PROVE CompletionInv'
    BY <1>18, QueuesTyped, ItemsTyped, CallTyped, StreamTyped, CompletionTyped,
       AboutCalls, ReplyTyped
       DEF Takes, Puts, DialInv, UntouchedInv, CompletionInv, Completes, Untouched,
           Busy, WorkerInv, PageShape, NetShape, WorkerRecord, ServesRead, dialNetVars,
           dialPipeVars, streamVars
<1>19. ASSUME NEW s \in Streams, ServesGone(s) PROVE CompletionInv'
    BY <1>19, QueuesTyped, ItemsTyped, CallTyped, StreamTyped, CompletionTyped,
       AboutCalls, ReplyTyped
       DEF Takes, Puts, DialInv, UntouchedInv, CompletionInv, Completes, Untouched,
           Busy, WorkerInv, PageShape, NetShape, WorkerRecord, ServesGone, Replies,
           dialNetVars, dialPipeVars, streamVars
<1>20. ASSUME NEW s \in Streams, ReadsChunk(s) PROVE CompletionInv'
    BY <1>20, QueuesTyped, ItemsTyped, CallTyped, StreamTyped, CompletionTyped,
       AboutCalls, ReplyTyped
       DEF Takes, Puts, DialInv, UntouchedInv, CompletionInv, Completes, Untouched,
           Busy, WorkerInv, PageShape, NetShape, WorkerRecord, ReadsChunk, Replies
<1>21. ASSUME NEW s \in Streams, NEW op \in {"End", "Error"}, ReadsEnd(s, op) PROVE CompletionInv'
  <2>1. Answer(s[1], op) \notin DialReplies /\ Answer(s[1], op).op # "Dial"
      BY StreamTyped, ReplyTyped
  <2>2. /\ UNCHANGED <<channel, dialTasks>> /\ Once(dialReplies', DialReplies)
        /\ \A r \in ToSet(dialReplies') : r.op = "Dial" => r \in ToSet(dialReplies)
      BY <1>21, <2>1 DEF ReadsEnd, Replies, Puts, DialInv, CompletionInv
  <2> QED BY <1>21, <2>2, CloseSpares, CompletionSpared
<1>22. ASSUME NEW r \in DialReplies, Completed(r) PROVE CompletionInv'
    BY <1>22, QueuesTyped, ItemsTyped, CallTyped, StreamTyped, CompletionTyped,
       AboutCalls, ReplyTyped
       DEF Takes, Puts, DialInv, UntouchedInv, CompletionInv, Completes, Untouched,
           Busy, WorkerInv, PageShape, NetShape, WorkerRecord, Completed, dialNetVars,
           dialPipeVars, streamVars
<1>23. ASSUME NEW r \in DialReplies, CompletedSync(r) PROVE CompletionInv'
    BY <1>23, QueuesTyped, ItemsTyped, CallTyped, StreamTyped, CompletionTyped,
       AboutCalls, ReplyTyped
       DEF Takes, Puts, DialInv, UntouchedInv, CompletionInv, Completes, Untouched,
           Busy, WorkerInv, PageShape, NetShape, WorkerRecord, CompletedSync,
           dialNetVars, dialPipeVars, streamVars
<1>24. ASSUME NEW f \in Fetches, GetsChunk(f) PROVE CompletionInv'
  <2>1. /\ UNCHANGED <<channel, dialTasks>> /\ Once(dialReplies', DialReplies)
        /\ \A r \in ToSet(dialReplies') : r \in ToSet(dialReplies)
      BY <1>24 DEF GetsChunk, Takes, DialInv, CompletionInv
  <2> QED BY <1>24, <2>1, AnswerSpares, CompletionSpared
<1>25. ASSUME NEW f \in Fetches, GetsUnit(f) PROVE CompletionInv'
    BY <1>25, QueuesTyped, ItemsTyped, CallTyped, StreamTyped, CompletionTyped,
       AboutCalls, ReplyTyped
       DEF Takes, Puts, DialInv, UntouchedInv, CompletionInv, Completes, Untouched,
           Busy, WorkerInv, PageShape, NetShape, WorkerRecord, GetsUnit, dialNetVars,
           dialPipeVars, streamVars
<1>26. ASSUME NEW f \in Fetches, NEW op \in {"End", "Error"}, GetsEnd(f, op) PROVE CompletionInv'
  <2>1. /\ UNCHANGED <<channel, dialTasks>> /\ Once(dialReplies', DialReplies)
        /\ \A r \in ToSet(dialReplies') : r \in ToSet(dialReplies)
      BY <1>26 DEF GetsEnd, Takes, DialInv, CompletionInv
  <2> QED BY <1>26, <2>1, AnswerSpares, CompletionSpared
<1>27. ASSUME NEW f \in Fetches, WorkerMoves(f) PROVE CompletionInv'
  <2>1. Once(dialReplies', DialReplies)
      BY <1>27, DialSpares DEF DialInv, CompletionInv
  <2> QED BY <1>27, <2>1, DialSpares, CompletionSpared
<1>28. ASSUME NEW f \in Fetches, Streamed(f) PROVE CompletionInv'
    BY <1>28, QueuesTyped, ItemsTyped, CallTyped, StreamTyped, CompletionTyped,
       AboutCalls, ReplyTyped
       DEF Takes, Puts, DialInv, UntouchedInv, CompletionInv, Completes, Untouched,
           Busy, WorkerInv, PageShape, NetShape, WorkerRecord, Streamed, Undisturbed,
           dialRendererVars
<1>29. ASSUME NEW f \in Fetches, Answers(f) PROVE CompletionInv'
    BY <1>29, QueuesTyped, ItemsTyped, CallTyped, StreamTyped, CompletionTyped,
       AboutCalls, ReplyTyped
       DEF Takes, Puts, DialInv, UntouchedInv, CompletionInv, Completes, Untouched,
           Busy, WorkerInv, PageShape, NetShape, WorkerRecord, Answers,
           dialRendererVars, streamVars
<1>30. ASSUME NEW s \in Streams, BodyChunk(s) PROVE CompletionInv'
    BY <1>30, QueuesTyped, ItemsTyped, CallTyped, StreamTyped, CompletionTyped,
       AboutCalls, ReplyTyped
       DEF Takes, Puts, DialInv, UntouchedInv, CompletionInv, Completes, Untouched,
           Busy, WorkerInv, PageShape, NetShape, WorkerRecord, BodyChunk, SendDial,
           Undisturbed, dialRendererVars
<1>31. ASSUME NEW s \in Streams, BodyDone(s) PROVE CompletionInv'
    BY <1>31, QueuesTyped, ItemsTyped, CallTyped, StreamTyped, CompletionTyped,
       AboutCalls, ReplyTyped
       DEF Takes, Puts, DialInv, UntouchedInv, CompletionInv, Completes, Untouched,
           Busy, WorkerInv, PageShape, NetShape, WorkerRecord, BodyDone, Undisturbed,
           dialRendererVars
<1>32. ASSUME NEW s \in Streams, BodyEnds(s) PROVE CompletionInv'
    BY <1>32, QueuesTyped, ItemsTyped, CallTyped, StreamTyped, CompletionTyped,
       AboutCalls, ReplyTyped
       DEF Takes, Puts, DialInv, UntouchedInv, CompletionInv, Completes, Untouched,
           Busy, WorkerInv, PageShape, NetShape, WorkerRecord, BodyEnds, BodyOver,
           SendDial, Undisturbed, dialRendererVars
<1>33. ASSUME NEW s \in Streams, BodyFails(s) PROVE CompletionInv'
    BY <1>33, QueuesTyped, ItemsTyped, CallTyped, StreamTyped, CompletionTyped,
       AboutCalls, ReplyTyped
       DEF Takes, Puts, DialInv, UntouchedInv, CompletionInv, Completes, Untouched,
           Busy, WorkerInv, PageShape, NetShape, WorkerRecord, BodyFails, BodyOver,
           SendDial, Undisturbed, dialRendererVars
<1> QED
    BY <1>1, <1>2, <1>3, <1>4, <1>5, <1>6, <1>7, <1>8, <1>9, <1>10, <1>11, <1>12, <1>13,
       <1>14, <1>15, <1>16, <1>17, <1>18, <1>19, <1>20, <1>21, <1>22, <1>23, <1>24,
       <1>25, <1>26, <1>27, <1>28, <1>29, <1>30, <1>31, <1>32, <1>33 DEF DialStep

(* The calls about a stream, while the thread runs and while it sleeps in another call. *)
LEMMA NotAboutStream ==
  ASSUME DialInv, threadBlocked \notin StreamCalls
  PROVE  /\ \A c \in ToSet(calls) : c \notin StreamCalls
         /\ reading = NoStream /\ NoAnswer
<1>1. \A c \in ToSet(calls) : c \notin StreamCalls
    BY DEF DialInv, BlockInv
<1>2. reading = NoStream
    BY QueuesTyped, CallTyped DEF DialInv, BlockInv, CallShape, OptionalStream
<1>3. NoAnswer
    BY DEF DialInv, BlockInv, NoAnswer, Busy, About
<1> QED BY <1>1, <1>2, <1>3

LEMMA NoSyncPage ==
  ASSUME DialInv, \A f \in Fetches : threadBlocked # <<"Dial", f>>
  PROVE  \A f \in Fetches : dialPage[f] # "sync"
BY DEF DialInv, BlockInv

LEMMA BlockFrame ==
  ASSUME DialInv, UNCHANGED <<threadBlocked, reading, dialReplies>>,
         \A f \in Fetches : dialPage'[f] = "sync" => dialPage[f] = "sync",
         \A c \in ToSet(calls') : c \in StreamCalls => c \in ToSet(calls),
         Once(calls, StreamCalls) => Once(calls', StreamCalls)
  PROVE  BlockInv'
BY DEF DialInv, BlockInv, NoAnswer, Busy

LEMMA BlockCalled ==
  ASSUME DialInv, threadBlocked = <<>>, NEW c \in StreamCalls, threadBlocked' = c, Puts(calls, calls', c),
         UNCHANGED <<reading, dialReplies>>, \A f \in Fetches : dialPage'[f] # "sync"
  PROVE  BlockInv'
<1>1. /\ \A d \in ToSet(calls) : d \notin StreamCalls
      /\ reading = NoStream /\ NoAnswer
    BY NotAboutStream, CallTyped
<1>2. \A d \in ToSet(calls') : d \in StreamCalls => d = c
    BY <1>1 DEF Puts
<1>3. Once(calls', StreamCalls)
    BY <1>1 DEF Puts, DialInv, BlockInv
<1>4. Once(dialReplies, StreamReplies)
    BY DEF DialInv, BlockInv
<1> QED BY <1>1, <1>2, <1>3, <1>4 DEF BlockInv, NoAnswer

(* The call of the thread is taken out of the queue, and answered. *)
LEMMA CallTaken ==
  ASSUME DialInv, NEW s \in Streams, NEW op \in {"CancelStream", "DialRead"},
         Takes(calls, calls', <<op, s>>)
  PROVE  /\ threadBlocked = <<op, s>> /\ reading = NoStream /\ NoAnswer
         /\ \A c \in ToSet(calls') : c \notin StreamCalls
         /\ Once(calls', StreamCalls)
<1>1. <<op, s>> \in ToSet(calls) /\ <<op, s>> \in StreamCalls
    BY CallTyped DEF Takes
<1>2. threadBlocked = <<op, s>> /\ reading = NoStream /\ NoAnswer
    BY <1>1 DEF DialInv, BlockInv
<1>3. Once(calls', StreamCalls) /\ <<op, s>> \notin ToSet(calls')
    BY <1>1 DEF Takes, DialInv, BlockInv
<1>4. \A c \in ToSet(calls') : c \in StreamCalls => c = <<op, s>>
    BY <1>2 DEF Takes, DialInv, BlockInv
<1> QED BY <1>2, <1>3, <1>4

LEMMA StreamRead ==
  ASSUME DialInv, NEW s \in Streams, reading = s
  PROVE  /\ threadBlocked = <<"DialRead", s>> /\ NoAnswer
         /\ \A c \in ToSet(calls) : c \notin StreamCalls
         /\ Once(calls, StreamCalls)
BY StreamTyped DEF DialInv, BlockInv

LEMMA BlockAnswered ==
  ASSUME DialInv, NEW s \in Streams, NEW call \in {"CancelStream", "DialRead"},
         threadBlocked = <<call, s>>, NoAnswer,
         \A c \in ToSet(calls') : c \notin StreamCalls, Once(calls', StreamCalls),
         NEW op \in {"Unit", "Chunk", "End", "Error"}, Replies(s[1], op),
         op = "Unit" <=> call = "CancelStream", reading' = NoStream,
         UNCHANGED <<threadBlocked, dialPage>>
  PROVE  BlockInv'
<1>1. s[1] \in Fetches /\ Answer(s[1], op).op = op /\ Answer(s[1], op).fetch = s[1] /\ op # "Dial"
    BY StreamTyped, ReplyTyped
<1>2. \A r \in ToSet(dialReplies') : r.op # "Dial" => r = Answer(s[1], op)
    BY DEF Replies, Puts, NoAnswer
<1>3. Answer(s[1], op) \notin ToSet(dialReplies)
    BY <1>1 DEF NoAnswer
<1>4. Once(dialReplies', StreamReplies)
    BY <1>3 DEF Replies, Puts, DialInv, BlockInv
<1>5. About(threadBlocked', s[1]) /\ threadBlocked'[1] = call
    BY AboutCalls
<1>6. \A r \in ToSet(dialReplies') : r.op # "Dial" =>
         /\ Busy(r.fetch)'
         /\ threadBlocked'[1] = "CancelStream" <=> r.op = "Unit"
         /\ \A q \in ToSet(dialReplies') : q.op # "Dial" => q = r
    BY <1>1, <1>2, <1>5 DEF Busy
<1> QED BY <1>4, <1>6 DEF DialInv, BlockInv

(* ... the one call about a stream, ... *)
LEMMA BlockStep ==
  ASSUME DialInv, DialStep
  PROVE  BlockInv'
<1>1. CASE Idles
    BY <1>1, QueuesTyped, ItemsTyped, CallTyped, StreamTyped, CompletionTyped,
       AboutCalls, ReplyTyped
       DEF Takes, Puts, DialInv, BlockInv, NoAnswer, Busy, CallShape, PageShape, Idles,
           dialNetVars, dialPipeVars, streamVars
<1>2. ASSUME NEW f \in Fetches, Files(f) PROVE BlockInv'
    BY <1>2, QueuesTyped, ItemsTyped, CallTyped, StreamTyped, CompletionTyped,
       AboutCalls, ReplyTyped
       DEF Takes, Puts, DialInv, BlockInv, NoAnswer, Busy, CallShape, PageShape, Files,
           dialNetVars, dialPipeVars, streamVars
<1>3. ASSUME NEW f \in Fetches, Drops(f) PROVE BlockInv'
  <2>1. <<"CancelDial", f>> \notin StreamCalls
      BY CallTyped
  <2>2. /\ \A c \in ToSet(calls') : c \in StreamCalls => c \in ToSet(calls)
        /\ Once(calls, StreamCalls) => Once(calls', StreamCalls)
      BY <1>3, <2>1 DEF Drops, Puts
  <2> QED BY <1>3, <2>2, BlockFrame DEF Drops
<1>4. ASSUME NEW f \in Fetches, Starts(f) PROVE BlockInv'
  <2>1. <<"Dial", f>> \notin StreamCalls
      BY CallTyped
  <2>2. /\ \A c \in ToSet(calls') : c \in StreamCalls => c \in ToSet(calls)
        /\ Once(calls, StreamCalls) => Once(calls', StreamCalls)
      BY <1>4, <2>1 DEF Starts, Puts
  <2> QED BY <1>4, <2>2, BlockFrame DEF Starts
<1>5. ASSUME NEW c \in Completions, Adopts(c) PROVE BlockInv'
    BY <1>5, QueuesTyped, ItemsTyped, CallTyped, StreamTyped, CompletionTyped,
       AboutCalls, ReplyTyped
       DEF Takes, Puts, DialInv, BlockInv, NoAnswer, Busy, CallShape, PageShape, Adopts,
           dialNetVars, dialPipeVars, streamVars
<1>6. ASSUME NEW c \in Completions, Abandons(c) PROVE BlockInv'
  <2>1. CancelsStream(c.out) /\ UNCHANGED <<reading, dialReplies>>
      BY <1>6 DEF Abandons
  <2>2. \A f \in Fetches : dialPage[f] # "sync"
      BY <2>1, NoSyncPage, CallTyped DEF CancelsStream
  <2>3. \A f \in Fetches : dialPage'[f] # "sync"
      BY <1>6, <2>2, QueuesTyped DEF Abandons, PageShape
  <2>4. CASE UNCHANGED <<threadBlocked, calls>>
      BY <2>1, <2>3, <2>4, BlockFrame
  <2>5. CASE /\ c.out \in Streams /\ threadBlocked' = <<"CancelStream", c.out>>
             /\ Puts(calls, calls', <<"CancelStream", c.out>>)
      BY <2>1, <2>3, <2>5, BlockCalled, CallTyped DEF CancelsStream
  <2> QED BY <2>1, <2>4, <2>5 DEF CancelsStream
<1>7. ASSUME NEW c \in Completions, Delivers(c) PROVE BlockInv'
    BY <1>7, QueuesTyped, ItemsTyped, CallTyped, StreamTyped, CompletionTyped,
       AboutCalls, ReplyTyped
       DEF Takes, Puts, DialInv, BlockInv, NoAnswer, Busy, CallShape, PageShape,
           Delivers, dialNetVars, dialPipeVars, streamVars
<1>8. ASSUME NEW c \in Completions, Refuses(c) PROVE BlockInv'
  <2>1. CancelsStream(c.out) /\ UNCHANGED <<reading, dialReplies>>
      BY <1>8 DEF Refuses
  <2>2. \A f \in Fetches : dialPage[f] # "sync"
      BY <2>1, NoSyncPage, CallTyped DEF CancelsStream
  <2>3. \A f \in Fetches : dialPage'[f] # "sync"
      BY <1>8, <2>2, QueuesTyped DEF Refuses, PageShape
  <2>4. CASE UNCHANGED <<threadBlocked, calls>>
      BY <2>1, <2>3, <2>4, BlockFrame
  <2>5. CASE /\ c.out \in Streams /\ threadBlocked' = <<"CancelStream", c.out>>
             /\ Puts(calls, calls', <<"CancelStream", c.out>>)
      BY <2>1, <2>3, <2>5, BlockCalled, CallTyped DEF CancelsStream
  <2> QED BY <2>1, <2>4, <2>5 DEF CancelsStream
<1>9. ASSUME NEW f \in Fetches, Asks(f, "new", "asked", "Fetch") PROVE BlockInv'
    BY <1>9, QueuesTyped, ItemsTyped, CallTyped, StreamTyped, CompletionTyped,
       AboutCalls, ReplyTyped
       DEF Takes, Puts, DialInv, BlockInv, NoAnswer, Busy, CallShape, PageShape, Asks,
           dialNetVars, dialPipeVars, streamVars
<1>10. ASSUME NEW f \in Fetches, Asks(f, "asked", "aborted", "AbortFetch") PROVE BlockInv'
    BY <1>10, QueuesTyped, ItemsTyped, CallTyped, StreamTyped, CompletionTyped,
       AboutCalls, ReplyTyped
       DEF Takes, Puts, DialInv, BlockInv, NoAnswer, Busy, CallShape, PageShape, Asks,
           dialNetVars, dialPipeVars, streamVars
<1>11. ASSUME NEW f \in Fetches, AsksSync(f) PROVE BlockInv'
    BY <1>11, QueuesTyped, ItemsTyped, CallTyped, StreamTyped, CompletionTyped,
       AboutCalls, ReplyTyped
       DEF Takes, Puts, DialInv, BlockInv, NoAnswer, Busy, CallShape, PageShape,
           AsksSync, dialNetVars, dialPipeVars, streamVars
<1>12. ASSUME NEW f \in Fetches, AsksChunk(f) PROVE BlockInv'
    BY <1>12, QueuesTyped, ItemsTyped, CallTyped, StreamTyped, CompletionTyped,
       AboutCalls, ReplyTyped
       DEF Takes, Puts, DialInv, BlockInv, NoAnswer, Busy, CallShape, PageShape,
           AsksChunk, dialNetVars, dialPipeVars, streamVars
<1>13. ASSUME NEW f \in Fetches, LetsGo(f) PROVE BlockInv'
    BY <1>13, QueuesTyped, ItemsTyped, CallTyped, StreamTyped, CompletionTyped,
       AboutCalls, ReplyTyped
       DEF Takes, Puts, DialInv, BlockInv, NoAnswer, Busy, CallShape, PageShape, LetsGo,
           dialNetVars, dialPipeVars, streamVars
<1>14. CASE Replaced
  <2>1. \A c \in {"CancelDial"} \X Fetches : c \notin StreamCalls
      BY DEF StreamCalls
  <2>2. /\ \A c \in ToSet(calls') : c \in StreamCalls => c \in ToSet(calls)
        /\ Once(calls, StreamCalls) => Once(calls', StreamCalls)
        /\ \A f \in Fetches : dialPage'[f] = "sync" => dialPage[f] = "sync"
      BY <1>14, <2>1 DEF Replaced
  <2> QED BY <1>14, <2>2, BlockFrame DEF Replaced
<1>15. ASSUME NEW f \in Fetches, ServesDial(f) PROVE BlockInv'
    BY <1>15, QueuesTyped, ItemsTyped, CallTyped, StreamTyped, CompletionTyped,
       AboutCalls, ReplyTyped
       DEF Takes, Puts, DialInv, BlockInv, NoAnswer, Busy, CallShape, PageShape,
           ServesDial, streamVars
<1>16. ASSUME NEW f \in Fetches, ServesCancel(f) PROVE BlockInv'
    BY <1>16, QueuesTyped, ItemsTyped, CallTyped, StreamTyped, CompletionTyped,
       AboutCalls, ReplyTyped
       DEF Takes, Puts, DialInv, BlockInv, NoAnswer, Busy, CallShape, PageShape,
           ServesCancel, streamVars
<1>17. ASSUME NEW s \in Streams, ServesStream(s) PROVE BlockInv'
  <2>1. Takes(calls, calls', <<"CancelStream", s>>) /\ Replies(s[1], "Unit")
      BY <1>17 DEF ServesStream
  <2>2. /\ threadBlocked = <<"CancelStream", s>> /\ reading = NoStream /\ NoAnswer
        /\ \A c \in ToSet(calls') : c \notin StreamCalls
        /\ Once(calls', StreamCalls)
      BY <2>1, CallTaken
  <2>3. UNCHANGED <<threadBlocked, dialPage, reading>>
      BY <1>17 DEF ServesStream
  <2> QED BY <2>1, <2>2, <2>3, BlockAnswered
<1>18. ASSUME NEW s \in Streams, ServesRead(s) PROVE BlockInv'
  <2>1. /\ threadBlocked = <<"DialRead", s>> /\ NoAnswer
        /\ \A c \in ToSet(calls') : c \notin StreamCalls
        /\ Once(calls', StreamCalls)
      BY <1>18, CallTaken DEF ServesRead
  <2>2. UNCHANGED <<threadBlocked, dialPage, dialReplies>> /\ reading' = s
      BY <1>18 DEF ServesRead
  <2> QED BY <2>1, <2>2 DEF DialInv, BlockInv, NoAnswer, Busy
<1>19. ASSUME NEW s \in Streams, ServesGone(s) PROVE BlockInv'
  <2>1. Takes(calls, calls', <<"DialRead", s>>) /\ Replies(s[1], "End")
      BY <1>19 DEF ServesGone
  <2>2. /\ threadBlocked = <<"DialRead", s>> /\ reading = NoStream /\ NoAnswer
        /\ \A c \in ToSet(calls') : c \notin StreamCalls
        /\ Once(calls', StreamCalls)
      BY <2>1, CallTaken
  <2>3. UNCHANGED <<threadBlocked, dialPage, reading>>
      BY <1>19 DEF ServesGone
  <2> QED BY <2>1, <2>2, <2>3, BlockAnswered
<1>20. ASSUME NEW s \in Streams, ReadsChunk(s) PROVE BlockInv'
  <2>1. /\ threadBlocked = <<"DialRead", s>> /\ NoAnswer
        /\ \A c \in ToSet(calls) : c \notin StreamCalls
        /\ Once(calls, StreamCalls)
      BY <1>20, StreamRead DEF ReadsChunk
  <2>2. /\ UNCHANGED <<threadBlocked, dialPage, calls>> /\ reading' = NoStream
        /\ Replies(s[1], "Chunk")
      BY <1>20 DEF ReadsChunk
  <2>3. /\ \A c \in ToSet(calls') : c \notin StreamCalls
        /\ Once(calls', StreamCalls)
      BY <2>1, <2>2
  <2> QED BY <2>1, <2>2, <2>3, BlockAnswered
<1>21. ASSUME NEW s \in Streams, NEW op \in {"End", "Error"}, ReadsEnd(s, op) PROVE BlockInv'
  <2>1. /\ threadBlocked = <<"DialRead", s>> /\ NoAnswer
        /\ \A c \in ToSet(calls) : c \notin StreamCalls
        /\ Once(calls, StreamCalls)
      BY <1>21, StreamRead DEF ReadsEnd
  <2>2. /\ UNCHANGED <<threadBlocked, dialPage, calls>> /\ reading' = NoStream
        /\ Replies(s[1], op)
      BY <1>21 DEF ReadsEnd
  <2>3. /\ \A c \in ToSet(calls') : c \notin StreamCalls
        /\ Once(calls', StreamCalls)
      BY <2>1, <2>2
  <2> QED BY <2>1, <2>2, <2>3, BlockAnswered
<1>22. ASSUME NEW r \in DialReplies, Completed(r) PROVE BlockInv'
    BY <1>22, QueuesTyped, ItemsTyped, CallTyped, StreamTyped, CompletionTyped,
       AboutCalls, ReplyTyped
       DEF Takes, Puts, DialInv, BlockInv, NoAnswer, Busy, CallShape, PageShape,
           Completed, dialNetVars, dialPipeVars, streamVars
<1>23. ASSUME NEW r \in DialReplies, CompletedSync(r) PROVE BlockInv'
  <2>1. r.fetch \in Fetches /\ dialPage[r.fetch] = "sync" /\ threadBlocked = <<"Dial", r.fetch>>
      BY <1>23, ReplyTyped DEF CompletedSync, DialInv, BlockInv
  <2>2. /\ \A c \in ToSet(calls) : c \notin StreamCalls
        /\ reading = NoStream /\ NoAnswer
      BY <2>1, NotAboutStream, CallTyped
  <2>3. \A f \in Fetches \ {r.fetch} : dialPage[f] # "sync"
      BY <2>1 DEF DialInv, BlockInv
  <2>4. \A f \in Fetches : dialPage'[f] # "sync"
      BY <1>23, <2>1, <2>3, QueuesTyped DEF CompletedSync, PageShape
  <2>5. /\ Once(dialReplies', StreamReplies) /\ Once(calls, StreamCalls)
        /\ \A q \in ToSet(dialReplies') : q.op = "Dial"
      BY <1>23, <2>2 DEF CompletedSync, Takes, NoAnswer, DialInv, BlockInv
  <2>6. UNCHANGED <<calls, reading>>
      BY <1>23 DEF CompletedSync
  <2> QED BY <2>2, <2>4, <2>5, <2>6 DEF BlockInv
<1>24. ASSUME NEW f \in Fetches, GetsChunk(f) PROVE BlockInv'
    BY <1>24, QueuesTyped, ItemsTyped, CallTyped, StreamTyped, CompletionTyped,
       AboutCalls, ReplyTyped
       DEF Takes, Puts, DialInv, BlockInv, NoAnswer, Busy, CallShape, PageShape,
           GetsChunk, dialNetVars, dialPipeVars, streamVars
<1>25. ASSUME NEW f \in Fetches, GetsUnit(f) PROVE BlockInv'
    BY <1>25, QueuesTyped, ItemsTyped, CallTyped, StreamTyped, CompletionTyped,
       AboutCalls, ReplyTyped
       DEF Takes, Puts, DialInv, BlockInv, NoAnswer, Busy, CallShape, PageShape,
           GetsUnit, dialNetVars, dialPipeVars, streamVars
<1>26. ASSUME NEW f \in Fetches, NEW op \in {"End", "Error"}, GetsEnd(f, op) PROVE BlockInv'
    BY <1>26, QueuesTyped, ItemsTyped, CallTyped, StreamTyped, CompletionTyped,
       AboutCalls, ReplyTyped
       DEF Takes, Puts, DialInv, BlockInv, NoAnswer, Busy, CallShape, PageShape,
           GetsEnd, dialNetVars, dialPipeVars, streamVars
<1>27. ASSUME NEW f \in Fetches, WorkerMoves(f) PROVE BlockInv'
    BY <1>27, QueuesTyped, ItemsTyped, CallTyped, StreamTyped, CompletionTyped,
       AboutCalls, ReplyTyped
       DEF Takes, Puts, DialInv, BlockInv, NoAnswer, Busy, CallShape, PageShape,
           WorkerMoves, dialRendererVars, streamVars
<1>28. ASSUME NEW f \in Fetches, Streamed(f) PROVE BlockInv'
    BY <1>28, QueuesTyped, ItemsTyped, CallTyped, StreamTyped, CompletionTyped,
       AboutCalls, ReplyTyped
       DEF Takes, Puts, DialInv, BlockInv, NoAnswer, Busy, CallShape, PageShape,
           Streamed, Undisturbed, dialRendererVars
<1>29. ASSUME NEW f \in Fetches, Answers(f) PROVE BlockInv'
    BY <1>29, QueuesTyped, ItemsTyped, CallTyped, StreamTyped, CompletionTyped,
       AboutCalls, ReplyTyped
       DEF Takes, Puts, DialInv, BlockInv, NoAnswer, Busy, CallShape, PageShape,
           Answers, dialRendererVars, streamVars
<1>30. ASSUME NEW s \in Streams, BodyChunk(s) PROVE BlockInv'
    BY <1>30, QueuesTyped, ItemsTyped, CallTyped, StreamTyped, CompletionTyped,
       AboutCalls, ReplyTyped
       DEF Takes, Puts, DialInv, BlockInv, NoAnswer, Busy, CallShape, PageShape,
           BodyChunk, SendDial, Undisturbed, dialRendererVars
<1>31. ASSUME NEW s \in Streams, BodyDone(s) PROVE BlockInv'
    BY <1>31, QueuesTyped, ItemsTyped, CallTyped, StreamTyped, CompletionTyped,
       AboutCalls, ReplyTyped
       DEF Takes, Puts, DialInv, BlockInv, NoAnswer, Busy, CallShape, PageShape,
           BodyDone, Undisturbed, dialRendererVars
<1>32. ASSUME NEW s \in Streams, BodyEnds(s) PROVE BlockInv'
    BY <1>32, QueuesTyped, ItemsTyped, CallTyped, StreamTyped, CompletionTyped,
       AboutCalls, ReplyTyped
       DEF Takes, Puts, DialInv, BlockInv, NoAnswer, Busy, CallShape, PageShape,
           BodyEnds, BodyOver, SendDial, Undisturbed, dialRendererVars
<1>33. ASSUME NEW s \in Streams, BodyFails(s) PROVE BlockInv'
    BY <1>33, QueuesTyped, ItemsTyped, CallTyped, StreamTyped, CompletionTyped,
       AboutCalls, ReplyTyped
       DEF Takes, Puts, DialInv, BlockInv, NoAnswer, Busy, CallShape, PageShape,
           BodyFails, BodyOver, SendDial, Undisturbed, dialRendererVars
<1> QED
    BY <1>1, <1>2, <1>3, <1>4, <1>5, <1>6, <1>7, <1>8, <1>9, <1>10, <1>11, <1>12, <1>13,
       <1>14, <1>15, <1>16, <1>17, <1>18, <1>19, <1>20, <1>21, <1>22, <1>23, <1>24,
       <1>25, <1>26, <1>27, <1>28, <1>29, <1>30, <1>31, <1>32, <1>33 DEF DialStep

(* The streams of one fetch. *)
LEMMA StreamOfFetch ==
  ASSUME DialInv
  PROVE  /\ \A s \in table : s \in Streams /\ s[1] \in Fetches /\ worker[s[1]].out = s
         /\ \A s \in Streams, f \in Fetches : worker[f].out = s => s[1] = f
         /\ \A f \in Fetches : Untouched(f) => ~ Ended(f) /\ Answer(f, "Chunk") \notin ToSet(dialReplies)
<1>1. \A s \in table : s \in Streams /\ s[1] \in Fetches /\ worker[s[1]].out = s
    BY QueuesTyped, StreamTyped DEF NetShape, DialInv, StreamInv, StreamOK
<1>2. \A s \in Streams, f \in Fetches : worker[f].out = s => s[1] = f
    BY StreamTyped DEF DialInv, WorkerInv
<1>3. \A f \in Fetches : Untouched(f) => ~ Ended(f) /\ Answer(f, "Chunk") \notin ToSet(dialReplies)
    BY Touched DEF Ended
<1> QED BY <1>1, <1>2, <1>3

(* A stream that is asked for a chunk is held, and there. *)
LEMMA AskedStreamOpen ==
  ASSUME DialInv, NEW s \in Streams, threadBlocked = <<"DialRead", s>>
  PROVE  /\ worker[s[1]].out = s /\ dialPage[s[1]] = "open" /\ s[1] \in Fetches
         /\ NoAnswer => s \in table /\ ~ Ended(s[1])
<1>1. worker[s[1]].out = s /\ dialPage[s[1]] = "open" /\ s[1] \in Fetches
    BY StreamTyped DEF DialInv, OpenInv, Held
<1>2. ASSUME NoAnswer PROVE ~ Ended(s[1])
    BY <1>1, <1>2, ReplyTyped DEF NoAnswer, Ended
<1>3. ASSUME NoAnswer PROVE s \in table
    BY <1>1, <1>2, <1>3 DEF DialInv, OpenInv, OpenOK, Held
<1> QED BY <1>1, <1>2, <1>3

LEMMA NoServesGone ==
  ASSUME DialInv, NEW s \in Streams
  PROVE  ~ ServesGone(s)
BY CallTaken, AskedStreamOpen DEF ServesGone

LEMMA OpenSame ==
  ASSUME NEW f \in Fetches, OpenOK(f), dialPage'[f] = "open" => dialPage[f] = "open",
         got[f].end # "no" => dialPage'[f] = dialPage[f],
         got'[f].end = got[f].end, worker'[f].out = worker[f].out,
         worker[f].out \in table' <=> worker[f].out \in table, Ended(f)' <=> Ended(f)
  PROVE  OpenOK(f)'
BY DEF OpenOK, Held

LEMMA SleepSame ==
  ASSUME DialInv, UNCHANGED threadBlocked,
         \A f \in Fetches : dialPage[f] = "open" /\ Busy(f) =>
            dialPage'[f] = "open" /\ worker'[f].out = worker[f].out,
         \A f \in Fetches : dialPage'[f] = "open" /\ Busy(f) => dialPage[f] = "open"
  PROVE  \A s \in Streams :
            /\ threadBlocked' = <<"DialRead", s>> => dialPage'[s[1]] = "open" /\ worker'[s[1]].out = s
            /\ threadBlocked' = <<"CancelStream", s>> => dialPage'[s[1]] # "open"
<1> SUFFICES ASSUME NEW s \in Streams
             PROVE  /\ threadBlocked = <<"DialRead", s>> => dialPage'[s[1]] = "open" /\ worker'[s[1]].out = s
                    /\ threadBlocked = <<"CancelStream", s>> => dialPage'[s[1]] # "open"
    OBVIOUS
<1>1. s[1] \in Fetches
    BY StreamTyped
<1>2. ASSUME threadBlocked = <<"DialRead", s>>
      PROVE  dialPage'[s[1]] = "open" /\ worker'[s[1]].out = s
  <2>1. Busy(s[1])
      BY <1>2, AboutCalls DEF Busy
  <2> QED BY <1>1, <1>2, <2>1 DEF DialInv, OpenInv, Held
<1>3. ASSUME threadBlocked = <<"CancelStream", s>> PROVE dialPage'[s[1]] # "open"
  <2>1. Busy(s[1])
      BY <1>3, AboutCalls DEF Busy
  <2> QED BY <1>1, <1>3, <2>1 DEF DialInv, OpenInv
<1> QED BY <1>2, <1>3

(* ... the stream of an open response, ... *)
LEMMA OpenStep ==
  ASSUME DialInv, DialStep
  PROVE  OpenInv'
<1>1. CASE Idles
    BY <1>1, QueuesTyped, ItemsTyped, CallTyped, StreamTyped, CompletionTyped,
       AboutCalls, ReplyTyped
       DEF Takes, Puts, DialInv, OpenInv, OpenOK, Ended, Held, BlockInv, NoAnswer, Busy,
           PageShape, NetShape, WorkerRecord, Idles, dialNetVars, dialPipeVars,
           streamVars
<1>2. ASSUME NEW f \in Fetches, Files(f) PROVE OpenInv'
    BY <1>2, QueuesTyped, ItemsTyped, CallTyped, StreamTyped, CompletionTyped,
       AboutCalls, ReplyTyped
       DEF Takes, Puts, DialInv, OpenInv, OpenOK, Ended, Held, BlockInv, NoAnswer, Busy,
           PageShape, NetShape, WorkerRecord, Files, dialNetVars, dialPipeVars,
           streamVars
<1>3. ASSUME NEW f \in Fetches, Drops(f) PROVE OpenInv'
    BY <1>3, QueuesTyped, ItemsTyped, CallTyped, StreamTyped, CompletionTyped,
       AboutCalls, ReplyTyped
       DEF Takes, Puts, DialInv, OpenInv, OpenOK, Ended, Held, BlockInv, NoAnswer, Busy,
           PageShape, NetShape, WorkerRecord, Drops, dialNetVars, dialPipeVars,
           streamVars
<1>4. ASSUME NEW f \in Fetches, Starts(f) PROVE OpenInv'
    BY <1>4, QueuesTyped, ItemsTyped, CallTyped, StreamTyped, CompletionTyped,
       AboutCalls, ReplyTyped
       DEF Takes, Puts, DialInv, OpenInv, OpenOK, Ended, Held, BlockInv, NoAnswer, Busy,
           PageShape, NetShape, WorkerRecord, Starts, dialNetVars, dialPipeVars,
           streamVars
<1>5. ASSUME NEW c \in Completions, Adopts(c) PROVE OpenInv'
    BY <1>5, QueuesTyped, ItemsTyped, CallTyped, StreamTyped, CompletionTyped,
       AboutCalls, ReplyTyped
       DEF Takes, Puts, DialInv, OpenInv, OpenOK, Ended, Held, BlockInv, NoAnswer, Busy,
           PageShape, NetShape, WorkerRecord, Adopts, dialNetVars, dialPipeVars,
           streamVars
<1>6. ASSUME NEW c \in Completions, Abandons(c) PROVE OpenInv'
  <2>1. /\ UNCHANGED <<worker, table, got, dialReplies>> /\ CancelsStream(c.out)
        /\ c.fetch \in Fetches /\ c \in ToSet(channel) \cup ToSet(dialTasks)
      BY <1>6, CompletionTyped DEF Abandons, Takes, dialNetVars, streamVars
  <2>2. /\ \A f \in Fetches : dialPage'[f] = "open" => dialPage[f] = "open"
        /\ \A f \in Fetches : dialPage[f] # "asked" => dialPage'[f] = dialPage[f]
      BY <1>6, <2>1, QueuesTyped DEF Abandons, PageShape
  <2>3. \A f \in Fetches : got[f].end # "no" => dialPage[f] # "asked"
      BY DEF DialInv, OpenInv, OpenOK
  <2>4. \A f \in Fetches : Ended(f)' <=> Ended(f)
      BY <2>1 DEF Ended
  <2>5. \A f \in Fetches : OpenOK(f)'
    <3> SUFFICES ASSUME NEW f \in Fetches PROVE OpenOK(f)'
        OBVIOUS
    <3> QED BY <2>1, <2>2, <2>3, <2>4, OpenSame DEF DialInv, OpenInv
  <2>6. ASSUME NEW s \in Streams
        PROVE  /\ threadBlocked' = <<"DialRead", s>> => FALSE
               /\ threadBlocked' = <<"CancelStream", s>> => dialPage'[s[1]] # "open"
    <3>1. threadBlocked' = <<>> \/ threadBlocked' = <<"CancelStream", c.out>>
        BY <2>1 DEF CancelsStream
    <3>2. threadBlocked' # <<"DialRead", s>>
        BY <3>1
    <3>3. ASSUME threadBlocked' = <<"CancelStream", s>> PROVE dialPage'[s[1]] # "open"
      <4>1. s = c.out
          BY <3>1, <3>3
      <4>2. worker[c.fetch].out = s /\ Untouched(c.fetch)
          BY <2>1, <4>1 DEF DialInv, CompletionInv, Completes
      <4>3. s[1] = c.fetch
          BY <2>1, <4>2, StreamOfFetch
      <4> QED BY <2>1, <2>2, <4>2, <4>3 DEF Untouched
    <3> QED BY <3>2, <3>3
  <2> QED BY <2>5, <2>6 DEF OpenInv
<1>7. ASSUME NEW c \in Completions, Delivers(c) PROVE OpenInv'
  <2>1. /\ UNCHANGED <<worker, table, got, dialReplies, threadBlocked>>
        /\ c.fetch \in Fetches /\ c \in ToSet(dialTasks)
      BY <1>7, CompletionTyped DEF Delivers, Takes, dialNetVars, dialPipeVars, streamVars
  <2>2. worker[c.fetch].out = c.out /\ Untouched(c.fetch) /\ ~ Ended(c.fetch)
      BY <2>1, StreamOfFetch DEF DialInv, CompletionInv, Completes
  <2>3. /\ dialPage'[c.fetch] = "open" => c.out # NoStream
        /\ \A f \in Fetches \ {c.fetch} : dialPage'[f] = dialPage[f]
        /\ dialPage[c.fetch] = "asked"
      BY <1>7, <2>1, QueuesTyped DEF Delivers, PageShape
  <2>4. \A f \in Fetches : Ended(f)' <=> Ended(f)
      BY <2>1 DEF Ended
  <2>5. OpenOK(c.fetch)'
      BY <2>1, <2>2, <2>3, <2>4 DEF OpenOK, Held, Untouched
  <2>6. ASSUME NEW f \in Fetches \ {c.fetch} PROVE OpenOK(f)'
      BY <2>1, <2>3, <2>4, OpenSame DEF DialInv, OpenInv
  <2>9. \A t \in Streams :
           /\ threadBlocked' = <<"DialRead", t>> => dialPage'[t[1]] = "open" /\ worker'[t[1]].out = t
           /\ threadBlocked' = <<"CancelStream", t>> => dialPage'[t[1]] # "open"
      BY <2>1, <2>2, <2>3, SleepSame DEF Untouched
  <2> QED BY <2>5, <2>6, <2>9 DEF OpenInv, Held
<1>8. ASSUME NEW c \in Completions, Refuses(c) PROVE OpenInv'
  <2>1. /\ UNCHANGED <<worker, table, got, dialReplies>> /\ CancelsStream(c.out)
        /\ c.fetch \in Fetches /\ c \in ToSet(channel) \cup ToSet(dialTasks)
      BY <1>8, CompletionTyped DEF Refuses, Takes, dialNetVars, streamVars
  <2>2. /\ \A f \in Fetches : dialPage'[f] = "open" => dialPage[f] = "open"
        /\ \A f \in Fetches : dialPage[f] # "asked" => dialPage'[f] = dialPage[f]
      BY <1>8, <2>1, QueuesTyped DEF Refuses, PageShape
  <2>3. \A f \in Fetches : got[f].end # "no" => dialPage[f] # "asked"
      BY DEF DialInv, OpenInv, OpenOK
  <2>4. \A f \in Fetches : Ended(f)' <=> Ended(f)
      BY <2>1 DEF Ended
  <2>5. \A f \in Fetches : OpenOK(f)'
    <3> SUFFICES ASSUME NEW f \in Fetches PROVE OpenOK(f)'
        OBVIOUS
    <3> QED BY <2>1, <2>2, <2>3, <2>4, OpenSame DEF DialInv, OpenInv
  <2>6. ASSUME NEW s \in Streams
        PROVE  /\ threadBlocked' = <<"DialRead", s>> => FALSE
               /\ threadBlocked' = <<"CancelStream", s>> => dialPage'[s[1]] # "open"
    <3>1. threadBlocked' = <<>> \/ threadBlocked' = <<"CancelStream", c.out>>
        BY <2>1 DEF CancelsStream
    <3>2. threadBlocked' # <<"DialRead", s>>
        BY <3>1
    <3>3. ASSUME threadBlocked' = <<"CancelStream", s>> PROVE dialPage'[s[1]] # "open"
      <4>1. s = c.out
          BY <3>1, <3>3
      <4>2. worker[c.fetch].out = s /\ Untouched(c.fetch)
          BY <2>1, <4>1 DEF DialInv, CompletionInv, Completes
      <4>3. s[1] = c.fetch
          BY <2>1, <4>2, StreamOfFetch
      <4> QED BY <2>1, <2>2, <4>2, <4>3 DEF Untouched
    <3> QED BY <3>2, <3>3
  <2> QED BY <2>5, <2>6 DEF OpenInv
<1>9. ASSUME NEW f \in Fetches, Asks(f, "new", "asked", "Fetch") PROVE OpenInv'
    BY <1>9, QueuesTyped, ItemsTyped, CallTyped, StreamTyped, CompletionTyped,
       AboutCalls, ReplyTyped
       DEF Takes, Puts, DialInv, OpenInv, OpenOK, Ended, Held, BlockInv, NoAnswer, Busy,
           PageShape, NetShape, WorkerRecord, Asks, dialNetVars, dialPipeVars,
           streamVars
<1>10. ASSUME NEW f \in Fetches, Asks(f, "asked", "aborted", "AbortFetch") PROVE OpenInv'
    BY <1>10, QueuesTyped, ItemsTyped, CallTyped, StreamTyped, CompletionTyped,
       AboutCalls, ReplyTyped
       DEF Takes, Puts, DialInv, OpenInv, OpenOK, Ended, Held, BlockInv, NoAnswer, Busy,
           PageShape, NetShape, WorkerRecord, Asks, dialNetVars, dialPipeVars,
           streamVars
<1>11. ASSUME NEW f \in Fetches, AsksSync(f) PROVE OpenInv'
    BY <1>11, QueuesTyped, ItemsTyped, CallTyped, StreamTyped, CompletionTyped,
       AboutCalls, ReplyTyped
       DEF Takes, Puts, DialInv, OpenInv, OpenOK, Ended, Held, BlockInv, NoAnswer, Busy,
           PageShape, NetShape, WorkerRecord, AsksSync, dialNetVars, dialPipeVars,
           streamVars
<1>12. ASSUME NEW f \in Fetches, AsksChunk(f) PROVE OpenInv'
  <2>1. /\ UNCHANGED <<worker, table, got, dialReplies>> /\ threadBlocked' = <<"DialRead", worker[f].out>>
        /\ dialPage[f] = "open"
      BY <1>12 DEF AsksChunk, dialNetVars, streamVars
  <2>2. \A g \in Fetches : Ended(g)' <=> Ended(g)
      BY <2>1 DEF Ended
  <2>3. /\ dialPage'[f] = "open"
        /\ \A g \in Fetches \ {f} : dialPage'[g] = dialPage[g]
      BY <1>12, QueuesTyped DEF AsksChunk, PageShape
  <2>4. got[f].end = "no"
      BY <2>1 DEF DialInv, OpenInv, OpenOK
  <2>5. ASSUME NEW g \in Fetches PROVE OpenOK(g)'
      BY <2>1, <2>2, <2>3, <2>4, OpenSame DEF DialInv, OpenInv
  <2>6. worker[f].out \in Streams /\ worker[f].out[1] = f
      BY <2>1, QueuesTyped, StreamOfFetch
  <2>9. \A t \in Streams :
           /\ threadBlocked' = <<"DialRead", t>> => dialPage'[t[1]] = "open" /\ worker'[t[1]].out = t
           /\ threadBlocked' = <<"CancelStream", t>> => dialPage'[t[1]] # "open"
      BY <2>1, <2>3, <2>6
  <2> QED BY <2>5, <2>9 DEF OpenInv, Held
<1>13. ASSUME NEW f \in Fetches, LetsGo(f) PROVE OpenInv'
  <2>1. /\ UNCHANGED <<worker, table, got, dialReplies>> /\ threadBlocked' = <<"CancelStream", worker[f].out>>
        /\ dialPage[f] = "open"
      BY <1>13 DEF LetsGo, dialNetVars, streamVars
  <2>2. \A g \in Fetches : Ended(g)' <=> Ended(g)
      BY <2>1 DEF Ended
  <2>3. /\ dialPage'[f] = "settled"
        /\ \A g \in Fetches \ {f} : dialPage'[g] = dialPage[g]
      BY <1>13, QueuesTyped DEF LetsGo, PageShape
  <2>4. got[f].end = "no"
      BY <2>1 DEF DialInv, OpenInv, OpenOK
  <2>5. ASSUME NEW g \in Fetches PROVE OpenOK(g)'
      BY <2>1, <2>2, <2>3, <2>4, OpenSame DEF DialInv, OpenInv
  <2>6. worker[f].out \in Streams /\ worker[f].out[1] = f
      BY <2>1, QueuesTyped, StreamOfFetch
  <2>9. \A t \in Streams :
           /\ threadBlocked' = <<"DialRead", t>> => dialPage'[t[1]] = "open" /\ worker'[t[1]].out = t
           /\ threadBlocked' = <<"CancelStream", t>> => dialPage'[t[1]] # "open"
      BY <2>1, <2>3, <2>6
  <2> QED BY <2>5, <2>9 DEF OpenInv, Held
<1>14. CASE Replaced
    BY <1>14, QueuesTyped, ItemsTyped, CallTyped, StreamTyped, CompletionTyped,
       AboutCalls, ReplyTyped
       DEF Takes, Puts, DialInv, OpenInv, OpenOK, Ended, Held, BlockInv, NoAnswer, Busy,
           PageShape, NetShape, WorkerRecord, Replaced, dialNetVars, dialPipeVars,
           streamVars
<1>15. ASSUME NEW f \in Fetches, ServesDial(f) PROVE OpenInv'
    BY <1>15, QueuesTyped, ItemsTyped, CallTyped, StreamTyped, CompletionTyped,
       AboutCalls, ReplyTyped
       DEF Takes, Puts, DialInv, OpenInv, OpenOK, Ended, Held, BlockInv, NoAnswer, Busy,
           PageShape, NetShape, WorkerRecord, ServesDial, streamVars
<1>16. ASSUME NEW f \in Fetches, ServesCancel(f) PROVE OpenInv'
    BY <1>16, QueuesTyped, ItemsTyped, CallTyped, StreamTyped, CompletionTyped,
       AboutCalls, ReplyTyped
       DEF Takes, Puts, DialInv, OpenInv, OpenOK, Ended, Held, BlockInv, NoAnswer, Busy,
           PageShape, NetShape, WorkerRecord, ServesCancel, streamVars
<1>17. ASSUME NEW s \in Streams, ServesStream(s) PROVE OpenInv'
  <2>1. /\ table' = table \ {s} /\ UNCHANGED <<worker, got, dialPage, threadBlocked>>
        /\ threadBlocked = <<"CancelStream", s>>
      BY <1>17, CallTaken DEF ServesStream, Closes
  <2>2. dialPage[s[1]] # "open" /\ s[1] \in Fetches
      BY <2>1, StreamTyped DEF DialInv, OpenInv
  <2>3. \A f \in Fetches : Ended(f)' <=> Ended(f)
      BY <1>17, <2>2, ReplyTyped DEF ServesStream, Replies, Puts, Ended
  <2>4. OpenOK(s[1])'
      BY <2>1, <2>2, <2>3 DEF DialInv, OpenInv, OpenOK, Held
  <2>5. ASSUME NEW f \in Fetches \ {s[1]} PROVE OpenOK(f)'
    <3>1. worker[f].out \in table' <=> worker[f].out \in table
        BY <2>1, StreamOfFetch
    <3> QED BY <2>1, <2>3, <3>1, OpenSame DEF DialInv, OpenInv
  <2>9. \A t \in Streams :
           /\ threadBlocked' = <<"DialRead", t>> => dialPage'[t[1]] = "open" /\ worker'[t[1]].out = t
           /\ threadBlocked' = <<"CancelStream", t>> => dialPage'[t[1]] # "open"
      BY <2>1, SleepSame
  <2> QED BY <2>4, <2>5, <2>9 DEF OpenInv, Held
<1>18. ASSUME NEW s \in Streams, ServesRead(s) PROVE OpenInv'
    BY <1>18, QueuesTyped, ItemsTyped, CallTyped, StreamTyped, CompletionTyped,
       AboutCalls, ReplyTyped
       DEF Takes, Puts, DialInv, OpenInv, OpenOK, Ended, Held, BlockInv, NoAnswer, Busy,
           PageShape, NetShape, WorkerRecord, ServesRead, dialNetVars, dialPipeVars,
           streamVars
<1>19. ASSUME NEW s \in Streams, ServesGone(s) PROVE OpenInv'
    BY <1>19, NoServesGone
<1>20. ASSUME NEW s \in Streams, ReadsChunk(s) PROVE OpenInv'
    BY <1>20, QueuesTyped, ItemsTyped, CallTyped, StreamTyped, CompletionTyped,
       AboutCalls, ReplyTyped
       DEF Takes, Puts, DialInv, OpenInv, OpenOK, Ended, Held, BlockInv, NoAnswer, Busy,
           PageShape, NetShape, WorkerRecord, ReadsChunk, Replies
<1>21. ASSUME NEW s \in Streams, NEW op \in {"End", "Error"}, ReadsEnd(s, op) PROVE OpenInv'
  <2>1. /\ table' = table \ {s} /\ UNCHANGED <<worker, got, dialPage, threadBlocked>>
        /\ worker[s[1]].out = s /\ s[1] \in Fetches
      BY <1>21, StreamRead, AskedStreamOpen DEF ReadsEnd, Closes
  <2>2. Ended(s[1])' /\ \A f \in Fetches \ {s[1]} : Ended(f)' <=> Ended(f)
      BY <1>21, <2>1, ReplyTyped DEF ReadsEnd, Replies, Puts, Ended
  <2>3. OpenOK(s[1])'
      BY <2>1, <2>2 DEF DialInv, OpenInv, OpenOK, Held
  <2>4. ASSUME NEW f \in Fetches \ {s[1]} PROVE OpenOK(f)'
    <3>1. worker[f].out \in table' <=> worker[f].out \in table
        BY <2>1, StreamOfFetch
    <3> QED BY <2>1, <2>2, <3>1, OpenSame DEF DialInv, OpenInv
  <2>9. \A t \in Streams :
           /\ threadBlocked' = <<"DialRead", t>> => dialPage'[t[1]] = "open" /\ worker'[t[1]].out = t
           /\ threadBlocked' = <<"CancelStream", t>> => dialPage'[t[1]] # "open"
      BY <2>1, SleepSame
  <2> QED BY <2>3, <2>4, <2>9 DEF OpenInv, Held
<1>22. ASSUME NEW r \in DialReplies, Completed(r) PROVE OpenInv'
    BY <1>22, QueuesTyped, ItemsTyped, CallTyped, StreamTyped, CompletionTyped,
       AboutCalls, ReplyTyped
       DEF Takes, Puts, DialInv, OpenInv, OpenOK, Ended, Held, BlockInv, NoAnswer, Busy,
           PageShape, NetShape, WorkerRecord, Completed, dialNetVars, dialPipeVars,
           streamVars
<1>23. ASSUME NEW r \in DialReplies, CompletedSync(r) PROVE OpenInv'
    BY <1>23, QueuesTyped, ItemsTyped, CallTyped, StreamTyped, CompletionTyped,
       AboutCalls, ReplyTyped
       DEF Takes, Puts, DialInv, OpenInv, OpenOK, Ended, Held, BlockInv, NoAnswer, Busy,
           PageShape, NetShape, WorkerRecord, CompletedSync, dialNetVars, dialPipeVars,
           streamVars
<1>24. ASSUME NEW f \in Fetches, GetsChunk(f) PROVE OpenInv'
    BY <1>24, QueuesTyped, ItemsTyped, CallTyped, StreamTyped, CompletionTyped,
       AboutCalls, ReplyTyped
       DEF Takes, Puts, DialInv, OpenInv, OpenOK, Ended, Held, BlockInv, NoAnswer, Busy,
           PageShape, NetShape, WorkerRecord, GetsChunk, dialNetVars, dialPipeVars,
           streamVars
<1>25. ASSUME NEW f \in Fetches, GetsUnit(f) PROVE OpenInv'
    BY <1>25, QueuesTyped, ItemsTyped, CallTyped, StreamTyped, CompletionTyped,
       AboutCalls, ReplyTyped
       DEF Takes, Puts, DialInv, OpenInv, OpenOK, Ended, Held, BlockInv, NoAnswer, Busy,
           PageShape, NetShape, WorkerRecord, GetsUnit, dialNetVars, dialPipeVars,
           streamVars
<1>26. ASSUME NEW f \in Fetches, NEW op \in {"End", "Error"}, GetsEnd(f, op) PROVE OpenInv'
    BY <1>26, QueuesTyped, ItemsTyped, CallTyped, StreamTyped, CompletionTyped,
       AboutCalls, ReplyTyped
       DEF Takes, Puts, DialInv, OpenInv, OpenOK, Ended, Held, BlockInv, NoAnswer, Busy,
           PageShape, NetShape, WorkerRecord, GetsEnd, dialNetVars, dialPipeVars,
           streamVars
<1>27. ASSUME NEW f \in Fetches, WorkerMoves(f) PROVE OpenInv'
  <2>1. UNCHANGED <<dialPage, got, threadBlocked, table, dialReplies>>
      BY <1>27 DEF WorkerMoves, dialRendererVars, streamVars
  <2>2. \A g \in Fetches : worker'[g].out = worker[g].out
      BY <1>27 DEF WorkerMoves
  <2>3. \A g \in Fetches : Ended(g)' <=> Ended(g)
      BY <2>1 DEF Ended
  <2>4. ASSUME NEW g \in Fetches PROVE OpenOK(g)'
      BY <2>1, <2>2, <2>3, OpenSame DEF DialInv, OpenInv
  <2>9. \A t \in Streams :
           /\ threadBlocked' = <<"DialRead", t>> => dialPage'[t[1]] = "open" /\ worker'[t[1]].out = t
           /\ threadBlocked' = <<"CancelStream", t>> => dialPage'[t[1]] # "open"
      BY <2>1, <2>2, SleepSame
  <2> QED BY <2>4, <2>9 DEF OpenInv, Held
<1>28. ASSUME NEW f \in Fetches, Streamed(f) PROVE OpenInv'
  <2>1. /\ UNCHANGED <<dialPage, got, threadBlocked, dialReplies>>
        /\ table' = table \cup {<<f, worker[f].attempt>>} /\ worker[f].at = "send"
      BY <1>28 DEF Streamed, Undisturbed, dialRendererVars
  <2>2. Untouched(f) /\ ~ Ended(f)
      BY <2>1, StreamOfFetch DEF DialInv, UntouchedInv
  <2>3. \A g \in Fetches \ {f} : worker'[g] = worker[g]
      BY <1>28, QueuesTyped DEF Streamed, NetShape
  <2>4. \A g \in Fetches : Ended(g)' <=> Ended(g)
      BY <2>1 DEF Ended
  <2>5. OpenOK(f)'
      BY <2>1, <2>2, <2>4 DEF OpenOK, Untouched
  <2>6. <<f, worker[f].attempt>> \in Streams /\ <<f, worker[f].attempt>>[1] = f
      BY QueuesTyped, StreamTyped DEF WorkerRecord
  <2>7. ASSUME NEW g \in Fetches \ {f} PROVE OpenOK(g)'
    <3>1. worker[g].out \in table' <=> worker[g].out \in table
        BY <2>1, <2>6, StreamOfFetch
    <3> QED BY <2>1, <2>3, <2>4, <3>1, OpenSame DEF DialInv, OpenInv
  <2>9. \A t \in Streams :
           /\ threadBlocked' = <<"DialRead", t>> => dialPage'[t[1]] = "open" /\ worker'[t[1]].out = t
           /\ threadBlocked' = <<"CancelStream", t>> => dialPage'[t[1]] # "open"
      BY <2>1, <2>2, <2>3, SleepSame DEF Untouched
  <2> QED BY <2>5, <2>7, <2>9 DEF OpenInv, Held
<1>29. ASSUME NEW f \in Fetches, Answers(f) PROVE OpenInv'
    BY <1>29, QueuesTyped, ItemsTyped, CallTyped, StreamTyped, CompletionTyped,
       AboutCalls, ReplyTyped
       DEF Takes, Puts, DialInv, OpenInv, OpenOK, Ended, Held, BlockInv, NoAnswer, Busy,
           PageShape, NetShape, WorkerRecord, Answers, dialRendererVars, streamVars
<1>30. ASSUME NEW s \in Streams, BodyChunk(s) PROVE OpenInv'
    BY <1>30, QueuesTyped, ItemsTyped, CallTyped, StreamTyped, CompletionTyped,
       AboutCalls, ReplyTyped
       DEF Takes, Puts, DialInv, OpenInv, OpenOK, Ended, Held, BlockInv, NoAnswer, Busy,
           PageShape, NetShape, WorkerRecord, BodyChunk, SendDial, Undisturbed,
           dialRendererVars
<1>31. ASSUME NEW s \in Streams, BodyDone(s) PROVE OpenInv'
    BY <1>31, QueuesTyped, ItemsTyped, CallTyped, StreamTyped, CompletionTyped,
       AboutCalls, ReplyTyped
       DEF Takes, Puts, DialInv, OpenInv, OpenOK, Ended, Held, BlockInv, NoAnswer, Busy,
           PageShape, NetShape, WorkerRecord, BodyDone, Undisturbed, dialRendererVars
<1>32. ASSUME NEW s \in Streams, BodyEnds(s) PROVE OpenInv'
    BY <1>32, QueuesTyped, ItemsTyped, CallTyped, StreamTyped, CompletionTyped,
       AboutCalls, ReplyTyped
       DEF Takes, Puts, DialInv, OpenInv, OpenOK, Ended, Held, BlockInv, NoAnswer, Busy,
           PageShape, NetShape, WorkerRecord, BodyEnds, BodyOver, SendDial, Undisturbed,
           dialRendererVars
<1>33. ASSUME NEW s \in Streams, BodyFails(s) PROVE OpenInv'
    BY <1>33, QueuesTyped, ItemsTyped, CallTyped, StreamTyped, CompletionTyped,
       AboutCalls, ReplyTyped
       DEF Takes, Puts, DialInv, OpenInv, OpenOK, Ended, Held, BlockInv, NoAnswer, Busy,
           PageShape, NetShape, WorkerRecord, BodyFails, BodyOver, SendDial,
           Undisturbed, dialRendererVars
<1> QED
    BY <1>1, <1>2, <1>3, <1>4, <1>5, <1>6, <1>7, <1>8, <1>9, <1>10, <1>11, <1>12, <1>13,
       <1>14, <1>15, <1>16, <1>17, <1>18, <1>19, <1>20, <1>21, <1>22, <1>23, <1>24,
       <1>25, <1>26, <1>27, <1>28, <1>29, <1>30, <1>31, <1>32, <1>33 DEF DialStep

LEMMA FetchCounted ==
  ASSUME NEW f \in Fetches, FetchCount(f), got'[f].chunks = got[f].chunks,
         Answer(f, "Chunk") \in ToSet(dialReplies') <=> Answer(f, "Chunk") \in ToSet(dialReplies),
         Answer(f, "End") \in ToSet(dialReplies') => Answer(f, "End") \in ToSet(dialReplies)
  PROVE  FetchCount(f)'
BY DEF FetchCount, Pending

LEMMA StreamCounted ==
  ASSUME NEW s \in Streams, StreamCount(s), got'[s[1]].chunks = got[s[1]].chunks,
         Answer(s[1], "Chunk") \in ToSet(dialReplies') <=> Answer(s[1], "Chunk") \in ToSet(dialReplies),
         netBody'[s] = netBody[s], buffer'[s] = buffer[s]
  PROVE  StreamCount(s)'
BY DEF StreamCount, Pending, Queued

LEMMA CountTyped ==
  ASSUME DialInv
  PROVE  /\ BodyLength \in Nat
         /\ \A f \in Fetches : got[f].chunks \in Nat /\ Pending(f) \in {0, 1}
         /\ \A s \in Streams : netBody[s].read \in 0..BodyLength /\ Len(buffer[s]) \in Nat
<1>1. BodyLength \in Nat
    BY DialAssumption DEF DialAssumption
<1>2. \A f \in Fetches : got[f].chunks \in Nat
    BY QueuesTyped DEF PageShape, GotRecord
<1>3. \A s \in Streams : netBody[s].read \in 0..BodyLength /\ buffer[s] \in Seq(Messages)
    BY QueuesTyped DEF NetShape, BodyRecord
<1>4. \A s \in Streams : Len(buffer[s]) \in Nat
    BY <1>3
<1>5. \A f \in Fetches : Pending(f) \in {0, 1}
    BY DEF Pending
<1> QED BY <1>1, <1>2, <1>3, <1>4, <1>5

(* ... the count of the chunks, ... *)
LEMMA CountStep ==
  ASSUME DialInv, DialStep
  PROVE  CountInv'
<1>1. CASE Idles
    BY <1>1, QueuesTyped, ItemsTyped, CallTyped, StreamTyped, CompletionTyped,
       AboutCalls, ReplyTyped
       DEF Takes, Puts, DialInv, CountInv, FetchCount, StreamCount, Pending, Queued,
           WholeBodies, PageShape, NetShape, WorkerRecord, BodyRecord, GotRecord, Idles,
           dialNetVars, dialPipeVars, streamVars
<1>2. ASSUME NEW f \in Fetches, Files(f) PROVE CountInv'
    BY <1>2, QueuesTyped, ItemsTyped, CallTyped, StreamTyped, CompletionTyped,
       AboutCalls, ReplyTyped
       DEF Takes, Puts, DialInv, CountInv, FetchCount, StreamCount, Pending, Queued,
           WholeBodies, PageShape, NetShape, WorkerRecord, BodyRecord, GotRecord, Files,
           dialNetVars, dialPipeVars, streamVars
<1>3. ASSUME NEW f \in Fetches, Drops(f) PROVE CountInv'
    BY <1>3, QueuesTyped, ItemsTyped, CallTyped, StreamTyped, CompletionTyped,
       AboutCalls, ReplyTyped
       DEF Takes, Puts, DialInv, CountInv, FetchCount, StreamCount, Pending, Queued,
           WholeBodies, PageShape, NetShape, WorkerRecord, BodyRecord, GotRecord, Drops,
           dialNetVars, dialPipeVars, streamVars
<1>4. ASSUME NEW f \in Fetches, Starts(f) PROVE CountInv'
    BY <1>4, QueuesTyped, ItemsTyped, CallTyped, StreamTyped, CompletionTyped,
       AboutCalls, ReplyTyped
       DEF Takes, Puts, DialInv, CountInv, FetchCount, StreamCount, Pending, Queued,
           WholeBodies, PageShape, NetShape, WorkerRecord, BodyRecord, GotRecord,
           Starts, dialNetVars, dialPipeVars, streamVars
<1>5. ASSUME NEW c \in Completions, Adopts(c) PROVE CountInv'
    BY <1>5, QueuesTyped, ItemsTyped, CallTyped, StreamTyped, CompletionTyped,
       AboutCalls, ReplyTyped
       DEF Takes, Puts, DialInv, CountInv, FetchCount, StreamCount, Pending, Queued,
           WholeBodies, PageShape, NetShape, WorkerRecord, BodyRecord, GotRecord,
           Adopts, dialNetVars, dialPipeVars, streamVars
<1>6. ASSUME NEW c \in Completions, Abandons(c) PROVE CountInv'
    BY <1>6, QueuesTyped, ItemsTyped, CallTyped, StreamTyped, CompletionTyped,
       AboutCalls, ReplyTyped
       DEF Takes, Puts, DialInv, CountInv, FetchCount, StreamCount, Pending, Queued,
           WholeBodies, PageShape, NetShape, WorkerRecord, BodyRecord, GotRecord,
           Abandons, CancelsStream, dialNetVars, dialPipeVars, streamVars
<1>7. ASSUME NEW c \in Completions, Delivers(c) PROVE CountInv'
    BY <1>7, QueuesTyped, ItemsTyped, CallTyped, StreamTyped, CompletionTyped,
       AboutCalls, ReplyTyped
       DEF Takes, Puts, DialInv, CountInv, FetchCount, StreamCount, Pending, Queued,
           WholeBodies, PageShape, NetShape, WorkerRecord, BodyRecord, GotRecord,
           Delivers, dialNetVars, dialPipeVars, streamVars
<1>8. ASSUME NEW c \in Completions, Refuses(c) PROVE CountInv'
    BY <1>8, QueuesTyped, ItemsTyped, CallTyped, StreamTyped, CompletionTyped,
       AboutCalls, ReplyTyped
       DEF Takes, Puts, DialInv, CountInv, FetchCount, StreamCount, Pending, Queued,
           WholeBodies, PageShape, NetShape, WorkerRecord, BodyRecord, GotRecord,
           Refuses, CancelsStream, dialNetVars, dialPipeVars, streamVars
<1>9. ASSUME NEW f \in Fetches, Asks(f, "new", "asked", "Fetch") PROVE CountInv'
    BY <1>9, QueuesTyped, ItemsTyped, CallTyped, StreamTyped, CompletionTyped,
       AboutCalls, ReplyTyped
       DEF Takes, Puts, DialInv, CountInv, FetchCount, StreamCount, Pending, Queued,
           WholeBodies, PageShape, NetShape, WorkerRecord, BodyRecord, GotRecord, Asks,
           dialNetVars, dialPipeVars, streamVars
<1>10. ASSUME NEW f \in Fetches, Asks(f, "asked", "aborted", "AbortFetch") PROVE CountInv'
    BY <1>10, QueuesTyped, ItemsTyped, CallTyped, StreamTyped, CompletionTyped,
       AboutCalls, ReplyTyped
       DEF Takes, Puts, DialInv, CountInv, FetchCount, StreamCount, Pending, Queued,
           WholeBodies, PageShape, NetShape, WorkerRecord, BodyRecord, GotRecord, Asks,
           dialNetVars, dialPipeVars, streamVars
<1>11. ASSUME NEW f \in Fetches, AsksSync(f) PROVE CountInv'
    BY <1>11, QueuesTyped, ItemsTyped, CallTyped, StreamTyped, CompletionTyped,
       AboutCalls, ReplyTyped
       DEF Takes, Puts, DialInv, CountInv, FetchCount, StreamCount, Pending, Queued,
           WholeBodies, PageShape, NetShape, WorkerRecord, BodyRecord, GotRecord,
           AsksSync, dialNetVars, dialPipeVars, streamVars
<1>12. ASSUME NEW f \in Fetches, AsksChunk(f) PROVE CountInv'
    BY <1>12, QueuesTyped, ItemsTyped, CallTyped, StreamTyped, CompletionTyped,
       AboutCalls, ReplyTyped
       DEF Takes, Puts, DialInv, CountInv, FetchCount, StreamCount, Pending, Queued,
           WholeBodies, PageShape, NetShape, WorkerRecord, BodyRecord, GotRecord,
           AsksChunk, dialNetVars, dialPipeVars, streamVars
<1>13. ASSUME NEW f \in Fetches, LetsGo(f) PROVE CountInv'
    BY <1>13, QueuesTyped, ItemsTyped, CallTyped, StreamTyped, CompletionTyped,
       AboutCalls, ReplyTyped
       DEF Takes, Puts, DialInv, CountInv, FetchCount, StreamCount, Pending, Queued,
           WholeBodies, PageShape, NetShape, WorkerRecord, BodyRecord, GotRecord,
           LetsGo, dialNetVars, dialPipeVars, streamVars
<1>14. CASE Replaced
    BY <1>14, QueuesTyped, ItemsTyped, CallTyped, StreamTyped, CompletionTyped,
       AboutCalls, ReplyTyped
       DEF Takes, Puts, DialInv, CountInv, FetchCount, StreamCount, Pending, Queued,
           WholeBodies, PageShape, NetShape, WorkerRecord, BodyRecord, GotRecord,
           Replaced, dialNetVars, dialPipeVars, streamVars
<1>15. ASSUME NEW f \in Fetches, ServesDial(f) PROVE CountInv'
    BY <1>15, QueuesTyped, ItemsTyped, CallTyped, StreamTyped, CompletionTyped,
       AboutCalls, ReplyTyped
       DEF Takes, Puts, DialInv, CountInv, FetchCount, StreamCount, Pending, Queued,
           WholeBodies, PageShape, NetShape, WorkerRecord, BodyRecord, GotRecord,
           ServesDial, streamVars
<1>16. ASSUME NEW f \in Fetches, ServesCancel(f) PROVE CountInv'
    BY <1>16, QueuesTyped, ItemsTyped, CallTyped, StreamTyped, CompletionTyped,
       AboutCalls, ReplyTyped
       DEF Takes, Puts, DialInv, CountInv, FetchCount, StreamCount, Pending, Queued,
           WholeBodies, PageShape, NetShape, WorkerRecord, BodyRecord, GotRecord,
           ServesCancel, streamVars
<1>17. ASSUME NEW s \in Streams, ServesStream(s) PROVE CountInv'
    BY <1>17, QueuesTyped, ItemsTyped, CallTyped, StreamTyped, CompletionTyped,
       AboutCalls, ReplyTyped
       DEF Takes, Puts, DialInv, CountInv, FetchCount, StreamCount, Pending, Queued,
           WholeBodies, PageShape, NetShape, WorkerRecord, BodyRecord, GotRecord,
           ServesStream, Closes, Holding, Replies
<1>18. ASSUME NEW s \in Streams, ServesRead(s) PROVE CountInv'
    BY <1>18, QueuesTyped, ItemsTyped, CallTyped, StreamTyped, CompletionTyped,
       AboutCalls, ReplyTyped
       DEF Takes, Puts, DialInv, CountInv, FetchCount, StreamCount, Pending, Queued,
           WholeBodies, PageShape, NetShape, WorkerRecord, BodyRecord, GotRecord,
           ServesRead, dialNetVars, dialPipeVars, streamVars
<1>19. ASSUME NEW s \in Streams, ServesGone(s) PROVE CountInv'
    BY <1>19, NoServesGone
<1>20. ASSUME NEW s \in Streams, ReadsChunk(s) PROVE CountInv'
  <2>1. UNCHANGED <<got, table, netBody, cache>> /\ Replies(s[1], "Chunk")
      BY <1>20 DEF ReadsChunk
  <2>2. /\ threadBlocked = <<"DialRead", s>> /\ NoAnswer /\ worker[s[1]].out = s
        /\ s[1] \in Fetches /\ s \in table
      BY <1>20, StreamRead, AskedStreamOpen DEF ReadsChunk
  <2>3. /\ Answer(s[1], "Chunk") \in ToSet(dialReplies')
        /\ \A f \in Fetches, op \in {"Chunk", "End"} : Answer(f, op) \notin ToSet(dialReplies)
        /\ \A f \in Fetches : Answer(f, "End") \notin ToSet(dialReplies')
        /\ \A f \in Fetches \ {s[1]} : Answer(f, "Chunk") \notin ToSet(dialReplies')
      BY <2>1, <2>2, ReplyTyped DEF Replies, Puts, NoAnswer
  <2>4. /\ Len(buffer'[s]) = Len(buffer[s]) - 1 /\ Len(buffer[s]) \in Nat
        /\ \A t \in Streams \ {s} : buffer'[t] = buffer[t]
    <3>1. /\ buffer[s] \in Seq(Messages) /\ buffer[s] # <<>> /\ buffer'[s] = Tail(buffer[s])
          /\ \A t \in Streams \ {s} : buffer'[t] = buffer[t]
        BY <1>20, QueuesTyped DEF ReadsChunk, NetShape
    <3> QED BY <3>1
  <2>5. Pending(s[1]) = 0 /\ Pending(s[1])' = 1
      BY <2>2, <2>3 DEF Pending
  <2>6. StreamCount(s) /\ got[s[1]].chunks \in Nat /\ netBody[s].read \in 0..BodyLength /\ BodyLength \in Nat
      BY <2>2, CountTyped DEF DialInv, CountInv
  <2>7. Queued(s)' = Queued(s) - 1 /\ Queued(s) \in Int
      BY <2>1, <2>4 DEF Queued
  <2>8. StreamCount(s)'
      BY <2>1, <2>5, <2>6, <2>7 DEF StreamCount
  <2>9. Queued(s) >= 1
    <3>1. StreamOK(s) /\ buffer[s] \in Seq(Messages) /\ buffer[s] # <<>> /\ buffer[s][1] = "Chunk"
        BY <1>20, QueuesTyped DEF DialInv, StreamInv, ReadsChunk, NetShape
    <3>2. Len(buffer[s]) >= 1
        BY <3>1
    <3>3. ASSUME netBody[s].at = "over", Len(buffer[s]) = 1 PROVE FALSE
        BY <2>2, <3>1, <3>3 DEF StreamOK
    <3>4. \A n \in Nat : n >= 1 /\ n # 1 => n - 1 >= 1
        OBVIOUS
    <3> QED BY <2>4, <3>2, <3>3, <3>4 DEF Queued
  <2>10. FetchCount(s[1])'
    <3>1. got[s[1]].chunks + 0 + Queued(s) = netBody[s].read
        BY <2>5, <2>6 DEF StreamCount
    <3>2. \A g \in Nat, q \in Int, r \in 0..BodyLength : q >= 1 /\ g + 0 + q = r => g + 1 <= BodyLength
        BY <2>6
    <3>3. got[s[1]].chunks + 1 <= BodyLength
        BY <2>6, <2>7, <2>9, <3>1, <3>2
    <3>4. got'[s[1]].chunks + Pending(s[1])' <= BodyLength
        BY <2>1, <2>5, <3>3
    <3> QED BY <2>2, <2>3, <3>4 DEF FetchCount
  <2>11. \A f \in Fetches \ {s[1]} : FetchCount(f)'
      BY <2>1, <2>3, FetchCounted DEF DialInv, CountInv
  <2>12. \A t \in table \ {s} : StreamCount(t)'
    <3>1. \A t \in table \ {s} : t \in Streams /\ t[1] \in Fetches /\ t[1] # s[1]
        BY <2>2, StreamOfFetch
    <3> QED BY <2>1, <2>3, <2>4, <3>1, StreamCounted DEF DialInv, CountInv
  <2> QED BY <2>1, <2>8, <2>10, <2>11, <2>12 DEF DialInv, CountInv, WholeBodies
<1>21. ASSUME NEW s \in Streams, NEW op \in {"End", "Error"}, ReadsEnd(s, op) PROVE CountInv'
  <2>1. UNCHANGED <<got, cache>> /\ Replies(s[1], op) /\ table' = table \ {s}
      BY <1>21 DEF ReadsEnd, Closes
  <2>2. /\ threadBlocked = <<"DialRead", s>> /\ NoAnswer /\ worker[s[1]].out = s
        /\ s[1] \in Fetches /\ s \in table
      BY <1>21, StreamRead, AskedStreamOpen DEF ReadsEnd
  <2>3. /\ \A f \in Fetches : Answer(f, "Chunk") \notin ToSet(dialReplies)
        /\ \A f \in Fetches : Answer(f, "Chunk") \notin ToSet(dialReplies')
        /\ \A f \in Fetches \ {s[1]} : Answer(f, "End") \notin ToSet(dialReplies')
        /\ Answer(s[1], "End") \in ToSet(dialReplies') => op = "End"
      BY <2>1, <2>2, ReplyTyped DEF Replies, Puts, NoAnswer
  <2>4. \A t \in Streams \ {s} : buffer'[t] = buffer[t] /\ netBody'[t] = netBody[t]
      BY <1>21, QueuesTyped DEF ReadsEnd, Closes, NetShape
  <2>5. StreamOK(s) /\ buffer[s] \in Seq(Messages) /\ buffer[s] # <<>> /\ buffer[s][1] = op
    <3>1. StreamOK(s) /\ buffer[s] \in Seq(Messages)
        BY QueuesTyped DEF DialInv, StreamInv, NetShape
    <3>2. buffer[s] # <<>>
        BY <1>21, <2>2, <3>1 DEF StreamOK, ReadsEnd, Holding
    <3> QED BY <1>21, <3>1, <3>2 DEF ReadsEnd
  <2>6. 1 = Len(buffer[s]) /\ netBody[s].at = "over"
    <3>1. 1 \in 1..Len(buffer[s])
        BY <2>5
    <3> QED BY <2>5, <3>1 DEF StreamOK, ChunksFirst
  <2>7. Pending(s[1]) = 0 /\ Pending(s[1])' = 0 /\ Queued(s) = 0
      BY <2>2, <2>3, <2>6 DEF Pending, Queued
  <2>8. got[s[1]].chunks = netBody[s].read
    <3>1. StreamCount(s) /\ got[s[1]].chunks \in Nat
        BY <2>2, CountTyped DEF DialInv, CountInv
    <3> QED BY <2>7, <3>1 DEF StreamCount
  <2>9. op = "End" => netBody[s].read = BodyLength
      BY <2>2, <2>5, <2>6 DEF StreamOK
  <2>10. FetchCount(s[1])'
    <3>1. FetchCount(s[1])
        BY <2>2 DEF DialInv, CountInv
    <3> QED BY <2>1, <2>3, <2>7, <2>8, <2>9, <3>1 DEF FetchCount
  <2>11. \A f \in Fetches \ {s[1]} : FetchCount(f)'
      BY <2>1, <2>3, FetchCounted DEF DialInv, CountInv
  <2>12. \A t \in table' : StreamCount(t)'
      BY <2>1, <2>3, <2>4, StreamCounted, StreamOfFetch DEF DialInv, CountInv
  <2> QED BY <2>1, <2>10, <2>11, <2>12 DEF DialInv, CountInv, WholeBodies
<1>22. ASSUME NEW r \in DialReplies, Completed(r) PROVE CountInv'
  <2>1. UNCHANGED <<got, netBody, buffer, table, cache>>
      BY <1>22 DEF Completed, dialNetVars, streamVars
  <2>2. \A f \in Fetches, op \in {"Chunk", "End"} :
           Answer(f, op) \in ToSet(dialReplies') <=> Answer(f, op) \in ToSet(dialReplies)
      BY <1>22, ReplyTyped DEF Completed, Takes
  <2>3. \A f \in Fetches : FetchCount(f)'
      BY <2>1, <2>2, FetchCounted DEF DialInv, CountInv
  <2>4. \A s \in table : StreamCount(s)'
      BY <2>1, <2>2, StreamCounted, StreamOfFetch DEF DialInv, CountInv
  <2> QED BY <2>1, <2>3, <2>4 DEF DialInv, CountInv, WholeBodies
<1>23. ASSUME NEW r \in DialReplies, CompletedSync(r) PROVE CountInv'
    BY <1>23, QueuesTyped, ItemsTyped, CallTyped, StreamTyped, CompletionTyped,
       AboutCalls, ReplyTyped
       DEF Takes, Puts, DialInv, CountInv, FetchCount, StreamCount, Pending, Queued,
           WholeBodies, PageShape, NetShape, WorkerRecord, BodyRecord, GotRecord,
           CompletedSync, dialNetVars, dialPipeVars, streamVars
<1>24. ASSUME NEW f \in Fetches, GetsChunk(f) PROVE CountInv'
  <2>1. /\ UNCHANGED <<table, netBody, buffer, cache, dialPage>>
        /\ Takes(dialReplies, dialReplies', Answer(f, "Chunk"))
      BY <1>24 DEF GetsChunk, dialNetVars, streamVars
  <2>2. /\ got'[f].chunks = got[f].chunks + 1 /\ got'[f].end = got[f].end
        /\ \A g \in Fetches \ {f} : got'[g] = got[g]
      BY <1>24, QueuesTyped DEF GetsChunk, PageShape, GotRecord
  <2>3. Answer(f, "Chunk") \in ToSet(dialReplies) /\ Answer(f, "Chunk").op = "Chunk"
      BY <2>1, ReplyTyped DEF Takes
  <2>4. /\ Answer(f, "Chunk") \notin ToSet(dialReplies')
        /\ \A g \in Fetches : Answer(g, "End") \notin ToSet(dialReplies')
        /\ \A g \in Fetches : Answer(g, "Chunk") \in ToSet(dialReplies') => Answer(g, "Chunk") \in ToSet(dialReplies)
    <3>1. Answer(f, "Chunk") \in StreamReplies /\ Once(dialReplies, StreamReplies)
        BY ReplyTyped DEF DialInv, BlockInv
    <3>2. \A g \in Fetches : Answer(g, "End") \notin ToSet(dialReplies)
        BY <2>3, ReplyTyped DEF DialInv, BlockInv
    <3> QED BY <2>1, <3>1, <3>2 DEF Takes
  <2>5. \A g \in Fetches \ {f} : Answer(g, "Chunk") \notin ToSet(dialReplies)
      BY <2>3, ReplyTyped DEF DialInv, BlockInv
  <2>6. Pending(f) = 1 /\ Pending(f)' = 0
      BY <2>3, <2>4 DEF Pending
  <2>7. FetchCount(f)'
    <3>1. FetchCount(f) /\ got[f].chunks \in Nat /\ BodyLength \in Nat
        BY CountTyped DEF DialInv, CountInv
    <3> QED BY <2>2, <2>4, <2>6, <3>1 DEF FetchCount
  <2>8. \A g \in Fetches \ {f} : FetchCount(g)'
      BY <2>2, <2>4, <2>5, FetchCounted DEF DialInv, CountInv
  <2>9. ASSUME NEW t \in table PROVE StreamCount(t)'
    <3>1. t \in Streams /\ t[1] \in Fetches /\ StreamCount(t)
        BY StreamOfFetch DEF DialInv, CountInv
    <3>2. CASE t[1] # f
        BY <2>1, <2>2, <2>4, <2>5, <3>1, <3>2, StreamCounted
    <3>3. CASE t[1] = f
      <4>1. Queued(t)' = Queued(t) /\ Queued(t) \in Int /\ got[f].chunks \in Nat
          BY <2>1, <3>1, CountTyped DEF Queued
      <4> QED BY <2>1, <2>2, <2>6, <3>1, <3>3, <4>1 DEF StreamCount
    <3> QED BY <3>2, <3>3
  <2>10. got[f].end = "no"
    <3>1. Busy(f) /\ threadBlocked[1] # "CancelStream"
        BY <2>3, ReplyTyped DEF DialInv, BlockInv
    <3>2. PICK s \in Streams : threadBlocked = <<"CancelStream", s>> \/ threadBlocked = <<"DialRead", s>>
        BY <3>1, CallCases DEF Busy, About
    <3>3. threadBlocked = <<"DialRead", s>>
        BY <3>1, <3>2
    <3>4. s[1] = f
        BY <3>1, <3>3, AboutCalls DEF Busy
    <3> QED BY <3>3, <3>4, AskedStreamOpen DEF DialInv, OpenInv, OpenOK
  <2>11. WholeBodies'
      BY <2>1, <2>2, <2>10 DEF DialInv, CountInv, WholeBodies
  <2> QED BY <2>1, <2>7, <2>8, <2>9, <2>11 DEF CountInv
<1>25. ASSUME NEW f \in Fetches, GetsUnit(f) PROVE CountInv'
    BY <1>25, QueuesTyped, ItemsTyped, CallTyped, StreamTyped, CompletionTyped,
       AboutCalls, ReplyTyped
       DEF Takes, Puts, DialInv, CountInv, FetchCount, StreamCount, Pending, Queued,
           WholeBodies, PageShape, NetShape, WorkerRecord, BodyRecord, GotRecord,
           GetsUnit, dialNetVars, dialPipeVars, streamVars
<1>26. ASSUME NEW f \in Fetches, NEW op \in {"End", "Error"}, GetsEnd(f, op) PROVE CountInv'
    BY <1>26, QueuesTyped, ItemsTyped, CallTyped, StreamTyped, CompletionTyped,
       AboutCalls, ReplyTyped
       DEF Takes, Puts, DialInv, CountInv, FetchCount, StreamCount, Pending, Queued,
           WholeBodies, PageShape, NetShape, WorkerRecord, BodyRecord, GotRecord,
           GetsEnd, dialNetVars, dialPipeVars, streamVars
<1>27. ASSUME NEW f \in Fetches, WorkerMoves(f) PROVE CountInv'
    BY <1>27, QueuesTyped, ItemsTyped, CallTyped, StreamTyped, CompletionTyped,
       AboutCalls, ReplyTyped
       DEF Takes, Puts, DialInv, CountInv, FetchCount, StreamCount, Pending, Queued,
           WholeBodies, PageShape, NetShape, WorkerRecord, BodyRecord, GotRecord,
           WorkerMoves, dialRendererVars, streamVars
<1>28. ASSUME NEW f \in Fetches, Streamed(f) PROVE CountInv'
  <2>1. UNCHANGED <<got, dialReplies, buffer, cache>> /\ worker[f].at = "send"
      BY <1>28 DEF Streamed, Undisturbed, dialRendererVars
  <2>2. PICK s \in Streams : s = <<f, worker[f].attempt>> /\ s[1] = f
      BY QueuesTyped, StreamTyped DEF WorkerRecord
  <2>3. /\ table' = table \cup {s} /\ netBody'[s].at = "run" /\ netBody'[s].read = netBody[s].read
        /\ \A t \in Streams \ {s} : netBody'[t] = netBody[t]
      BY <1>28, <2>2, QueuesTyped DEF Streamed, NetShape, BodyRecord
  <2>4. worker[f].out = NoStream /\ StreamOK(s)
      BY <2>1, <2>2 DEF DialInv, WorkerInv, StreamInv
  <2>5. netBody[s].read = 0 /\ buffer[s] = <<>> /\ s \notin table
      BY <2>2, <2>4, StreamTyped DEF StreamOK
  <2>6. got[f].chunks = 0 /\ Answer(f, "Chunk") \notin ToSet(dialReplies)
      BY <2>1, StreamOfFetch DEF DialInv, UntouchedInv, Untouched
  <2>7. StreamCount(s)'
    <3>1. Pending(s[1])' = 0
        BY <2>1, <2>2, <2>6 DEF Pending
    <3>2. Queued(s)' = 0
        BY <2>1, <2>3, <2>5 DEF Queued
    <3> QED BY <2>1, <2>2, <2>3, <2>5, <2>6, <3>1, <3>2 DEF StreamCount
  <2>8. \A g \in Fetches : FetchCount(g)'
      BY <2>1, FetchCounted DEF DialInv, CountInv
  <2>9. \A t \in table' : StreamCount(t)'
      BY <2>1, <2>3, <2>7, StreamCounted, StreamOfFetch DEF DialInv, CountInv
  <2> QED BY <2>1, <2>8, <2>9 DEF DialInv, CountInv, WholeBodies
<1>29. ASSUME NEW f \in Fetches, Answers(f) PROVE CountInv'
    BY <1>29, QueuesTyped, ItemsTyped, CallTyped, StreamTyped, CompletionTyped,
       AboutCalls, ReplyTyped
       DEF Takes, Puts, DialInv, CountInv, FetchCount, StreamCount, Pending, Queued,
           WholeBodies, PageShape, NetShape, WorkerRecord, BodyRecord, GotRecord,
           Answers, dialRendererVars, streamVars
<1>30. ASSUME NEW s \in Streams, BodyChunk(s) PROVE CountInv'
  <2>1. UNCHANGED <<got, dialReplies, table, cache>>
      BY <1>30 DEF BodyChunk, Undisturbed, dialRendererVars
  <2>2. /\ netBody[s].at = "run" /\ netBody'[s].at = "run" /\ netBody'[s].read = netBody[s].read + 1
        /\ \A t \in Streams \ {s} : netBody'[t] = netBody[t] /\ buffer'[t] = buffer[t]
      BY <1>30, QueuesTyped DEF BodyChunk, SendDial, NetShape, BodyRecord
  <2>3. Len(buffer'[s]) = Len(buffer[s]) + 1
    <3>1. buffer[s] \in Seq(Messages) /\ buffer'[s] = Append(buffer[s], "Chunk")
        BY <1>30, QueuesTyped DEF BodyChunk, SendDial, NetShape
    <3> QED BY <3>1
  <2>4. s \in table
      BY <2>2 DEF DialInv, StreamInv, StreamOK
  <2>5. StreamCount(s)'
    <3>1. StreamCount(s) /\ Pending(s[1])' = Pending(s[1])
        BY <2>1, <2>4 DEF DialInv, CountInv, Pending
    <3>2. Queued(s)' = Queued(s) + 1 /\ Queued(s) \in Nat
        BY <2>2, <2>3, CountTyped DEF Queued
    <3>3. got[s[1]].chunks \in Nat /\ Pending(s[1]) \in Nat
        BY CountTyped, StreamTyped
    <3> QED BY <2>1, <2>2, <3>1, <3>2, <3>3 DEF StreamCount
  <2>6. \A f \in Fetches : FetchCount(f)'
      BY <2>1, FetchCounted DEF DialInv, CountInv
  <2>7. \A t \in table' : StreamCount(t)'
      BY <2>1, <2>2, <2>5, StreamCounted, StreamOfFetch DEF DialInv, CountInv
  <2> QED BY <2>1, <2>6, <2>7 DEF DialInv, CountInv, WholeBodies
<1>31. ASSUME NEW s \in Streams, BodyDone(s) PROVE CountInv'
    BY <1>31, QueuesTyped, ItemsTyped, CallTyped, StreamTyped, CompletionTyped,
       AboutCalls, ReplyTyped
       DEF Takes, Puts, DialInv, CountInv, FetchCount, StreamCount, Pending, Queued,
           WholeBodies, PageShape, NetShape, WorkerRecord, BodyRecord, GotRecord,
           BodyDone, Undisturbed, dialRendererVars
<1>32. ASSUME NEW s \in Streams, BodyEnds(s) PROVE CountInv'
    BY <1>32, QueuesTyped, ItemsTyped, CallTyped, StreamTyped, CompletionTyped,
       AboutCalls, ReplyTyped
       DEF Takes, Puts, DialInv, CountInv, FetchCount, StreamCount, Pending, Queued,
           WholeBodies, PageShape, NetShape, WorkerRecord, BodyRecord, GotRecord,
           BodyEnds, BodyOver, SendDial, Undisturbed, dialRendererVars
<1>33. ASSUME NEW s \in Streams, BodyFails(s) PROVE CountInv'
    BY <1>33, QueuesTyped, ItemsTyped, CallTyped, StreamTyped, CompletionTyped,
       AboutCalls, ReplyTyped
       DEF Takes, Puts, DialInv, CountInv, FetchCount, StreamCount, Pending, Queued,
           WholeBodies, PageShape, NetShape, WorkerRecord, BodyRecord, GotRecord,
           BodyFails, BodyOver, SendDial, Undisturbed, dialRendererVars
<1> QED
    BY <1>1, <1>2, <1>3, <1>4, <1>5, <1>6, <1>7, <1>8, <1>9, <1>10, <1>11, <1>12, <1>13,
       <1>14, <1>15, <1>16, <1>17, <1>18, <1>19, <1>20, <1>21, <1>22, <1>23, <1>24,
       <1>25, <1>26, <1>27, <1>28, <1>29, <1>30, <1>31, <1>32, <1>33 DEF DialStep

LEMMA WatchKept ==
  ASSUME NEW s \in Streams, Watched(s),
         worker[s[1]].at = "out" /\ worker[s[1]].out = s => worker'[s[1]].at = "out",
         worker'[s[1]].out = worker[s[1]].out,
         \A r \in ToSet(dialReplies) : r.out = s => r \in ToSet(dialReplies'),
         \A c \in ToSet(channel) \cup ToSet(dialTasks) :
            c.out = s => c \in ToSet(channel') \cup ToSet(dialTasks'),
         <<"CancelStream", s>> \in ToSet(calls) => <<"CancelStream", s>> \in ToSet(calls'),
         dialPage[s[1]] = "open" /\ worker[s[1]].out = s => dialPage'[s[1]] = "open",
         dialPage[s[1]] = "gone" => dialPage'[s[1]] = "gone"
  PROVE  Watched(s)'
<1>1. CASE \E r \in ToSet(dialReplies) : r.out = s
    BY <1>1 DEF Watched
<1>2. CASE \E c \in ToSet(channel) \cup ToSet(dialTasks) : c.out = s
    BY <1>2 DEF Watched
<1> QED BY <1>1, <1>2 DEF Watched, Held

LEMMA WatchFrame ==
  ASSUME DialInv, table' \subseteq table,
         \A f \in Fetches : worker'[f].out = worker[f].out,
         \A f \in Fetches : worker[f].at = "out" => worker'[f].at = "out",
         \A f \in Fetches : dialPage[f] \in {"open", "gone"} => dialPage'[f] = dialPage[f],
         \A r \in ToSet(dialReplies) : r.out \in table' => r \in ToSet(dialReplies'),
         \A c \in ToSet(channel) \cup ToSet(dialTasks) : c \in ToSet(channel') \cup ToSet(dialTasks'),
         \A s \in table' : <<"CancelStream", s>> \in ToSet(calls) => <<"CancelStream", s>> \in ToSet(calls')
  PROVE  WatchInv'
<1> SUFFICES ASSUME NEW s \in table' PROVE Watched(s)'
    BY DEF WatchInv
<1>1. s \in Streams /\ s[1] \in Fetches /\ Watched(s)
    BY QueuesTyped, StreamTyped DEF NetShape, DialInv, WatchInv
<1>2. \A r \in ToSet(dialReplies) : r.out = s => r \in ToSet(dialReplies')
    OBVIOUS
<1> QED BY <1>1, <1>2, WatchKept

(* A completion leaves the channel or the tasks. *)
LEMMA WatchSettled ==
  ASSUME DialInv, NEW c \in Completions, UNCHANGED <<worker, table, dialReplies>>,
         \A d \in ToSet(channel) \cup ToSet(dialTasks) :
            d = c \/ d \in ToSet(channel') \cup ToSet(dialTasks'),
         \A s \in table : <<"CancelStream", s>> \in ToSet(calls) => <<"CancelStream", s>> \in ToSet(calls'),
         \A f \in Fetches : dialPage[f] \in {"open", "gone"} => dialPage'[f] = dialPage[f],
         c.out \in table => Watched(c.out)'
  PROVE  WatchInv'
<1> SUFFICES ASSUME NEW s \in table PROVE Watched(s)'
    BY DEF WatchInv
<1>1. s \in Streams /\ s[1] \in Fetches /\ Watched(s)
    BY QueuesTyped, StreamTyped DEF NetShape, DialInv, WatchInv
<1>2. CASE s = c.out
    BY <1>2
<1>3. CASE s # c.out
  <2>1. \A d \in ToSet(channel) \cup ToSet(dialTasks) :
           d.out = s => d \in ToSet(channel') \cup ToSet(dialTasks')
      BY <1>3
  <2> QED BY <1>1, <2>1, WatchKept
<1> QED BY <1>2, <1>3

(* ... and the reader of every stream. *)
LEMMA WatchStep ==
  ASSUME DialInv, DialStep
  PROVE  WatchInv'
<1>1. CASE Idles
    BY <1>1 DEF Idles, dialNetVars, dialPipeVars, streamVars, DialInv, WatchInv, Watched, Held
<1>2. ASSUME NEW f \in Fetches, Files(f) PROVE WatchInv'
  <2>1. table' \subseteq table /\ worker' = worker
      BY <1>2 DEF Files, dialNetVars, dialPipeVars, streamVars
  <2>2. \A g \in Fetches : dialPage[g] \in {"open", "gone"} => dialPage'[g] = dialPage[g]
      BY <1>2, QueuesTyped DEF PageShape, Files, dialNetVars, dialPipeVars, streamVars
  <2>3. \A r \in ToSet(dialReplies) : r.out \in table' => r \in ToSet(dialReplies')
      BY <1>2, QueuesTyped, StreamTyped
         DEF Takes, Puts, Answer, NetShape, Files, dialNetVars, dialPipeVars, streamVars
  <2>4. \A d \in ToSet(channel) \cup ToSet(dialTasks) : d \in ToSet(channel') \cup ToSet(dialTasks')
      BY <1>2 DEF Takes, Puts, Files, dialNetVars, dialPipeVars, streamVars
  <2>5. \A t \in table' : <<"CancelStream", t>> \in ToSet(calls) => <<"CancelStream", t>> \in ToSet(calls')
      BY <1>2 DEF Takes, Puts, Files, dialNetVars, dialPipeVars, streamVars
  <2> QED BY <2>1, <2>2, <2>3, <2>4, <2>5, WatchFrame
<1>3. ASSUME NEW f \in Fetches, Drops(f) PROVE WatchInv'
  <2>1. table' \subseteq table /\ worker' = worker
      BY <1>3 DEF Drops, dialNetVars, dialPipeVars, streamVars
  <2>2. \A g \in Fetches : dialPage[g] \in {"open", "gone"} => dialPage'[g] = dialPage[g]
      BY <1>3, QueuesTyped DEF PageShape, Drops, dialNetVars, dialPipeVars, streamVars
  <2>3. \A r \in ToSet(dialReplies) : r.out \in table' => r \in ToSet(dialReplies')
      BY <1>3, QueuesTyped, StreamTyped
         DEF Takes, Puts, Answer, NetShape, Drops, dialNetVars, dialPipeVars, streamVars
  <2>4. \A d \in ToSet(channel) \cup ToSet(dialTasks) : d \in ToSet(channel') \cup ToSet(dialTasks')
      BY <1>3 DEF Takes, Puts, Drops, dialNetVars, dialPipeVars, streamVars
  <2>5. \A t \in table' : <<"CancelStream", t>> \in ToSet(calls) => <<"CancelStream", t>> \in ToSet(calls')
      BY <1>3 DEF Takes, Puts, Drops, dialNetVars, dialPipeVars, streamVars
  <2> QED BY <2>1, <2>2, <2>3, <2>4, <2>5, WatchFrame
<1>4. ASSUME NEW f \in Fetches, Starts(f) PROVE WatchInv'
  <2>1. table' \subseteq table /\ worker' = worker
      BY <1>4 DEF Starts, dialNetVars, dialPipeVars, streamVars
  <2>2. \A g \in Fetches : dialPage[g] \in {"open", "gone"} => dialPage'[g] = dialPage[g]
      BY <1>4, QueuesTyped DEF PageShape, Starts, dialNetVars, dialPipeVars, streamVars
  <2>3. \A r \in ToSet(dialReplies) : r.out \in table' => r \in ToSet(dialReplies')
      BY <1>4, QueuesTyped, StreamTyped
         DEF Takes, Puts, Answer, NetShape, Starts, dialNetVars, dialPipeVars,
             streamVars
  <2>4. \A d \in ToSet(channel) \cup ToSet(dialTasks) : d \in ToSet(channel') \cup ToSet(dialTasks')
      BY <1>4 DEF Takes, Puts, Starts, dialNetVars, dialPipeVars, streamVars
  <2>5. \A t \in table' : <<"CancelStream", t>> \in ToSet(calls) => <<"CancelStream", t>> \in ToSet(calls')
      BY <1>4 DEF Takes, Puts, Starts, dialNetVars, dialPipeVars, streamVars
  <2> QED BY <2>1, <2>2, <2>3, <2>4, <2>5, WatchFrame
<1>5. ASSUME NEW c \in Completions, Adopts(c) PROVE WatchInv'
  <2>1. table' \subseteq table /\ worker' = worker
      BY <1>5 DEF Adopts, dialNetVars, dialPipeVars, streamVars
  <2>2. \A g \in Fetches : dialPage[g] \in {"open", "gone"} => dialPage'[g] = dialPage[g]
      BY <1>5, QueuesTyped DEF PageShape, Adopts, dialNetVars, dialPipeVars, streamVars
  <2>3. \A r \in ToSet(dialReplies) : r.out \in table' => r \in ToSet(dialReplies')
      BY <1>5, QueuesTyped, StreamTyped
         DEF Takes, Puts, Answer, NetShape, Adopts, dialNetVars, dialPipeVars,
             streamVars
  <2>4. \A d \in ToSet(channel) \cup ToSet(dialTasks) : d \in ToSet(channel') \cup ToSet(dialTasks')
      BY <1>5 DEF Takes, Puts, Adopts, dialNetVars, dialPipeVars, streamVars
  <2>5. \A t \in table' : <<"CancelStream", t>> \in ToSet(calls) => <<"CancelStream", t>> \in ToSet(calls')
      BY <1>5 DEF Takes, Puts, Adopts, dialNetVars, dialPipeVars, streamVars
  <2> QED BY <2>1, <2>2, <2>3, <2>4, <2>5, WatchFrame
<1>6. ASSUME NEW c \in Completions, Abandons(c) PROVE WatchInv'
  <2>1. UNCHANGED <<worker, table, dialReplies>>
      BY <1>6 DEF Abandons, CancelsStream, dialNetVars, dialPipeVars, streamVars
  <2>2. \A d \in ToSet(channel) \cup ToSet(dialTasks) :
           d = c \/ d \in ToSet(channel') \cup ToSet(dialTasks')
      BY <1>6 DEF Takes, Abandons
  <2>3. \A s \in table : <<"CancelStream", s>> \in ToSet(calls) => <<"CancelStream", s>> \in ToSet(calls')
      BY <1>6 DEF Puts, Abandons, CancelsStream, dialNetVars, dialPipeVars, streamVars
  <2>4. \A f \in Fetches : dialPage[f] \in {"open", "gone"} => dialPage'[f] = dialPage[f]
      BY <1>6, QueuesTyped DEF PageShape, Abandons
  <2>5. ASSUME c.out \in table PROVE Watched(c.out)'
    <3>1. c.out # NoStream
        BY <2>5, QueuesTyped, StreamTyped DEF NetShape
    <3>2. <<"CancelStream", c.out>> \in ToSet(calls')
        BY <1>6, <3>1 DEF Abandons, CancelsStream, Puts
    <3> QED BY <3>2 DEF Watched
  <2> QED BY <2>1, <2>2, <2>3, <2>4, <2>5, WatchSettled
<1>7. ASSUME NEW c \in Completions, Delivers(c) PROVE WatchInv'
  <2>1. UNCHANGED <<worker, table, dialReplies>>
      BY <1>7 DEF Delivers, dialNetVars, dialPipeVars, streamVars
  <2>2. \A d \in ToSet(channel) \cup ToSet(dialTasks) :
           d = c \/ d \in ToSet(channel') \cup ToSet(dialTasks')
      BY <1>7 DEF Takes, Delivers
  <2>3. \A s \in table : <<"CancelStream", s>> \in ToSet(calls) => <<"CancelStream", s>> \in ToSet(calls')
      BY <1>7 DEF Puts, Delivers, dialNetVars, dialPipeVars, streamVars
  <2>4. \A f \in Fetches : dialPage[f] \in {"open", "gone"} => dialPage'[f] = dialPage[f]
      BY <1>7, QueuesTyped DEF PageShape, Delivers
  <2>5. ASSUME c.out \in table PROVE Watched(c.out)'
    <3>1. c \in ToSet(dialTasks) /\ c.out \in Streams /\ c.out # NoStream
        BY <1>7, <2>5, QueuesTyped, StreamTyped DEF Takes, Delivers, NetShape
    <3>2. worker[c.fetch].out = c.out /\ c.out[1] = c.fetch /\ c.fetch \in Fetches
        BY <3>1, CompletionTyped DEF DialInv, CompletionInv, Completes, WorkerInv
    <3>3. dialPage'[c.fetch] = "open"
        BY <1>7, <3>1, <3>2, QueuesTyped DEF Delivers, PageShape
    <3> QED BY <2>1, <3>2, <3>3 DEF Watched, Held
  <2> QED BY <2>1, <2>2, <2>3, <2>4, <2>5, WatchSettled
<1>8. ASSUME NEW c \in Completions, Refuses(c) PROVE WatchInv'
  <2>1. UNCHANGED <<worker, table, dialReplies>>
      BY <1>8 DEF Refuses, CancelsStream, dialNetVars, dialPipeVars, streamVars
  <2>2. \A d \in ToSet(channel) \cup ToSet(dialTasks) :
           d = c \/ d \in ToSet(channel') \cup ToSet(dialTasks')
      BY <1>8 DEF Takes, Refuses
  <2>3. \A s \in table : <<"CancelStream", s>> \in ToSet(calls) => <<"CancelStream", s>> \in ToSet(calls')
      BY <1>8 DEF Puts, Refuses, CancelsStream, dialNetVars, dialPipeVars, streamVars
  <2>4. \A f \in Fetches : dialPage[f] \in {"open", "gone"} => dialPage'[f] = dialPage[f]
      BY <1>8, QueuesTyped DEF PageShape, Refuses
  <2>5. ASSUME c.out \in table PROVE Watched(c.out)'
    <3>1. c.out # NoStream
        BY <2>5, QueuesTyped, StreamTyped DEF NetShape
    <3>2. <<"CancelStream", c.out>> \in ToSet(calls')
        BY <1>8, <3>1 DEF Refuses, CancelsStream, Puts
    <3> QED BY <3>2 DEF Watched
  <2> QED BY <2>1, <2>2, <2>3, <2>4, <2>5, WatchSettled
<1>9. ASSUME NEW f \in Fetches, Asks(f, "new", "asked", "Fetch") PROVE WatchInv'
  <2>1. table' \subseteq table /\ worker' = worker
      BY <1>9 DEF Asks, dialNetVars, dialPipeVars, streamVars
  <2>2. \A g \in Fetches : dialPage[g] \in {"open", "gone"} => dialPage'[g] = dialPage[g]
      BY <1>9, QueuesTyped DEF PageShape, Asks, dialNetVars, dialPipeVars, streamVars
  <2>3. \A r \in ToSet(dialReplies) : r.out \in table' => r \in ToSet(dialReplies')
      BY <1>9, QueuesTyped, StreamTyped
         DEF Takes, Puts, Answer, NetShape, Asks, dialNetVars, dialPipeVars, streamVars
  <2>4. \A d \in ToSet(channel) \cup ToSet(dialTasks) : d \in ToSet(channel') \cup ToSet(dialTasks')
      BY <1>9 DEF Takes, Puts, Asks, dialNetVars, dialPipeVars, streamVars
  <2>5. \A t \in table' : <<"CancelStream", t>> \in ToSet(calls) => <<"CancelStream", t>> \in ToSet(calls')
      BY <1>9 DEF Takes, Puts, Asks, dialNetVars, dialPipeVars, streamVars
  <2> QED BY <2>1, <2>2, <2>3, <2>4, <2>5, WatchFrame
<1>10. ASSUME NEW f \in Fetches, Asks(f, "asked", "aborted", "AbortFetch") PROVE WatchInv'
  <2>1. table' \subseteq table /\ worker' = worker
      BY <1>10 DEF Asks, dialNetVars, dialPipeVars, streamVars
  <2>2. \A g \in Fetches : dialPage[g] \in {"open", "gone"} => dialPage'[g] = dialPage[g]
      BY <1>10, QueuesTyped DEF PageShape, Asks, dialNetVars, dialPipeVars, streamVars
  <2>3. \A r \in ToSet(dialReplies) : r.out \in table' => r \in ToSet(dialReplies')
      BY <1>10, QueuesTyped, StreamTyped
         DEF Takes, Puts, Answer, NetShape, Asks, dialNetVars, dialPipeVars, streamVars
  <2>4. \A d \in ToSet(channel) \cup ToSet(dialTasks) : d \in ToSet(channel') \cup ToSet(dialTasks')
      BY <1>10 DEF Takes, Puts, Asks, dialNetVars, dialPipeVars, streamVars
  <2>5. \A t \in table' : <<"CancelStream", t>> \in ToSet(calls) => <<"CancelStream", t>> \in ToSet(calls')
      BY <1>10 DEF Takes, Puts, Asks, dialNetVars, dialPipeVars, streamVars
  <2> QED BY <2>1, <2>2, <2>3, <2>4, <2>5, WatchFrame
<1>11. ASSUME NEW f \in Fetches, AsksSync(f) PROVE WatchInv'
  <2>1. table' \subseteq table /\ worker' = worker
      BY <1>11 DEF AsksSync, dialNetVars, dialPipeVars, streamVars
  <2>2. \A g \in Fetches : dialPage[g] \in {"open", "gone"} => dialPage'[g] = dialPage[g]
      BY <1>11, QueuesTyped
         DEF PageShape, AsksSync, dialNetVars, dialPipeVars, streamVars
  <2>3. \A r \in ToSet(dialReplies) : r.out \in table' => r \in ToSet(dialReplies')
      BY <1>11, QueuesTyped, StreamTyped
         DEF Takes, Puts, Answer, NetShape, AsksSync, dialNetVars, dialPipeVars,
             streamVars
  <2>4. \A d \in ToSet(channel) \cup ToSet(dialTasks) : d \in ToSet(channel') \cup ToSet(dialTasks')
      BY <1>11 DEF Takes, Puts, AsksSync, dialNetVars, dialPipeVars, streamVars
  <2>5. \A t \in table' : <<"CancelStream", t>> \in ToSet(calls) => <<"CancelStream", t>> \in ToSet(calls')
      BY <1>11 DEF Takes, Puts, AsksSync, dialNetVars, dialPipeVars, streamVars
  <2> QED BY <2>1, <2>2, <2>3, <2>4, <2>5, WatchFrame
<1>12. ASSUME NEW f \in Fetches, AsksChunk(f) PROVE WatchInv'
  <2>1. table' \subseteq table /\ worker' = worker
      BY <1>12 DEF AsksChunk, dialNetVars, dialPipeVars, streamVars
  <2>2. \A g \in Fetches : dialPage[g] \in {"open", "gone"} => dialPage'[g] = dialPage[g]
      BY <1>12, QueuesTyped
         DEF PageShape, AsksChunk, dialNetVars, dialPipeVars, streamVars
  <2>3. \A r \in ToSet(dialReplies) : r.out \in table' => r \in ToSet(dialReplies')
      BY <1>12, QueuesTyped, StreamTyped
         DEF Takes, Puts, Answer, NetShape, AsksChunk, dialNetVars, dialPipeVars,
             streamVars
  <2>4. \A d \in ToSet(channel) \cup ToSet(dialTasks) : d \in ToSet(channel') \cup ToSet(dialTasks')
      BY <1>12 DEF Takes, Puts, AsksChunk, dialNetVars, dialPipeVars, streamVars
  <2>5. \A t \in table' : <<"CancelStream", t>> \in ToSet(calls) => <<"CancelStream", t>> \in ToSet(calls')
      BY <1>12 DEF Takes, Puts, AsksChunk, dialNetVars, dialPipeVars, streamVars
  <2> QED BY <2>1, <2>2, <2>3, <2>4, <2>5, WatchFrame
<1>13. ASSUME NEW f \in Fetches, LetsGo(f) PROVE WatchInv'
  <2> SUFFICES ASSUME NEW s \in table' PROVE Watched(s)'
      BY DEF WatchInv
  <2>1. s \in table /\ s \in Streams /\ s[1] \in Fetches /\ Watched(s)
      BY <1>13, QueuesTyped, StreamTyped DEF LetsGo, dialNetVars, streamVars, NetShape, DialInv, WatchInv
  <2>2. CASE s = worker[f].out
      BY <1>13, <2>2 DEF LetsGo, Puts, Watched
  <2>3. CASE s # worker[f].out
    <3>1. /\ dialPage[s[1]] = "open" /\ worker[s[1]].out = s => dialPage'[s[1]] = "open"
          /\ dialPage[s[1]] = "gone" => dialPage'[s[1]] = "gone"
        BY <1>13, <2>1, <2>3, QueuesTyped DEF LetsGo, PageShape
    <3>2. <<"CancelStream", s>> \in ToSet(calls) => <<"CancelStream", s>> \in ToSet(calls')
        BY <1>13 DEF LetsGo, Puts
    <3> QED BY <1>13, <2>1, <3>1, <3>2, WatchKept DEF LetsGo, dialNetVars
  <2> QED BY <2>2, <2>3
<1>14. CASE Replaced
  <2> SUFFICES ASSUME NEW s \in table' PROVE Watched(s)'
      BY DEF WatchInv
  <2>1. s \in table /\ s \in Streams /\ s[1] \in Fetches /\ Watched(s)
      BY <1>14, QueuesTyped, StreamTyped DEF Replaced, dialNetVars, streamVars, NetShape, DialInv, WatchInv
  <2>2. worker[s[1]].out = s /\ s # NoStream
      BY <2>1, StreamTyped DEF DialInv, StreamInv, StreamOK
  <2>3. dialPage[s[1]] # "new"
      BY <2>1, <2>2 DEF DialInv, WorkerInv
  <2>4. dialPage'[s[1]] = "gone"
      BY <1>14, <2>1, <2>3 DEF Replaced
  <2> QED BY <2>4 DEF Watched
<1>15. ASSUME NEW f \in Fetches, ServesDial(f) PROVE WatchInv'
  <2>1. worker[f].at = "none"
      BY <1>15 DEF Takes, DialInv, LaunchInv, ServesDial
  <2>2. /\ \A g \in Fetches : worker'[g].out = worker[g].out
        /\ \A g \in Fetches : worker[g].at = "out" => worker'[g].at = "out"
      BY <1>15, <2>1, QueuesTyped DEF NetShape, WorkerRecord, ServesDial
  <2>3. /\ UNCHANGED <<dialPage, table, dialReplies, channel, dialTasks>>
        /\ \A s \in table' : <<"CancelStream", s>> \in ToSet(calls) => <<"CancelStream", s>> \in ToSet(calls')
      BY <1>15 DEF Takes, ServesDial, dialRendererVars, streamVars
  <2>4. /\ \A g \in Fetches : dialPage[g] \in {"open", "gone"} => dialPage'[g] = dialPage[g]
        /\ \A r \in ToSet(dialReplies) : r.out \in table' => r \in ToSet(dialReplies')
        /\ \A c \in ToSet(channel) \cup ToSet(dialTasks) : c \in ToSet(channel') \cup ToSet(dialTasks')
      BY <2>3
  <2>5. /\ table' \subseteq table
        /\ \A s \in table' : <<"CancelStream", s>> \in ToSet(calls) => <<"CancelStream", s>> \in ToSet(calls')
      BY <2>3
  <2> QED BY <2>2, <2>4, <2>5, WatchFrame
<1>16. ASSUME NEW f \in Fetches, ServesCancel(f) PROVE WatchInv'
  <2>1. worker[f] \in WorkerRecord
      BY QueuesTyped
  <2>2. /\ \A g \in Fetches : worker'[g].out = worker[g].out
        /\ \A g \in Fetches : worker[g].at = "out" => worker'[g].at = "out"
      BY <1>16, <2>1, QueuesTyped DEF NetShape, WorkerRecord, ServesCancel
  <2>3. /\ UNCHANGED <<dialPage, table, dialReplies, channel, dialTasks>>
        /\ \A s \in table' : <<"CancelStream", s>> \in ToSet(calls) => <<"CancelStream", s>> \in ToSet(calls')
      BY <1>16 DEF Takes, ServesCancel, dialRendererVars, streamVars
  <2>4. /\ \A g \in Fetches : dialPage[g] \in {"open", "gone"} => dialPage'[g] = dialPage[g]
        /\ \A r \in ToSet(dialReplies) : r.out \in table' => r \in ToSet(dialReplies')
        /\ \A c \in ToSet(channel) \cup ToSet(dialTasks) : c \in ToSet(channel') \cup ToSet(dialTasks')
      BY <2>3
  <2>5. /\ table' \subseteq table
        /\ \A s \in table' : <<"CancelStream", s>> \in ToSet(calls) => <<"CancelStream", s>> \in ToSet(calls')
      BY <2>3
  <2> QED BY <2>2, <2>4, <2>5, WatchFrame
<1>17. ASSUME NEW s \in Streams, ServesStream(s) PROVE WatchInv'
  <2>1. table' \subseteq table /\ worker' = worker
      BY <1>17 DEF ServesStream, Closes, Holding, Replies
  <2>2. \A g \in Fetches : dialPage[g] \in {"open", "gone"} => dialPage'[g] = dialPage[g]
      BY <1>17, QueuesTyped DEF PageShape, ServesStream, Closes, Holding, Replies
  <2>3. \A r \in ToSet(dialReplies) : r.out \in table' => r \in ToSet(dialReplies')
      BY <1>17, QueuesTyped, StreamTyped
         DEF Takes, Puts, Answer, NetShape, ServesStream, Closes, Holding, Replies
  <2>4. \A d \in ToSet(channel) \cup ToSet(dialTasks) : d \in ToSet(channel') \cup ToSet(dialTasks')
      BY <1>17 DEF Takes, Puts, ServesStream, Closes, Holding, Replies
  <2>5. \A t \in table' : <<"CancelStream", t>> \in ToSet(calls) => <<"CancelStream", t>> \in ToSet(calls')
      BY <1>17 DEF Takes, Puts, ServesStream, Closes, Holding, Replies
  <2> QED BY <2>1, <2>2, <2>3, <2>4, <2>5, WatchFrame
<1>18. ASSUME NEW s \in Streams, ServesRead(s) PROVE WatchInv'
  <2>1. table' \subseteq table /\ worker' = worker
      BY <1>18 DEF ServesRead, dialNetVars, dialPipeVars, streamVars
  <2>2. \A g \in Fetches : dialPage[g] \in {"open", "gone"} => dialPage'[g] = dialPage[g]
      BY <1>18, QueuesTyped
         DEF PageShape, ServesRead, dialNetVars, dialPipeVars, streamVars
  <2>3. \A r \in ToSet(dialReplies) : r.out \in table' => r \in ToSet(dialReplies')
      BY <1>18, QueuesTyped, StreamTyped
         DEF Takes, Puts, Answer, NetShape, ServesRead, dialNetVars, dialPipeVars,
             streamVars
  <2>4. \A d \in ToSet(channel) \cup ToSet(dialTasks) : d \in ToSet(channel') \cup ToSet(dialTasks')
      BY <1>18 DEF Takes, Puts, ServesRead, dialNetVars, dialPipeVars, streamVars
  <2>5. \A t \in table' : <<"CancelStream", t>> \in ToSet(calls) => <<"CancelStream", t>> \in ToSet(calls')
      BY <1>18 DEF Takes, Puts, ServesRead, dialNetVars, dialPipeVars, streamVars
  <2> QED BY <2>1, <2>2, <2>3, <2>4, <2>5, WatchFrame
<1>19. ASSUME NEW s \in Streams, ServesGone(s) PROVE WatchInv'
  <2>1. table' \subseteq table /\ worker' = worker
      BY <1>19 DEF ServesGone, Replies, dialNetVars, dialPipeVars, streamVars
  <2>2. \A g \in Fetches : dialPage[g] \in {"open", "gone"} => dialPage'[g] = dialPage[g]
      BY <1>19, QueuesTyped
         DEF PageShape, ServesGone, Replies, dialNetVars, dialPipeVars, streamVars
  <2>3. \A r \in ToSet(dialReplies) : r.out \in table' => r \in ToSet(dialReplies')
      BY <1>19, QueuesTyped, StreamTyped
         DEF Takes, Puts, Answer, NetShape, ServesGone, Replies, dialNetVars,
             dialPipeVars, streamVars
  <2>4. \A d \in ToSet(channel) \cup ToSet(dialTasks) : d \in ToSet(channel') \cup ToSet(dialTasks')
      BY <1>19
         DEF Takes, Puts, ServesGone, Replies, dialNetVars, dialPipeVars, streamVars
  <2>5. \A t \in table' : <<"CancelStream", t>> \in ToSet(calls) => <<"CancelStream", t>> \in ToSet(calls')
      BY <1>19
         DEF Takes, Puts, ServesGone, Replies, dialNetVars, dialPipeVars, streamVars
  <2> QED BY <2>1, <2>2, <2>3, <2>4, <2>5, WatchFrame
<1>20. ASSUME NEW s \in Streams, ReadsChunk(s) PROVE WatchInv'
  <2>1. table' \subseteq table /\ worker' = worker
      BY <1>20 DEF ReadsChunk, Replies
  <2>2. \A g \in Fetches : dialPage[g] \in {"open", "gone"} => dialPage'[g] = dialPage[g]
      BY <1>20, QueuesTyped DEF PageShape, ReadsChunk, Replies
  <2>3. \A r \in ToSet(dialReplies) : r.out \in table' => r \in ToSet(dialReplies')
      BY <1>20, QueuesTyped, StreamTyped
         DEF Takes, Puts, Answer, NetShape, ReadsChunk, Replies
  <2>4. \A d \in ToSet(channel) \cup ToSet(dialTasks) : d \in ToSet(channel') \cup ToSet(dialTasks')
      BY <1>20 DEF Takes, Puts, ReadsChunk, Replies
  <2>5. \A t \in table' : <<"CancelStream", t>> \in ToSet(calls) => <<"CancelStream", t>> \in ToSet(calls')
      BY <1>20 DEF Takes, Puts, ReadsChunk, Replies
  <2> QED BY <2>1, <2>2, <2>3, <2>4, <2>5, WatchFrame
<1>21. ASSUME NEW s \in Streams, NEW op \in {"End", "Error"}, ReadsEnd(s, op) PROVE WatchInv'
  <2>1. table' \subseteq table /\ worker' = worker
      BY <1>21 DEF ReadsEnd, Closes, Holding, Replies
  <2>2. \A g \in Fetches : dialPage[g] \in {"open", "gone"} => dialPage'[g] = dialPage[g]
      BY <1>21, QueuesTyped DEF PageShape, ReadsEnd, Closes, Holding, Replies
  <2>3. \A r \in ToSet(dialReplies) : r.out \in table' => r \in ToSet(dialReplies')
      BY <1>21, QueuesTyped, StreamTyped
         DEF Takes, Puts, Answer, NetShape, ReadsEnd, Closes, Holding, Replies
  <2>4. \A d \in ToSet(channel) \cup ToSet(dialTasks) : d \in ToSet(channel') \cup ToSet(dialTasks')
      BY <1>21 DEF Takes, Puts, ReadsEnd, Closes, Holding, Replies
  <2>5. \A t \in table' : <<"CancelStream", t>> \in ToSet(calls) => <<"CancelStream", t>> \in ToSet(calls')
      BY <1>21 DEF Takes, Puts, ReadsEnd, Closes, Holding, Replies
  <2> QED BY <2>1, <2>2, <2>3, <2>4, <2>5, WatchFrame
<1>22. ASSUME NEW r \in DialReplies, Completed(r) PROVE WatchInv'
  <2> SUFFICES ASSUME NEW s \in table' PROVE Watched(s)'
      BY DEF WatchInv
  <2>1. s \in table /\ s \in Streams /\ s[1] \in Fetches /\ Watched(s)
      BY <1>22, QueuesTyped, StreamTyped DEF Completed, dialNetVars, streamVars, NetShape, DialInv, WatchInv
  <2>2. CASE s = r.out
    <3>1. CASE channel' = channel
      <4>1. r.op = "Dial" /\ r.fetch \in Fetches /\ r \in ToSet(dialReplies)
          BY <1>22, ReplyTyped DEF Completed, Takes
      <4>2. r.fetch = s[1]
          BY <2>1, <2>2, <4>1, StreamTyped DEF DialInv, CompletionInv, Completes, WorkerInv
      <4>3. dialPage'[s[1]] = "gone" \/ \E c \in ToSet(channel') : c.out = s
          BY <1>22, <2>2, <4>2 DEF Completed, Puts
      <4> QED BY <4>3 DEF Watched
    <3>2. CASE channel' # channel
      <4>1. [fetch |-> r.fetch, out |-> r.out] \in ToSet(channel')
          BY <1>22, <3>2 DEF Completed, Puts
      <4> QED BY <2>2, <4>1 DEF Watched
    <3> QED BY <3>1, <3>2
  <2>3. CASE s # r.out
    <3>1. \A q \in ToSet(dialReplies) : q.out = s => q \in ToSet(dialReplies')
        BY <1>22, <2>3 DEF Completed, Takes
    <3>2. \A c \in ToSet(channel) \cup ToSet(dialTasks) : c \in ToSet(channel') \cup ToSet(dialTasks')
        BY <1>22 DEF Completed, Puts
    <3>3. UNCHANGED <<dialPage, worker, calls>>
        BY <1>22 DEF Completed, dialNetVars
    <3> QED BY <2>1, <3>1, <3>2, <3>3, WatchKept
  <2> QED BY <2>2, <2>3
<1>23. ASSUME NEW r \in DialReplies, CompletedSync(r) PROVE WatchInv'
  <2> SUFFICES ASSUME NEW s \in table' PROVE Watched(s)'
      BY DEF WatchInv
  <2>1. s \in table /\ s \in Streams /\ s[1] \in Fetches /\ Watched(s)
      BY <1>23, QueuesTyped, StreamTyped DEF CompletedSync, dialNetVars, streamVars, NetShape, DialInv, WatchInv
  <2>2. r.op = "Dial" /\ r.fetch \in Fetches /\ r \in ToSet(dialReplies)
      BY <1>23, ReplyTyped DEF CompletedSync, Takes
  <2>3. s # r.out
      BY <1>23, <2>1, <2>2, StreamTyped DEF CompletedSync, DialInv, CompletionInv, Completes, WorkerInv
  <2>4. \A q \in ToSet(dialReplies) : q.out = s => q \in ToSet(dialReplies')
      BY <1>23, <2>3 DEF CompletedSync, Takes
  <2>5. dialPage[s[1]] \in {"open", "gone"} => dialPage'[s[1]] = dialPage[s[1]]
      BY <1>23, <2>1, <2>2, QueuesTyped DEF CompletedSync, PageShape
  <2>6. UNCHANGED <<worker, calls, channel, dialTasks>>
      BY <1>23 DEF CompletedSync, dialNetVars
  <2> QED BY <2>1, <2>4, <2>5, <2>6, WatchKept
<1>24. ASSUME NEW f \in Fetches, GetsChunk(f) PROVE WatchInv'
  <2>1. table' \subseteq table /\ worker' = worker
      BY <1>24 DEF GetsChunk, dialNetVars, dialPipeVars, streamVars
  <2>2. \A g \in Fetches : dialPage[g] \in {"open", "gone"} => dialPage'[g] = dialPage[g]
      BY <1>24, QueuesTyped
         DEF PageShape, GetsChunk, dialNetVars, dialPipeVars, streamVars
  <2>3. \A r \in ToSet(dialReplies) : r.out \in table' => r \in ToSet(dialReplies')
      BY <1>24, QueuesTyped, StreamTyped
         DEF Takes, Puts, Answer, NetShape, GetsChunk, dialNetVars, dialPipeVars,
             streamVars
  <2>4. \A d \in ToSet(channel) \cup ToSet(dialTasks) : d \in ToSet(channel') \cup ToSet(dialTasks')
      BY <1>24 DEF Takes, Puts, GetsChunk, dialNetVars, dialPipeVars, streamVars
  <2>5. \A t \in table' : <<"CancelStream", t>> \in ToSet(calls) => <<"CancelStream", t>> \in ToSet(calls')
      BY <1>24 DEF Takes, Puts, GetsChunk, dialNetVars, dialPipeVars, streamVars
  <2> QED BY <2>1, <2>2, <2>3, <2>4, <2>5, WatchFrame
<1>25. ASSUME NEW f \in Fetches, GetsUnit(f) PROVE WatchInv'
  <2>1. table' \subseteq table /\ worker' = worker
      BY <1>25 DEF GetsUnit, dialNetVars, dialPipeVars, streamVars
  <2>2. \A g \in Fetches : dialPage[g] \in {"open", "gone"} => dialPage'[g] = dialPage[g]
      BY <1>25, QueuesTyped
         DEF PageShape, GetsUnit, dialNetVars, dialPipeVars, streamVars
  <2>3. \A r \in ToSet(dialReplies) : r.out \in table' => r \in ToSet(dialReplies')
      BY <1>25, QueuesTyped, StreamTyped
         DEF Takes, Puts, Answer, NetShape, GetsUnit, dialNetVars, dialPipeVars,
             streamVars
  <2>4. \A d \in ToSet(channel) \cup ToSet(dialTasks) : d \in ToSet(channel') \cup ToSet(dialTasks')
      BY <1>25 DEF Takes, Puts, GetsUnit, dialNetVars, dialPipeVars, streamVars
  <2>5. \A t \in table' : <<"CancelStream", t>> \in ToSet(calls) => <<"CancelStream", t>> \in ToSet(calls')
      BY <1>25 DEF Takes, Puts, GetsUnit, dialNetVars, dialPipeVars, streamVars
  <2> QED BY <2>1, <2>2, <2>3, <2>4, <2>5, WatchFrame
<1>26. ASSUME NEW f \in Fetches, NEW op \in {"End", "Error"}, GetsEnd(f, op) PROVE WatchInv'
  <2> SUFFICES ASSUME NEW s \in table' PROVE Watched(s)'
      BY DEF WatchInv
  <2>1. s \in table /\ s \in Streams /\ s[1] \in Fetches /\ Watched(s)
      BY <1>26, QueuesTyped, StreamTyped DEF GetsEnd, dialNetVars, streamVars, NetShape, DialInv, WatchInv
  <2>2. Answer(f, op) \in ToSet(dialReplies) /\ Answer(f, op).out = NoStream
      BY <1>26 DEF GetsEnd, Takes, Answer
  <2>3. s # worker[f].out
      BY <2>1, <2>2 DEF DialInv, OpenInv, OpenOK, Ended, Held
  <2>4. \A q \in ToSet(dialReplies) : q.out = s => q \in ToSet(dialReplies')
      BY <1>26, <2>1, <2>2, StreamTyped DEF GetsEnd, Takes
  <2>5. /\ dialPage[s[1]] = "open" /\ worker[s[1]].out = s => dialPage'[s[1]] = "open"
        /\ dialPage[s[1]] = "gone" => dialPage'[s[1]] = "gone"
    <3>1. worker[s[1]].out = s
        BY <2>1, StreamTyped DEF DialInv, StreamInv, StreamOK
    <3>2. s[1] # f
        BY <2>3, <3>1
    <3> QED BY <1>26, <2>1, <3>2, QueuesTyped DEF GetsEnd, PageShape
  <2>6. UNCHANGED <<worker, calls, channel, dialTasks>>
      BY <1>26 DEF GetsEnd, dialNetVars
  <2> QED BY <2>1, <2>4, <2>5, <2>6, WatchKept
<1>27. ASSUME NEW f \in Fetches, WorkerMoves(f) PROVE WatchInv'
  <2>1. worker[f] \in WorkerRecord
      BY QueuesTyped
  <2>2. /\ \A g \in Fetches : worker'[g].out = worker[g].out
        /\ \A g \in Fetches : worker[g].at = "out" => worker'[g].at = "out"
      BY <1>27, <2>1, QueuesTyped DEF NetShape, WorkerRecord, WorkerMoves
  <2>3. /\ UNCHANGED <<dialPage, table, dialReplies, channel, dialTasks>>
        /\ \A s \in table' : <<"CancelStream", s>> \in ToSet(calls) => <<"CancelStream", s>> \in ToSet(calls')
      BY <1>27 DEF Takes, WorkerMoves, dialRendererVars, streamVars
  <2>4. /\ \A g \in Fetches : dialPage[g] \in {"open", "gone"} => dialPage'[g] = dialPage[g]
        /\ \A r \in ToSet(dialReplies) : r.out \in table' => r \in ToSet(dialReplies')
        /\ \A c \in ToSet(channel) \cup ToSet(dialTasks) : c \in ToSet(channel') \cup ToSet(dialTasks')
      BY <2>3
  <2>5. /\ table' \subseteq table
        /\ \A s \in table' : <<"CancelStream", s>> \in ToSet(calls) => <<"CancelStream", s>> \in ToSet(calls')
      BY <2>3
  <2> QED BY <2>2, <2>4, <2>5, WatchFrame
<1>28. ASSUME NEW f \in Fetches, Streamed(f) PROVE WatchInv'
  <2> SUFFICES ASSUME NEW s \in table' PROVE Watched(s)'
      BY DEF WatchInv
  <2>1. worker[f].attempt \in {1, 2} /\ worker[f] \in WorkerRecord
      BY QueuesTyped DEF WorkerRecord
  <2>2. CASE s = <<f, worker[f].attempt>>
      BY <1>28, <2>1, <2>2, QueuesTyped, StreamTyped DEF Streamed, NetShape, WorkerRecord, Watched
  <2>3. CASE s # <<f, worker[f].attempt>>
    <3>1. s \in table /\ s \in Streams /\ s[1] \in Fetches /\ Watched(s)
        BY <1>28, <2>3, QueuesTyped, StreamTyped DEF Streamed, NetShape, DialInv, WatchInv
    <3>2. s[1] # f
        BY <1>28, <3>1, StreamTyped DEF DialInv, StreamInv, StreamOK, WorkerInv, Streamed
    <3>3. worker'[s[1]] = worker[s[1]]
        BY <1>28, <3>1, <3>2, QueuesTyped DEF Streamed, NetShape
    <3>4. UNCHANGED <<dialPage, calls, channel, dialTasks, dialReplies>>
        BY <1>28 DEF Streamed, Undisturbed, dialRendererVars
    <3> QED BY <3>1, <3>3, <3>4, WatchKept
  <2> QED BY <2>2, <2>3
<1>29. ASSUME NEW f \in Fetches, Answers(f) PROVE WatchInv'
  <2> SUFFICES ASSUME NEW s \in table' PROVE Watched(s)'
      BY DEF WatchInv
  <2>1. s \in table /\ s \in Streams /\ s[1] \in Fetches /\ Watched(s)
      BY <1>29, QueuesTyped, StreamTyped DEF Answers, dialRendererVars, streamVars, NetShape, DialInv, WatchInv
  <2>2. CASE s = worker[f].out
    <3>1. [op |-> "Dial", fetch |-> f, out |-> worker[f].out] \in ToSet(dialReplies')
        BY <1>29 DEF Answers, Puts
    <3> QED BY <2>2, <3>1 DEF Watched
  <2>3. CASE s # worker[f].out
    <3>1. /\ worker[s[1]].at = "out" /\ worker[s[1]].out = s => worker'[s[1]].at = "out"
          /\ worker'[s[1]].out = worker[s[1]].out
        BY <1>29, <2>1, <2>3, QueuesTyped DEF Answers, NetShape, WorkerRecord
    <3>2. \A q \in ToSet(dialReplies) : q.out = s => q \in ToSet(dialReplies')
        BY <1>29 DEF Answers, Puts
    <3>3. UNCHANGED <<dialPage, calls, channel, dialTasks>>
        BY <1>29 DEF Answers, dialRendererVars
    <3> QED BY <2>1, <3>1, <3>2, <3>3, WatchKept
  <2> QED BY <2>2, <2>3
<1>30. ASSUME NEW s \in Streams, BodyChunk(s) PROVE WatchInv'
  <2>1. table' \subseteq table /\ worker' = worker
      BY <1>30 DEF BodyChunk, SendDial, Undisturbed, dialRendererVars
  <2>2. \A g \in Fetches : dialPage[g] \in {"open", "gone"} => dialPage'[g] = dialPage[g]
      BY <1>30, QueuesTyped
         DEF PageShape, BodyChunk, SendDial, Undisturbed, dialRendererVars
  <2>3. \A r \in ToSet(dialReplies) : r.out \in table' => r \in ToSet(dialReplies')
      BY <1>30, QueuesTyped, StreamTyped
         DEF Takes, Puts, Answer, NetShape, BodyChunk, SendDial, Undisturbed,
             dialRendererVars
  <2>4. \A d \in ToSet(channel) \cup ToSet(dialTasks) : d \in ToSet(channel') \cup ToSet(dialTasks')
      BY <1>30 DEF Takes, Puts, BodyChunk, SendDial, Undisturbed, dialRendererVars
  <2>5. \A t \in table' : <<"CancelStream", t>> \in ToSet(calls) => <<"CancelStream", t>> \in ToSet(calls')
      BY <1>30 DEF Takes, Puts, BodyChunk, SendDial, Undisturbed, dialRendererVars
  <2> QED BY <2>1, <2>2, <2>3, <2>4, <2>5, WatchFrame
<1>31. ASSUME NEW s \in Streams, BodyDone(s) PROVE WatchInv'
  <2>1. table' \subseteq table /\ worker' = worker
      BY <1>31 DEF BodyDone, Undisturbed, dialRendererVars
  <2>2. \A g \in Fetches : dialPage[g] \in {"open", "gone"} => dialPage'[g] = dialPage[g]
      BY <1>31, QueuesTyped DEF PageShape, BodyDone, Undisturbed, dialRendererVars
  <2>3. \A r \in ToSet(dialReplies) : r.out \in table' => r \in ToSet(dialReplies')
      BY <1>31, QueuesTyped, StreamTyped
         DEF Takes, Puts, Answer, NetShape, BodyDone, Undisturbed, dialRendererVars
  <2>4. \A d \in ToSet(channel) \cup ToSet(dialTasks) : d \in ToSet(channel') \cup ToSet(dialTasks')
      BY <1>31 DEF Takes, Puts, BodyDone, Undisturbed, dialRendererVars
  <2>5. \A t \in table' : <<"CancelStream", t>> \in ToSet(calls) => <<"CancelStream", t>> \in ToSet(calls')
      BY <1>31 DEF Takes, Puts, BodyDone, Undisturbed, dialRendererVars
  <2> QED BY <2>1, <2>2, <2>3, <2>4, <2>5, WatchFrame
<1>32. ASSUME NEW s \in Streams, BodyEnds(s) PROVE WatchInv'
  <2>1. table' \subseteq table /\ worker' = worker
      BY <1>32 DEF BodyEnds, BodyOver, SendDial, Undisturbed, dialRendererVars
  <2>2. \A g \in Fetches : dialPage[g] \in {"open", "gone"} => dialPage'[g] = dialPage[g]
      BY <1>32, QueuesTyped
         DEF PageShape, BodyEnds, BodyOver, SendDial, Undisturbed, dialRendererVars
  <2>3. \A r \in ToSet(dialReplies) : r.out \in table' => r \in ToSet(dialReplies')
      BY <1>32, QueuesTyped, StreamTyped
         DEF Takes, Puts, Answer, NetShape, BodyEnds, BodyOver, SendDial, Undisturbed,
             dialRendererVars
  <2>4. \A d \in ToSet(channel) \cup ToSet(dialTasks) : d \in ToSet(channel') \cup ToSet(dialTasks')
      BY <1>32
         DEF Takes, Puts, BodyEnds, BodyOver, SendDial, Undisturbed, dialRendererVars
  <2>5. \A t \in table' : <<"CancelStream", t>> \in ToSet(calls) => <<"CancelStream", t>> \in ToSet(calls')
      BY <1>32
         DEF Takes, Puts, BodyEnds, BodyOver, SendDial, Undisturbed, dialRendererVars
  <2> QED BY <2>1, <2>2, <2>3, <2>4, <2>5, WatchFrame
<1>33. ASSUME NEW s \in Streams, BodyFails(s) PROVE WatchInv'
  <2>1. table' \subseteq table /\ worker' = worker
      BY <1>33 DEF BodyFails, BodyOver, SendDial, Undisturbed, dialRendererVars
  <2>2. \A g \in Fetches : dialPage[g] \in {"open", "gone"} => dialPage'[g] = dialPage[g]
      BY <1>33, QueuesTyped
         DEF PageShape, BodyFails, BodyOver, SendDial, Undisturbed, dialRendererVars
  <2>3. \A r \in ToSet(dialReplies) : r.out \in table' => r \in ToSet(dialReplies')
      BY <1>33, QueuesTyped, StreamTyped
         DEF Takes, Puts, Answer, NetShape, BodyFails, BodyOver, SendDial, Undisturbed,
             dialRendererVars
  <2>4. \A d \in ToSet(channel) \cup ToSet(dialTasks) : d \in ToSet(channel') \cup ToSet(dialTasks')
      BY <1>33
         DEF Takes, Puts, BodyFails, BodyOver, SendDial, Undisturbed, dialRendererVars
  <2>5. \A t \in table' : <<"CancelStream", t>> \in ToSet(calls) => <<"CancelStream", t>> \in ToSet(calls')
      BY <1>33
         DEF Takes, Puts, BodyFails, BodyOver, SendDial, Undisturbed, dialRendererVars
  <2> QED BY <2>1, <2>2, <2>3, <2>4, <2>5, WatchFrame
<1> QED
    BY <1>1, <1>2, <1>3, <1>4, <1>5, <1>6, <1>7, <1>8, <1>9, <1>10, <1>11, <1>12, <1>13,
       <1>14, <1>15, <1>16, <1>17, <1>18, <1>19, <1>20, <1>21, <1>22, <1>23, <1>24,
       <1>25, <1>26, <1>27, <1>28, <1>29, <1>30, <1>31, <1>32, <1>33 DEF DialStep

(* The types, where the steps by effect say them, ... *)
ValueShape ==
    /\ dialPage \in [Fetches -> {"new", "asked", "sync", "aborted", "open", "settled", "gone"}]
    /\ filed \in [Fetches -> {"none", "queued", "started"}]
    /\ got \in [Fetches -> GotRecord]
    /\ CallShape
    /\ worker \in [Fetches -> WorkerRecord]
    /\ table \subseteq Streams
    /\ netBody \in [Streams -> BodyRecord]
    /\ buffer \in [Streams -> Seq(Messages)]
    /\ cache \in 0..NoEntry

LEMMA ValuesTyped ==
  ASSUME DialInv
  PROVE  ValueShape
BY QueuesTyped DEF ValueShape, PageShape, NetShape

LEMMA NoCallTyped ==
  <<>> \in DialCalls \cup StreamCalls \cup {<<>>} /\ NoStream \in OptionalStream
BY DEF OptionalStream

LEMMA ClosedTyped ==
  ASSUME DialInv, NEW s \in Streams, Closes(s)
  PROVE  /\ worker' \in [Fetches -> WorkerRecord]
         /\ table' \subseteq Streams
         /\ netBody' \in [Streams -> BodyRecord]
         /\ buffer' \in [Streams -> Seq(Messages)]
         /\ cache' \in 0..NoEntry
<1>1. worker' \in [Fetches -> WorkerRecord] /\ table' \subseteq Streams /\ cache' \in 0..NoEntry
    BY ValuesTyped DEF ValueShape, Closes
<1>2. netBody' \in [Streams -> BodyRecord]
    BY ValuesTyped DEF ValueShape, Closes, BodyRecord
<1>3. <<>> \in Seq(Messages)
    OBVIOUS
<1>4. buffer' \in [Streams -> Seq(Messages)]
    BY <1>3, ValuesTyped DEF ValueShape, Closes
<1> QED BY <1>1, <1>2, <1>4

LEMMA SentTyped ==
  ASSUME DialInv, NEW s \in Streams, NEW m \in Messages, SendDial(s, m)
  PROVE  buffer' \in [Streams -> Seq(Messages)]
<1>1. buffer[s] \in Seq(Messages)
    BY ValuesTyped DEF ValueShape
<1>2. Append(buffer[s], m) \in Seq(Messages)
    BY <1>1
<1> QED BY <1>2, ValuesTyped DEF ValueShape, SendDial

(* Every step by effect keeps the types, ... *)
LEMMA TypesStep ==
  ASSUME DialInv, DialStep
  PROVE  ValueShape'
<1>1. CASE Idles
    BY <1>1, ValuesTyped, NoCallTyped, StreamTyped, CallTyped, QueuesTyped, ReplyTyped,
       CompletionTyped
       DEF ValueShape, CallShape, WorkerRecord, GotRecord, OptionalStream, Idles,
           dialNetVars, dialPipeVars, streamVars
<1>2. ASSUME NEW f \in Fetches, Files(f) PROVE ValueShape'
    BY <1>2, ValuesTyped, NoCallTyped, StreamTyped, CallTyped, QueuesTyped, ReplyTyped,
       CompletionTyped
       DEF ValueShape, CallShape, WorkerRecord, GotRecord, OptionalStream, Files,
           dialNetVars, dialPipeVars, streamVars
<1>3. ASSUME NEW f \in Fetches, Drops(f) PROVE ValueShape'
    BY <1>3, ValuesTyped, NoCallTyped, StreamTyped, CallTyped, QueuesTyped, ReplyTyped,
       CompletionTyped
       DEF ValueShape, CallShape, WorkerRecord, GotRecord, OptionalStream, Drops,
           dialNetVars, dialPipeVars, streamVars
<1>4. ASSUME NEW f \in Fetches, Starts(f) PROVE ValueShape'
    BY <1>4, ValuesTyped, NoCallTyped, StreamTyped, CallTyped, QueuesTyped, ReplyTyped,
       CompletionTyped
       DEF ValueShape, CallShape, WorkerRecord, GotRecord, OptionalStream, Starts,
           dialNetVars, dialPipeVars, streamVars
<1>5. ASSUME NEW c \in Completions, Adopts(c) PROVE ValueShape'
    BY <1>5, ValuesTyped, NoCallTyped, StreamTyped, CallTyped, QueuesTyped, ReplyTyped,
       CompletionTyped
       DEF ValueShape, CallShape, WorkerRecord, GotRecord, OptionalStream, Adopts,
           dialNetVars, dialPipeVars, streamVars
<1>6. ASSUME NEW c \in Completions, Abandons(c) PROVE ValueShape'
  <2>1. threadBlocked' \in DialCalls \cup StreamCalls \cup {<<>>}
      BY <1>6, NoCallTyped, CallTyped DEF CancelsStream, Abandons
  <2> QED BY <1>6, <2>1, ValuesTyped, CompletionTyped DEF ValueShape, CallShape, Abandons, dialNetVars, streamVars
<1>7. ASSUME NEW c \in Completions, Delivers(c) PROVE ValueShape'
    BY <1>7, ValuesTyped, NoCallTyped, StreamTyped, CallTyped, QueuesTyped, ReplyTyped,
       CompletionTyped
       DEF ValueShape, CallShape, WorkerRecord, GotRecord, OptionalStream, Delivers,
           dialNetVars, dialPipeVars, streamVars
<1>8. ASSUME NEW c \in Completions, Refuses(c) PROVE ValueShape'
  <2>1. threadBlocked' \in DialCalls \cup StreamCalls \cup {<<>>}
      BY <1>8, NoCallTyped, CallTyped DEF CancelsStream, Refuses
  <2> QED BY <1>8, <2>1, ValuesTyped, CompletionTyped DEF ValueShape, CallShape, Refuses, dialNetVars, streamVars
<1>9. ASSUME NEW f \in Fetches, Asks(f, "new", "asked", "Fetch") PROVE ValueShape'
    BY <1>9, ValuesTyped, NoCallTyped, StreamTyped, CallTyped, QueuesTyped, ReplyTyped,
       CompletionTyped
       DEF ValueShape, CallShape, WorkerRecord, GotRecord, OptionalStream, Asks,
           dialNetVars, dialPipeVars, streamVars
<1>10. ASSUME NEW f \in Fetches, Asks(f, "asked", "aborted", "AbortFetch") PROVE ValueShape'
    BY <1>10, ValuesTyped, NoCallTyped, StreamTyped, CallTyped, QueuesTyped, ReplyTyped,
       CompletionTyped
       DEF ValueShape, CallShape, WorkerRecord, GotRecord, OptionalStream, Asks,
           dialNetVars, dialPipeVars, streamVars
<1>11. ASSUME NEW f \in Fetches, AsksSync(f) PROVE ValueShape'
    BY <1>11, ValuesTyped, NoCallTyped, StreamTyped, CallTyped, QueuesTyped, ReplyTyped,
       CompletionTyped
       DEF ValueShape, CallShape, WorkerRecord, GotRecord, OptionalStream, AsksSync,
           dialNetVars, dialPipeVars, streamVars
<1>12. ASSUME NEW f \in Fetches, AsksChunk(f) PROVE ValueShape'
    BY <1>12, ValuesTyped, NoCallTyped, StreamTyped, CallTyped, QueuesTyped, ReplyTyped,
       CompletionTyped
       DEF ValueShape, CallShape, WorkerRecord, GotRecord, OptionalStream, AsksChunk,
           dialNetVars, dialPipeVars, streamVars
<1>13. ASSUME NEW f \in Fetches, LetsGo(f) PROVE ValueShape'
    BY <1>13, ValuesTyped, NoCallTyped, StreamTyped, CallTyped, QueuesTyped, ReplyTyped,
       CompletionTyped
       DEF ValueShape, CallShape, WorkerRecord, GotRecord, OptionalStream, LetsGo,
           dialNetVars, dialPipeVars, streamVars
<1>14. CASE Replaced
    BY <1>14, ValuesTyped, NoCallTyped, StreamTyped, CallTyped, QueuesTyped, ReplyTyped,
       CompletionTyped
       DEF ValueShape, CallShape, WorkerRecord, GotRecord, OptionalStream, Replaced,
           dialNetVars, dialPipeVars, streamVars
<1>15. ASSUME NEW f \in Fetches, ServesDial(f) PROVE ValueShape'
  <2>0. worker' = [worker EXCEPT ![f].at = "global"]
      BY <1>15 DEF ServesDial
  <2>1. worker' \in [Fetches -> WorkerRecord]
      BY <2>0, QueuesTyped DEF NetShape, WorkerRecord
  <2> QED BY <1>15, <2>1, ValuesTyped DEF ValueShape, CallShape, ServesDial, streamVars
<1>16. ASSUME NEW f \in Fetches, ServesCancel(f) PROVE ValueShape'
  <2>1. worker[f] \in WorkerRecord /\ (worker[f].cancel \/ f \in dials) \in BOOLEAN
      BY QueuesTyped
  <2>2. worker' \in [Fetches -> WorkerRecord]
      BY <1>16, <2>1, ValuesTyped DEF ValueShape, WorkerRecord, ServesCancel
  <2> QED BY <1>16, <2>2, ValuesTyped DEF ValueShape, CallShape, ServesCancel, streamVars
<1>17. ASSUME NEW s \in Streams, ServesStream(s) PROVE ValueShape'
    BY <1>17, ClosedTyped, ValuesTyped, NoCallTyped DEF ValueShape, CallShape, ServesStream
<1>18. ASSUME NEW s \in Streams, ServesRead(s) PROVE ValueShape'
    BY <1>18, ValuesTyped, NoCallTyped, StreamTyped, CallTyped, QueuesTyped, ReplyTyped,
       CompletionTyped
       DEF ValueShape, CallShape, WorkerRecord, GotRecord, OptionalStream, ServesRead,
           dialNetVars, dialPipeVars, streamVars
<1>19. ASSUME NEW s \in Streams, ServesGone(s) PROVE ValueShape'
    BY <1>19, ValuesTyped, NoCallTyped, StreamTyped, CallTyped, QueuesTyped, ReplyTyped,
       CompletionTyped
       DEF ValueShape, CallShape, WorkerRecord, GotRecord, OptionalStream, ServesGone,
           Replies, dialNetVars, dialPipeVars, streamVars
<1>20. ASSUME NEW s \in Streams, ReadsChunk(s) PROVE ValueShape'
  <2>1. buffer[s] \in Seq(Messages) /\ buffer[s] # <<>>
      BY <1>20, ValuesTyped DEF ValueShape, ReadsChunk
  <2>2. Tail(buffer[s]) \in Seq(Messages)
      BY <2>1
  <2>3. buffer' \in [Streams -> Seq(Messages)]
      BY <1>20, <2>2, ValuesTyped DEF ValueShape, ReadsChunk
  <2> QED BY <1>20, <2>3, ValuesTyped, NoCallTyped DEF ValueShape, CallShape, ReadsChunk
<1>21. ASSUME NEW s \in Streams, NEW op \in {"End", "Error"}, ReadsEnd(s, op) PROVE ValueShape'
    BY <1>21, ClosedTyped, ValuesTyped, NoCallTyped DEF ValueShape, CallShape, ReadsEnd
<1>22. ASSUME NEW r \in DialReplies, Completed(r) PROVE ValueShape'
    BY <1>22, ValuesTyped, NoCallTyped, StreamTyped, CallTyped, QueuesTyped, ReplyTyped,
       CompletionTyped
       DEF ValueShape, CallShape, WorkerRecord, GotRecord, OptionalStream, Completed,
           dialNetVars, dialPipeVars, streamVars
<1>23. ASSUME NEW r \in DialReplies, CompletedSync(r) PROVE ValueShape'
    BY <1>23, ValuesTyped, NoCallTyped, StreamTyped, CallTyped, QueuesTyped, ReplyTyped,
       CompletionTyped
       DEF ValueShape, CallShape, WorkerRecord, GotRecord, OptionalStream,
           CompletedSync, dialNetVars, dialPipeVars, streamVars
<1>24. ASSUME NEW f \in Fetches, GetsChunk(f) PROVE ValueShape'
  <2>0. got' = [got EXCEPT ![f].chunks = @ + 1]
      BY <1>24 DEF GetsChunk
  <2>1. got' \in [Fetches -> GotRecord]
      BY <2>0, QueuesTyped DEF PageShape, GotRecord
  <2> QED BY <1>24, <2>1, ValuesTyped, NoCallTyped DEF ValueShape, CallShape, GetsChunk, dialNetVars, streamVars
<1>25. ASSUME NEW f \in Fetches, GetsUnit(f) PROVE ValueShape'
    BY <1>25, ValuesTyped, NoCallTyped, StreamTyped, CallTyped, QueuesTyped, ReplyTyped,
       CompletionTyped
       DEF ValueShape, CallShape, WorkerRecord, GotRecord, OptionalStream, GetsUnit,
           dialNetVars, dialPipeVars, streamVars
<1>26. ASSUME NEW f \in Fetches, NEW op \in {"End", "Error"}, GetsEnd(f, op) PROVE ValueShape'
  <2>0. got' = [got EXCEPT ![f].end = op]
      BY <1>26 DEF GetsEnd
  <2>1. got' \in [Fetches -> GotRecord]
      BY <2>0, QueuesTyped DEF PageShape, GotRecord
  <2> QED BY <1>26, <2>1, ValuesTyped, NoCallTyped DEF ValueShape, CallShape, GetsEnd, dialNetVars, streamVars
<1>27. ASSUME NEW f \in Fetches, WorkerMoves(f) PROVE ValueShape'
    BY <1>27, ValuesTyped, NoCallTyped, StreamTyped, CallTyped, QueuesTyped, ReplyTyped,
       CompletionTyped
       DEF ValueShape, CallShape, WorkerRecord, GotRecord, OptionalStream, WorkerMoves,
           dialRendererVars, streamVars
<1>28. ASSUME NEW f \in Fetches, Streamed(f) PROVE ValueShape'
  <2>1. PICK s \in Streams : s = <<f, worker[f].attempt>>
      BY QueuesTyped, StreamTyped DEF WorkerRecord
  <2>2. worker' \in [Fetches -> WorkerRecord]
    <3>1. s \in OptionalStream /\ worker' = [worker EXCEPT ![f].at = "out", ![f].out = s]
        BY <1>28, <2>1 DEF Streamed, OptionalStream
    <3>2. worker[f] \in WorkerRecord
        BY QueuesTyped
    <3>3. [[worker[f] EXCEPT !.at = "out"] EXCEPT !.out = s] \in WorkerRecord
        BY <3>1, <3>2 DEF WorkerRecord
    <3>4. worker' = [worker EXCEPT ![f] = [[worker[f] EXCEPT !.at = "out"] EXCEPT !.out = s]]
        BY <3>1, QueuesTyped DEF NetShape
    <3> QED BY <3>3, <3>4, QueuesTyped DEF NetShape
  <2>3. netBody' \in [Streams -> BodyRecord] /\ table' \subseteq Streams
      BY <1>28, <2>1, ValuesTyped DEF ValueShape, BodyRecord, Streamed
  <2> QED BY <1>28, <2>2, <2>3, ValuesTyped DEF ValueShape, CallShape, Streamed, Undisturbed, dialRendererVars
<1>29. ASSUME NEW f \in Fetches, Answers(f) PROVE ValueShape'
  <2>0. worker' = [worker EXCEPT ![f].at = "replied"]
      BY <1>29 DEF Answers
  <2>1. worker' \in [Fetches -> WorkerRecord]
      BY <2>0, QueuesTyped DEF NetShape, WorkerRecord
  <2> QED BY <1>29, <2>1, ValuesTyped DEF ValueShape, CallShape, Answers, dialRendererVars, streamVars
<1>30. ASSUME NEW s \in Streams, BodyChunk(s) PROVE ValueShape'
  <2>1. "Chunk" \in Messages /\ SendDial(s, "Chunk")
      BY <1>30 DEF Messages, BodyChunk
  <2>2. buffer' \in [Streams -> Seq(Messages)]
      BY <2>1, SentTyped
  <2>3. netBody' \in [Streams -> BodyRecord]
      BY <1>30, ValuesTyped, DialAssumption DEF ValueShape, BodyRecord, DialAssumption, BodyChunk
  <2> QED BY <1>30, <2>2, <2>3, ValuesTyped DEF ValueShape, CallShape, BodyChunk, Undisturbed, dialRendererVars
<1>31. ASSUME NEW s \in Streams, BodyDone(s) PROVE ValueShape'
  <2>1. netBody' \in [Streams -> BodyRecord]
      BY <1>31, ValuesTyped DEF ValueShape, BodyRecord, BodyDone
  <2>2. cache' \in 0..NoEntry
    <3>1. BodyLength \in 0..NoEntry
        BY DialAssumption DEF DialAssumption, NoEntry
    <3> QED BY <1>31, <3>1, ValuesTyped DEF ValueShape, BodyDone
  <2> QED BY <1>31, <2>1, <2>2, ValuesTyped DEF ValueShape, CallShape, BodyDone, Undisturbed, dialRendererVars
<1>32. ASSUME NEW s \in Streams, BodyEnds(s) PROVE ValueShape'
  <2>1. "End" \in Messages /\ SendDial(s, "End")
      BY <1>32 DEF Messages, BodyEnds, BodyOver
  <2>2. buffer' \in [Streams -> Seq(Messages)]
      BY <2>1, SentTyped
  <2>3. netBody' \in [Streams -> BodyRecord]
      BY <1>32, ValuesTyped, DialAssumption DEF ValueShape, BodyRecord, DialAssumption, BodyEnds, BodyOver
  <2> QED BY <1>32, <2>2, <2>3, ValuesTyped DEF ValueShape, CallShape, BodyEnds, BodyOver, Undisturbed, dialRendererVars
<1>33. ASSUME NEW s \in Streams, BodyFails(s) PROVE ValueShape'
  <2>1. "Error" \in Messages /\ SendDial(s, "Error")
      BY <1>33 DEF Messages, BodyFails, BodyOver
  <2>2. buffer' \in [Streams -> Seq(Messages)]
      BY <2>1, SentTyped
  <2>3. netBody' \in [Streams -> BodyRecord]
      BY <1>33, ValuesTyped, DialAssumption DEF ValueShape, BodyRecord, DialAssumption, BodyFails, BodyOver
  <2> QED BY <1>33, <2>2, <2>3, ValuesTyped DEF ValueShape, CallShape, BodyFails, BodyOver, Undisturbed, dialRendererVars
<1> QED
    BY <1>1, <1>2, <1>3, <1>4, <1>5, <1>6, <1>7, <1>8, <1>9, <1>10, <1>11, <1>12, <1>13,
       <1>14, <1>15, <1>16, <1>17, <1>18, <1>19, <1>20, <1>21, <1>22, <1>23, <1>24,
       <1>25, <1>26, <1>27, <1>28, <1>29, <1>30, <1>31, <1>32, <1>33 DEF DialStep

(* ... and of what they leave out. *)
ControlShape ==
    /\ step \in {"adopt", "requests", "launch", "adoptAgain", "task"}
    /\ resets \in 0..MaxResets
    /\ dials \subseteq Fetches

LEMMA ControlStep ==
  ASSUME DialInv, [DialsNext]_dialVars
  PROVE  ControlShape'
<1>1. ControlShape
    BY QueuesTyped DEF ControlShape, PageShape, NetShape
<1>2. CASE Drain
  <2>1. UNCHANGED <<resets, dials>>
      BY <1>2 DEF Drain, Adopt, ApplyRequests, Launch, RunTask, Wake
  <2>2. step' \in {"adopt", "requests", "launch", "adoptAgain", "task"}
    <3>1. CASE Adopt
        BY <1>1, <3>1 DEF ControlShape, Adopt, Adoption, AfterAdoption
    <3>2. CASE ApplyRequests \/ Launch \/ RunTask \/ Wake
        BY <1>1, <3>2 DEF ControlShape, ApplyRequests, Launch, RunTask, Wake
    <3> QED BY <1>2, <3>1, <3>2 DEF Drain
  <2> QED BY <1>1, <2>1, <2>2 DEF ControlShape
<1>3. CASE Reset
    BY <1>1, <1>3, DialAssumption DEF ControlShape, Reset, DialAssumption
<1>4. ASSUME NEW f \in Fetches, Fetch(f) \/ FetchSync(f) \/ Abort(f) \/ Read(f) \/ Cancel(f)
      PROVE  ControlShape'
    BY <1>1, <1>4 DEF ControlShape, Fetch, FetchSync, Abort, Read, Cancel, ScriptRan
<1>5. CASE Serve
  <2>1. UNCHANGED <<step, resets>>
      BY <1>5 DEF Serve, dialRendererVars
  <2>2. Head(calls) \in DialCalls \cup StreamCalls
      BY <1>5, QueuesTyped, QueueTaken DEF Serve, QueueShape
  <2>3. Head(calls)[1] = "Dial" => Head(calls)[2] \in Fetches
      BY <2>2, CallCases
  <2>4. dials' \subseteq Fetches
      BY <1>1, <1>5, <2>3 DEF Serve, ControlShape
  <2> QED BY <1>1, <2>1, <2>4 DEF ControlShape
<1>6. CASE ReadStream \/ BytesReceived
    BY <1>1, <1>6 DEF ControlShape, ReadStream, BytesReceived, dialRendererVars
<1>7. ASSUME NEW f \in Fetches, Worker(f) \/ Cancelled(f) PROVE ControlShape'
    BY <1>1, <1>7 DEF ControlShape, Worker, Acquire, Respond, CacheHit, AcquireGlobal, AcquireTab, Deadline,
                      DialAnswered, Streamed, Misdirected, EndDial, Cancelled, Undisturbed, dialRendererVars
<1>8. ASSUME NEW s \in Streams, Body(s) PROVE ControlShape'
    BY <1>1, <1>8 DEF ControlShape, Body, BodyChunk, BodyDone, BodyEnds, BodyFails, BodyOver,
                      Undisturbed, dialRendererVars
<1>9. CASE UNCHANGED dialVars
    BY <1>1, <1>9 DEF ControlShape, dialVars, dialRendererVars
<1> QED
    BY <1>2, <1>3, <1>4, <1>5, <1>6, <1>7, <1>8, <1>9 DEF DialsNext, System, Service, PageScript

(* The permits, by the sets of those who hold them. *)
At(w, x) == {f \in Fetches : w[f].at = x}
Bodies(b) == {s \in Streams : b[s].at \in {"run", "closing"}}

LEMMA HoldersFinite ==
  ASSUME NEW w, NEW x, NEW b
  PROVE  /\ IsFiniteSet(At(w, x)) /\ Cardinality(At(w, x)) \in Nat
         /\ IsFiniteSet(Bodies(b)) /\ Cardinality(Bodies(b)) \in Nat
<1>1. IsFiniteSet(Fetches)
    BY DialAssumption DEF DialAssumption
<1>2. IsFiniteSet({1, 2})
  <2>1. IsFiniteSet({1} \cup {2})
      BY FS_Singleton, FS_AddElement
  <2>2. {1} \cup {2} = {1, 2}
      OBVIOUS
  <2> QED BY <2>1, <2>2
<1>3. IsFiniteSet(Streams)
    BY <1>1, <1>2, FS_Product DEF Streams
<1>4. IsFiniteSet(At(w, x))
  <2>1. At(w, x) \in SUBSET Fetches
      BY DEF At
  <2> QED BY <1>1, <2>1, FS_Subset
<1>5. IsFiniteSet(Bodies(b))
  <2>1. Bodies(b) \in SUBSET Streams
      BY DEF Bodies
  <2> QED BY <1>3, <2>1, FS_Subset
<1> QED BY <1>4, <1>5, FS_CardinalityType

One(b) == IF b THEN 1 ELSE 0

LEMMA HolderCounted ==
  ASSUME NEW S, NEW T, IsFiniteSet(S), NEW e, NEW was \in BOOLEAN, NEW is \in BOOLEAN,
         was <=> e \in S, T = IF is THEN S \cup {e} ELSE S \ {e}
  PROVE  Cardinality(T) = Cardinality(S) + One(is) - One(was)
<1>0. Cardinality(S) \in Nat
    BY FS_CardinalityType
<1>1. CASE is
  <2>1. Cardinality(T) = IF e \in S THEN Cardinality(S) ELSE Cardinality(S) + 1
      BY <1>1, FS_AddElement
  <2> QED BY <1>0, <1>1, <2>1 DEF One
<1>2. CASE ~ is
  <2>1. Cardinality(T) = IF e \in S THEN Cardinality(S) - 1 ELSE Cardinality(S)
      BY <1>2, FS_RemoveElement
  <2> QED BY <1>0, <1>2, <2>1 DEF One
<1> QED BY <1>1, <1>2

LEMMA WorkersCounted ==
  ASSUME NEW w, NEW v, NEW f \in Fetches, NEW x, \A g \in Fetches \ {f} : v[g] = w[g]
  PROVE  Cardinality(At(v, x)) = Cardinality(At(w, x)) + One(f \in At(v, x)) - One(f \in At(w, x))
<1>1. IsFiniteSet(At(w, x))
    BY HoldersFinite
<1>2. At(v, x) = IF f \in At(v, x) THEN At(w, x) \cup {f} ELSE At(w, x) \ {f}
    BY DEF At
<1>3. (f \in At(v, x)) \in BOOLEAN /\ (f \in At(w, x)) \in BOOLEAN
    OBVIOUS
<1> QED BY <1>1, <1>2, <1>3, HolderCounted

LEMMA BodiesCounted ==
  ASSUME NEW b, NEW c, NEW s \in Streams, \A t \in Streams \ {s} : c[t] = b[t]
  PROVE  Cardinality(Bodies(c)) = Cardinality(Bodies(b)) + One(s \in Bodies(c)) - One(s \in Bodies(b))
<1>1. IsFiniteSet(Bodies(b))
    BY HoldersFinite
<1>2. Bodies(c) = IF s \in Bodies(c) THEN Bodies(b) \cup {s} ELSE Bodies(b) \ {s}
    BY DEF Bodies
<1>3. (s \in Bodies(b)) \in BOOLEAN /\ (s \in Bodies(c)) \in BOOLEAN
    OBVIOUS
<1> QED BY <1>1, <1>2, <1>3, HolderCounted

PermitsTyped == free \in [tab : Nat, global : Nat]

LEMMA PermitsMoved ==
  ASSUME DialInv, StreamInv', NEW a \in Int, NEW b \in Int, NEW c \in Int,
         Cardinality(At(worker', "send")) = Cardinality(At(worker, "send")) + a,
         Cardinality(At(worker', "tab")) = Cardinality(At(worker, "tab")) + b,
         Cardinality(Bodies(netBody')) = Cardinality(Bodies(netBody)) + c,
         PermitsTyped', free'.tab = free.tab - a - c, free'.global = free.global - a - b - c
  PROVE  PermitsHeld' /\ PermitsTyped'
<1>1. /\ Cardinality(At(worker, "send")) \in Nat /\ Cardinality(At(worker, "tab")) \in Nat
      /\ Cardinality(Bodies(netBody)) \in Nat
    BY HoldersFinite
<1>2. Bodies(netBody') \subseteq table'
    BY DEF StreamInv, StreamOK, Bodies
<1>3. /\ free.tab + (Cardinality(At(worker, "send")) + Cardinality(Bodies(netBody))) = TabDials
      /\ free.global + (Cardinality(At(worker, "send")) + Cardinality(Bodies(netBody)))
            + Cardinality(At(worker, "tab")) = GlobalDials
    BY DEF DialInv, PermitsHeld, Holding, At, Bodies
<1>4. free.tab \in Nat /\ free.global \in Nat
    BY QueuesTyped DEF NetShape
<1>5. free'.tab + (Cardinality(At(worker', "send")) + Cardinality(Bodies(netBody'))) = TabDials
    BY <1>1, <1>3, <1>4
<1>6. free'.global + (Cardinality(At(worker', "send")) + Cardinality(Bodies(netBody')))
            + Cardinality(At(worker', "tab")) = GlobalDials
    BY <1>1, <1>3, <1>4
<1> QED BY <1>2, <1>5, <1>6 DEF PermitsHeld, Holding, At, Bodies

(* Nobody takes or gives back a permit, ... *)
LEMMA PermitsStay ==
  ASSUME DialInv, StreamInv', UNCHANGED free,
         \A f \in Fetches, x \in {"send", "tab"} : worker'[f].at = x <=> worker[f].at = x,
         \A s \in Streams : s \in Bodies(netBody') <=> s \in Bodies(netBody)
  PROVE  PermitsHeld' /\ PermitsTyped'
<1>1. At(worker', "send") = At(worker, "send") /\ At(worker', "tab") = At(worker, "tab")
    BY DEF At
<1>2. Bodies(netBody') = Bodies(netBody)
    BY DEF Bodies
<1>3. PermitsTyped' /\ free.tab \in Nat /\ free.global \in Nat
    BY QueuesTyped DEF PermitsTyped, NetShape
<1>4. /\ Cardinality(At(worker', "send")) = Cardinality(At(worker, "send")) + 0
      /\ Cardinality(At(worker', "tab")) = Cardinality(At(worker, "tab")) + 0
      /\ Cardinality(Bodies(netBody')) = Cardinality(Bodies(netBody)) + 0
    BY <1>1, <1>2, HoldersFinite
<1>5. free'.tab = free.tab - 0 - 0 /\ free'.global = free.global - 0 - 0 - 0
    BY <1>3
<1>6. 0 \in Int
    OBVIOUS
<1> QED BY <1>3, <1>4, <1>5, <1>6, PermitsMoved

(* ... a worker does, ... *)
LEMMA WorkerPermits ==
  ASSUME DialInv, StreamInv', NEW f \in Fetches, UNCHANGED netBody,
         \A g \in Fetches \ {f} : worker'[g] = worker[g],
         NEW a \in Int, NEW b \in Int,
         a = One(worker'[f].at = "send") - One(worker[f].at = "send"),
         b = One(worker'[f].at = "tab") - One(worker[f].at = "tab"),
         free' = [tab |-> free.tab - a, global |-> free.global - a - b],
         free.tab - a >= 0, free.global - a - b >= 0
  PROVE  PermitsHeld' /\ PermitsTyped'
<1>1. /\ Cardinality(At(worker', "send")) = Cardinality(At(worker, "send")) + a
      /\ Cardinality(At(worker', "tab")) = Cardinality(At(worker, "tab")) + b
  <2>1. \A x : Cardinality(At(worker', x)) = Cardinality(At(worker, x)) + One(f \in At(worker', x))
                 - One(f \in At(worker, x))
      BY WorkersCounted
  <2>2. Cardinality(At(worker, "send")) \in Nat /\ Cardinality(At(worker, "tab")) \in Nat
      BY HoldersFinite
  <2>3. /\ a = One(f \in At(worker', "send")) - One(f \in At(worker, "send"))
        /\ b = One(f \in At(worker', "tab")) - One(f \in At(worker, "tab"))
      BY DEF One, At
  <2>4. \A x : One(f \in At(worker', x)) \in {0, 1} /\ One(f \in At(worker, x)) \in {0, 1}
      BY DEF One
  <2> QED BY <2>1, <2>2, <2>3, <2>4
<1>2. Cardinality(Bodies(netBody')) = Cardinality(Bodies(netBody)) + 0
    BY HoldersFinite
<1>3. free.tab \in Nat /\ free.global \in Nat
    BY QueuesTyped DEF NetShape
<1>4. PermitsTyped' /\ free'.tab = free.tab - a - 0 /\ free'.global = free.global - a - b - 0
    BY <1>3 DEF PermitsTyped
<1>5. 0 \in Int
    OBVIOUS
<1> QED BY <1>1, <1>2, <1>4, <1>5, PermitsMoved

(* ... or the body task of a stream that ends or is aborted. *)
LEMMA BodyPermits ==
  ASSUME DialInv, StreamInv', NEW s \in Streams, UNCHANGED worker,
         \A t \in Streams \ {s} : netBody'[t] = netBody[t],
         s \in Bodies(netBody), s \notin Bodies(netBody'), free' = Back(1)
  PROVE  PermitsHeld' /\ PermitsTyped'
<1>1. Cardinality(Bodies(netBody')) = Cardinality(Bodies(netBody)) + (-1)
  <2>1. Cardinality(Bodies(netBody')) = Cardinality(Bodies(netBody)) + One(s \in Bodies(netBody'))
            - One(s \in Bodies(netBody))
      BY BodiesCounted
  <2>2. One(s \in Bodies(netBody')) = 0 /\ One(s \in Bodies(netBody)) = 1
      BY DEF One
  <2> QED BY <2>1, <2>2, HoldersFinite
<1>2. /\ Cardinality(At(worker', "send")) = Cardinality(At(worker, "send")) + 0
      /\ Cardinality(At(worker', "tab")) = Cardinality(At(worker, "tab")) + 0
    BY HoldersFinite
<1>3. free.tab \in Nat /\ free.global \in Nat
    BY QueuesTyped DEF NetShape
<1>4. PermitsTyped' /\ free'.tab = free.tab - 0 - (-1) /\ free'.global = free.global - 0 - 0 - (-1)
    BY <1>3 DEF PermitsTyped, Back
<1>5. 0 \in Int /\ -1 \in Int
    OBVIOUS
<1> QED BY <1>1, <1>2, <1>4, <1>5, PermitsMoved

LEMMA RemovePermits ==
  ASSUME DialInv, StreamInv', NEW s \in Streams, UNCHANGED worker, RemoveStream(s)
  PROVE  PermitsHeld' /\ PermitsTyped'
<1>1. /\ netBody'[s].at = IF s \in table /\ s \in Bodies(netBody) THEN "aborted" ELSE netBody[s].at
      /\ free' = IF s \in table /\ s \in Bodies(netBody) THEN Back(1) ELSE free
      /\ \A t \in Streams \ {s} : netBody'[t] = netBody[t]
    BY ValuesTyped DEF ValueShape, BodyRecord, RemoveStream, Holding, Bodies
<1>2. CASE s \in table /\ s \in Bodies(netBody)
  <2>1. s \notin Bodies(netBody')
      BY <1>1, <1>2 DEF Bodies
  <2> QED BY <1>1, <1>2, <2>1, BodyPermits
<1>3. CASE ~ (s \in table /\ s \in Bodies(netBody))
  <2>1. \A t \in Streams : t \in Bodies(netBody') <=> t \in Bodies(netBody)
      BY <1>1, <1>3 DEF Bodies
  <2> QED BY <1>1, <1>3, <2>1, PermitsStay
<1> QED BY <1>2, <1>3

LEMMA PermitStep ==
  ASSUME DialInv, StreamInv', [DialsNext]_dialVars
  PROVE  PermitsHeld' /\ PermitsTyped'
<1>1. CASE UNCHANGED <<free, worker, netBody>>
    BY <1>1, PermitsStay
<1>2. CASE Serve
  <2>1. Head(calls) \in DialCalls \cup StreamCalls /\ Head(calls) \in ToSet(calls)
      BY <1>2, QueuesTyped, QueueTaken DEF Serve, QueueShape, Takes
  <2>2. CASE Head(calls)[1] = "Dial"
    <3>1. PICK f \in Fetches : Head(calls) = <<"Dial", f>>
        BY <2>1, <2>2, CallCases
    <3>2. worker[f].at = "none"
        BY <2>1, <3>1 DEF DialInv, LaunchInv
    <3>3. worker' = [worker EXCEPT ![f].at = "global"] /\ UNCHANGED <<free, netBody>>
        BY <1>2, <3>1 DEF Serve
    <3>4. \A g \in Fetches, x \in {"send", "tab"} : worker'[g].at = x <=> worker[g].at = x
        BY <3>2, <3>3, ValuesTyped DEF ValueShape, WorkerRecord
    <3> QED BY <3>3, <3>4, PermitsStay
  <2>3. CASE Head(calls)[1] = "CancelDial"
    <3>1. PICK f \in Fetches : Head(calls) = <<"CancelDial", f>>
        BY <2>1, <2>3, CallCases
    <3>2. worker' = [worker EXCEPT ![f].cancel = @ \/ f \in dials] /\ UNCHANGED <<free, netBody>>
        BY <1>2, <3>1 DEF Serve
    <3>3. \A g \in Fetches : worker'[g].at = worker[g].at
        BY <3>2, ValuesTyped DEF ValueShape, WorkerRecord
    <3> QED BY <3>2, <3>3, PermitsStay
  <2>4. CASE Head(calls)[1] = "CancelStream"
    <3>1. PICK s \in Streams : Head(calls) = <<"CancelStream", s>>
        BY <2>1, <2>4, CallCases
    <3>2. RemoveStream(s) /\ UNCHANGED worker
        BY <1>2, <3>1 DEF Serve
    <3> QED BY <3>2, RemovePermits
  <2>5. CASE Head(calls)[1] = "DialRead"
      BY <1>1, <1>2, <2>5 DEF Serve
  <2> QED BY <2>1, <2>2, <2>3, <2>4, <2>5, CallCases
<1>3. CASE ReadStream
  <2>1. reading \in Streams /\ UNCHANGED worker
      BY <1>3, QueuesTyped DEF ReadStream, CallShape, OptionalStream
  <2>2. RemoveStream(reading) \/ UNCHANGED <<netBody, free>>
      BY <1>3 DEF ReadStream
  <2> QED BY <1>1, <2>1, <2>2, RemovePermits
<1>4. ASSUME NEW f \in Fetches, Worker(f) \/ Cancelled(f), ~ Streamed(f) PROVE PermitsHeld' /\ PermitsTyped'
  <2>0. /\ worker[f] \in WorkerRecord /\ free.tab \in Nat /\ free.global \in Nat
        /\ free = [tab |-> free.tab, global |-> free.global]
      BY QueuesTyped DEF NetShape
  <2>1. UNCHANGED netBody
      BY <1>4 DEF Worker, Acquire, Respond, CacheHit, AcquireGlobal, AcquireTab, Deadline, DialAnswered,
                  Misdirected, Discarded, EndDial, Cancelled, streamVars
  <2>2. ASSUME NEW from, NEW to, worker[f].at = from, worker' = [worker EXCEPT ![f].at = to]
        PROVE  worker'[f].at = to /\ \A g \in Fetches \ {f} : worker'[g] = worker[g]
      BY <2>2, ValuesTyped DEF ValueShape, WorkerRecord
  <2>3. CASE CacheHit(f) \/ EndDial(f)
    <3>1. /\ worker[f].at \in {"global", "out"} /\ UNCHANGED free
          /\ worker' = [worker EXCEPT ![f].at = "out"] \/ worker' = [worker EXCEPT ![f].at = "replied"]
        BY <2>3 DEF CacheHit, EndDial, Work
    <3>2. worker'[f].at \in {"out", "replied"} /\ \A g \in Fetches \ {f} : worker'[g] = worker[g]
        BY <2>2, <3>1
    <3>3. \A g \in Fetches, x \in {"send", "tab"} : worker'[g].at = x <=> worker[g].at = x
        BY <3>1, <3>2
    <3> QED BY <2>1, <3>1, <3>3, PermitsStay
  <2>5. CASE AcquireGlobal(f)
    <3>1. worker[f].at = "global" /\ worker' = [worker EXCEPT ![f].at = "tab"]
        BY <2>5 DEF AcquireGlobal, Work
    <3>2. free' = [tab |-> free.tab - 0, global |-> free.global - 0 - 1]
        BY <2>0, <2>5 DEF AcquireGlobal
    <3>3. free.tab - 0 >= 0 /\ free.global - 0 - 1 >= 0
        BY <2>0, <2>5 DEF AcquireGlobal
    <3>4. worker'[f].at = "tab" /\ \A g \in Fetches \ {f} : worker'[g] = worker[g]
        BY <2>2, <3>1
    <3>5. /\ 0 = One(worker'[f].at = "send") - One(worker[f].at = "send")
          /\ 1 = One(worker'[f].at = "tab") - One(worker[f].at = "tab")
        BY <3>1, <3>4 DEF One
    <3> QED BY <2>1, <3>2, <3>3, <3>4, <3>5, WorkerPermits
  <2>6. CASE AcquireTab(f)
    <3>1. worker[f].at = "tab" /\ worker' = [worker EXCEPT ![f].at = "send"]
        BY <2>6 DEF AcquireTab, Work
    <3>2. free' = [tab |-> free.tab - 1, global |-> free.global - 1 - (-1)]
        BY <2>0, <2>6 DEF AcquireTab
    <3>3. free.tab - 1 >= 0 /\ free.global - 1 - (-1) >= 0
        BY <2>0, <2>6 DEF AcquireTab
    <3>4. worker'[f].at = "send" /\ \A g \in Fetches \ {f} : worker'[g] = worker[g]
        BY <2>2, <3>1
    <3>5. /\ 1 = One(worker'[f].at = "send") - One(worker[f].at = "send")
          /\ -1 = One(worker'[f].at = "tab") - One(worker[f].at = "tab")
        BY <3>1, <3>4 DEF One
    <3> QED BY <2>1, <3>2, <3>3, <3>4, <3>5, WorkerPermits
  <2>7. ASSUME worker[f].at \in {"global", "tab", "send"}, worker'[f].at \in {"out", "global"},
               \A g \in Fetches \ {f} : worker'[g] = worker[g], free' = Stopped(f)
        PROVE  PermitsHeld' /\ PermitsTyped'
    <3>1. CASE worker[f].at = "global"
      <4>1. UNCHANGED free
          BY <2>0, <2>7, <3>1 DEF Stopped
      <4>2. \A g \in Fetches, x \in {"send", "tab"} : worker'[g].at = x <=> worker[g].at = x
          BY <2>7, <3>1
      <4> QED BY <2>1, <4>1, <4>2, PermitsStay
    <3>2. CASE worker[f].at = "tab"
      <4>1. free' = [tab |-> free.tab - 0, global |-> free.global - 0 - (-1)]
          BY <2>0, <2>7, <3>2 DEF Stopped
      <4>2. /\ 0 = One(worker'[f].at = "send") - One(worker[f].at = "send")
            /\ -1 = One(worker'[f].at = "tab") - One(worker[f].at = "tab")
          BY <2>7, <3>2 DEF One
      <4>3. free.tab - 0 >= 0 /\ free.global - 0 - (-1) >= 0
          BY <2>0
      <4> QED BY <2>1, <2>7, <4>1, <4>2, <4>3, WorkerPermits
    <3>3. CASE worker[f].at = "send"
      <4>1. free' = [tab |-> free.tab - (-1), global |-> free.global - (-1) - 0]
          BY <2>0, <2>7, <3>3 DEF Stopped
      <4>2. /\ -1 = One(worker'[f].at = "send") - One(worker[f].at = "send")
            /\ 0 = One(worker'[f].at = "tab") - One(worker[f].at = "tab")
          BY <2>7, <3>3 DEF One
      <4>3. free.tab - (-1) >= 0 /\ free.global - (-1) - 0 >= 0
          BY <2>0
      <4> QED BY <2>1, <2>7, <4>1, <4>2, <4>3, WorkerPermits
    <3> QED BY <2>7, <3>1, <3>2, <3>3
  <2>8. CASE Deadline(f) \/ Cancelled(f) \/ DialAnswered(f)
    <3>1. /\ worker[f].at \in {"global", "tab", "send"} /\ worker' = [worker EXCEPT ![f].at = "out"]
          /\ free' = Stopped(f)
        BY <2>8 DEF Deadline, Cancelled, DialAnswered, Work
    <3> QED BY <2>2, <2>7, <3>1
  <2>9. CASE Misdirected(f)
    <3>1. /\ worker[f].at = "send" /\ free' = Stopped(f)
          /\ worker' = [worker EXCEPT ![f].at = "global", ![f].attempt = 2]
        BY <2>9 DEF Misdirected, Discarded
    <3>2. worker'[f].at = "global" /\ \A g \in Fetches \ {f} : worker'[g] = worker[g]
        BY <3>1, ValuesTyped DEF ValueShape, WorkerRecord
    <3> QED BY <2>7, <3>1, <3>2
  <2> QED BY <1>4, <2>3, <2>5, <2>6, <2>8, <2>9 DEF Worker, Acquire, Respond
<1>5. ASSUME NEW f \in Fetches, Streamed(f) PROVE PermitsHeld' /\ PermitsTyped'
  <2>1. worker[f].at = "send" /\ UNCHANGED free
      BY <1>5 DEF Streamed
  <2>2. PICK s \in Streams : s = <<f, worker[f].attempt>> /\ s[1] = f
      BY QueuesTyped, StreamTyped DEF WorkerRecord
  <2>3. /\ worker'[f].at = "out" /\ \A g \in Fetches \ {f} : worker'[g] = worker[g]
        /\ netBody'[s].at = "run" /\ \A t \in Streams \ {s} : netBody'[t] = netBody[t]
      BY <1>5, <2>2, ValuesTyped DEF Streamed, ValueShape, WorkerRecord, BodyRecord
  <2>4. s \notin Bodies(netBody) /\ s \in Bodies(netBody')
    <3>1. worker[f].out = NoStream /\ StreamOK(s)
        BY <2>1, <2>2 DEF DialInv, WorkerInv, StreamInv
    <3> QED BY <2>2, <2>3, <3>1, StreamTyped DEF StreamOK, Bodies
  <2>5. /\ Cardinality(At(worker', "send")) = Cardinality(At(worker, "send")) + (-1)
        /\ Cardinality(At(worker', "tab")) = Cardinality(At(worker, "tab")) + 0
        /\ Cardinality(Bodies(netBody')) = Cardinality(Bodies(netBody)) + 1
    <3>1. /\ One(f \in At(worker', "send")) = 0 /\ One(f \in At(worker, "send")) = 1
          /\ One(f \in At(worker', "tab")) = 0 /\ One(f \in At(worker, "tab")) = 0
          /\ One(s \in Bodies(netBody')) = 1 /\ One(s \in Bodies(netBody)) = 0
        BY <2>1, <2>3, <2>4 DEF One, At
    <3>2. \A x : Cardinality(At(worker', x)) = Cardinality(At(worker, x)) + One(f \in At(worker', x))
                   - One(f \in At(worker, x))
        BY <2>3, WorkersCounted
    <3>3. Cardinality(Bodies(netBody')) = Cardinality(Bodies(netBody)) + One(s \in Bodies(netBody'))
              - One(s \in Bodies(netBody))
        BY <2>3, BodiesCounted
    <3>4. /\ Cardinality(At(worker, "send")) \in Nat /\ Cardinality(At(worker, "tab")) \in Nat
          /\ Cardinality(Bodies(netBody)) \in Nat
        BY HoldersFinite
    <3> QED BY <3>1, <3>2, <3>3, <3>4
  <2>6. free.tab \in Nat /\ free.global \in Nat /\ PermitsTyped'
      BY <2>1, QueuesTyped DEF NetShape, PermitsTyped
  <2>7. free'.tab = free.tab - (-1) - 1 /\ free'.global = free.global - (-1) - 0 - 1
      BY <2>1, <2>6
  <2>8. 0 \in Int /\ 1 \in Int /\ -1 \in Int
      OBVIOUS
  <2> QED BY <2>5, <2>6, <2>7, <2>8, PermitsMoved
<1>6. ASSUME NEW s \in Streams, BodyChunk(s) \/ BodyDone(s) PROVE PermitsHeld' /\ PermitsTyped'
  <2>1. UNCHANGED <<free, worker>>
      BY <1>6 DEF BodyChunk, BodyDone
  <2>2. /\ netBody[s].at = "run" /\ netBody'[s].at \in {"run", "closing"}
        /\ \A t \in Streams \ {s} : netBody'[t] = netBody[t]
      BY <1>6, ValuesTyped DEF BodyChunk, BodyDone, ValueShape, BodyRecord
  <2>3. \A t \in Streams : t \in Bodies(netBody') <=> t \in Bodies(netBody)
      BY <2>2 DEF Bodies
  <2> QED BY <2>1, <2>3, PermitsStay
<1>7. ASSUME NEW s \in Streams, BodyEnds(s) \/ BodyFails(s) PROVE PermitsHeld' /\ PermitsTyped'
  <2>1. free' = Back(1) /\ UNCHANGED worker
      BY <1>7 DEF BodyEnds, BodyFails, BodyOver
  <2>2. /\ netBody[s].at \in {"run", "closing"} /\ netBody'[s].at = "over"
        /\ \A t \in Streams \ {s} : netBody'[t] = netBody[t]
      BY <1>7, ValuesTyped DEF BodyEnds, BodyFails, BodyOver, ValueShape, BodyRecord
  <2>3. s \in Bodies(netBody) /\ s \notin Bodies(netBody')
      BY <2>2 DEF Bodies
  <2> QED BY <2>1, <2>2, <2>3, BodyPermits
<1>8. CASE Drain \/ PageScript \/ BytesReceived \/ UNCHANGED dialVars
  <2>1. UNCHANGED <<free, worker, netBody>>
      BY <1>8 DEF Drain, Adopt, ApplyRequests, Launch, RunTask, Wake, PageScript, Reset, Fetch, FetchSync, Abort,
                  Read, Cancel, ScriptRan, BytesReceived, dialVars, streamVars
  <2> QED BY <1>1, <2>1
<1> QED
    BY <1>2, <1>3, <1>4, <1>5, <1>6, <1>7, <1>8 DEF DialsNext, System, Service, Worker, Respond, Body

(* The initial state has empty queues, no worker and no stream. *)
LEMMA DialInitially ==
  ASSUME DialsInit
  PROVE  DialInv
<1>1. /\ <<>> \in Seq(PageRequests) /\ <<>> \in Seq(Completions) /\ <<>> \in Seq(DialCalls \cup StreamCalls)
      /\ <<>> \in Seq(DialReplies \cup StreamReplies) /\ <<>> \in Seq(Messages)
      /\ ToSet(<<>>) = {} /\ \A P : Once(<<>>, P)
    BY QueueEmpty
<1>2. /\ ToSet(dialOutbox) = {} /\ ToSet(channel) = {} /\ ToSet(dialTasks) = {}
      /\ ToSet(calls) = {} /\ ToSet(dialReplies) = {}
      /\ \A P : /\ Once(dialOutbox, P) /\ Once(channel, P) /\ Once(dialTasks, P)
                /\ Once(calls, P) /\ Once(dialReplies, P)
    BY <1>1 DEF DialsInit
<1>3. /\ \A f \in Fetches : /\ dialPage[f] = "new" /\ filed[f] = "none"
                            /\ worker[f].at = "none" /\ worker[f].out = NoStream
                            /\ got[f].chunks = 0 /\ got[f].end = "no"
      /\ \A s \in Streams : netBody[s].at = "none" /\ netBody[s].read = 0 /\ buffer[s] = <<>>
    BY DEF DialsInit
<1>4. threadBlocked = <<>> /\ reading = NoStream /\ table = {} /\ cache = NoEntry
    BY DEF DialsInit
<1>5. /\ BodyLength \in Nat /\ Depth \in Nat /\ TabDials \in Nat /\ GlobalDials \in Nat
      /\ MaxResets \in Nat
    BY DialAssumption DEF DialAssumption
<1>6. PageShape
    BY <1>5 DEF DialsInit, PageShape, GotRecord
<1>7. QueueShape
    BY <1>1 DEF DialsInit, QueueShape
<1>8. CallShape
    BY <1>4, NoCallTyped DEF CallShape
<1>9. NetShape
  <2>1. worker \in [Fetches -> WorkerRecord]
      BY NoCallTyped DEF DialsInit, WorkerRecord
  <2>2. netBody \in [Streams -> BodyRecord]
      BY <1>5 DEF DialsInit, BodyRecord
  <2>3. buffer \in [Streams -> Seq(Messages)]
      BY <1>1 DEF DialsInit
  <2>4. free \in [tab : Nat, global : Nat] /\ cache \in 0..NoEntry /\ dials \subseteq Fetches
      BY <1>5 DEF DialsInit, NoEntry
  <2> QED BY <1>4, <2>1, <2>2, <2>3, <2>4 DEF NetShape
<1>10. LaunchInv /\ WorkerInv
    BY <1>2, <1>3 DEF LaunchInv, WorkerInv
<1>11. StreamInv
  <2>1. Len(<<>>) = 0 /\ 1..0 = {}
      OBVIOUS
  <2>2. ASSUME NEW s \in Streams PROVE StreamOK(s)
      BY <1>3, <1>4, <1>5, <2>1 DEF StreamOK, ChunksFirst
  <2> QED BY <2>2 DEF StreamInv
<1>12. \A f \in Fetches : ~ Busy(f)
    BY <1>4, AboutCalls DEF Busy
<1>13. UntouchedInv /\ CompletionInv
    BY <1>2, <1>3, <1>12 DEF UntouchedInv, CompletionInv, Untouched
<1>14. BlockInv
    BY <1>2, <1>3, <1>4 DEF BlockInv
<1>15. OpenInv
  <2>1. ASSUME NEW f \in Fetches PROVE OpenOK(f)
      BY <1>2, <1>3 DEF OpenOK, Ended
  <2>2. \A s \in Streams : threadBlocked # <<"DialRead", s>> /\ threadBlocked # <<"CancelStream", s>>
      BY <1>4
  <2> QED BY <2>1, <2>2 DEF OpenInv
<1>16. CountInv /\ WatchInv
  <2>1. ASSUME NEW f \in Fetches PROVE FetchCount(f)
      BY <1>2, <1>3, <1>5 DEF FetchCount, Pending
  <2> QED BY <1>3, <1>4, <2>1 DEF CountInv, WholeBodies, WatchInv
<1>17. PermitsHeld
  <2>1. /\ {f \in Fetches : worker[f].at = "send"} = {} /\ {f \in Fetches : worker[f].at = "tab"} = {}
        /\ {s \in Streams : Holding(s)} = {}
      BY <1>3 DEF Holding
  <2>2. free.tab = TabDials /\ free.global = GlobalDials
      BY DEF DialsInit
  <2>3. Cardinality({}) = 0
      BY FS_EmptySet
  <2>4. /\ free.tab + (Cardinality({}) + Cardinality({})) = TabDials
        /\ free.global + (Cardinality({}) + Cardinality({})) + Cardinality({}) = GlobalDials
      BY <1>5, <2>2, <2>3
  <2> QED BY <2>1, <2>4, Zenon DEF PermitsHeld
<1> QED
    BY <1>6, <1>7, <1>8, <1>9, <1>10, <1>11, <1>13, <1>14, <1>15, <1>16, <1>17 DEF DialInv, DialShape

LEMMA DialInductive ==
  ASSUME DialInv, [DialsNext]_dialVars
  PROVE  DialInv'
<1>1. QueueShape' /\ DialStep
    BY EveryStep
<1>2. StreamInv'
    BY <1>1, StreamStep
<1>3. ValueShape' /\ ControlShape'
    BY <1>1, TypesStep, ControlStep
<1>4. PermitsHeld' /\ PermitsTyped'
    BY <1>2, PermitStep
<1>5. DialShape'
    BY <1>1, <1>3, <1>4 DEF DialShape, PageShape, NetShape, ValueShape, ControlShape, PermitsTyped
<1> QED
    BY <1>1, <1>2, <1>4, <1>5, LaunchStep, WorkerStep, UntouchedStep, CompletionStep, BlockStep,
       OpenStep, CountStep, WatchStep
       DEF DialInv

(* A dial, its one stream, its one completion and its one reader stay in     *)
(* step with one another whatever the page aborts, reads and cancels while   *)
(* the dials run: the inductive invariant of the dials.                      *)
THEOREM DialsInvariant == DialsSpec => []DialInv
<1>1. DialsInit => DialInv
    BY DialInitially
<1>2. DialInv /\ [DialsNext]_dialVars => DialInv'
    BY DialInductive
<1> QED BY <1>1, <1>2, PTL DEF DialsSpec

LEMMA StreamsWatched ==
  ASSUME DialInv
  PROVE  NoOrphanStream
BY DEF DialInv, WatchInv, Watched, NoOrphanStream, ToSet

LEMMA PermitsBounded ==
  ASSUME DialInv
  PROVE  free \in [tab : 0..TabDials, global : 0..GlobalDials]
<1>1. /\ Cardinality(At(worker, "send")) \in Nat /\ Cardinality(At(worker, "tab")) \in Nat
      /\ Cardinality(Bodies(netBody)) \in Nat
    BY HoldersFinite
<1>2. /\ free.tab + (Cardinality(At(worker, "send")) + Cardinality(Bodies(netBody))) = TabDials
      /\ free.global + (Cardinality(At(worker, "send")) + Cardinality(Bodies(netBody)))
            + Cardinality(At(worker, "tab")) = GlobalDials
    BY DEF DialInv, PermitsHeld, Holding, At, Bodies
<1>3. free.tab \in Nat /\ free.global \in Nat /\ TabDials \in Nat /\ GlobalDials \in Nat
    BY QueuesTyped, DialAssumption DEF NetShape, DialAssumption
<1>4. free.tab \in 0..TabDials /\ free.global \in 0..GlobalDials
    BY <1>1, <1>2, <1>3
<1>5. free \in [tab : Nat, global : Nat]
    BY QueuesTyped DEF NetShape
<1> QED BY <1>4, <1>5

LEMMA ChunksBounded ==
  ASSUME DialInv
  PROVE  got \in [Fetches -> [chunks : 0..BodyLength, end : {"no", "End", "Error"}]]
<1>1. ASSUME NEW f \in Fetches PROVE got[f].chunks \in 0..BodyLength
  <2>1. /\ got[f].chunks \in Nat /\ Pending(f) \in {0, 1} /\ BodyLength \in Nat
        /\ got[f].chunks + Pending(f) <= BodyLength
      BY CountTyped DEF DialInv, CountInv, FetchCount
  <2> QED BY <2>1
<1>2. got \in [Fetches -> GotRecord]
    BY QueuesTyped DEF PageShape
<1> QED BY <1>1, <1>2 DEF GotRecord

LEMMA DialsTyped ==
  ASSUME DialInv
  PROVE  DialsTypeOK
<1>1. \A s \in Streams : Len(buffer[s]) <= Depth
    BY DEF DialInv, StreamInv, StreamOK
<1> QED
    BY <1>1, QueuesTyped, PermitsBounded, ChunksBounded
       DEF DialsTypeOK, PageShape, QueueShape, CallShape, NetShape, WorkerRecord, BodyRecord, OptionalStream

(* The ledger, the queues, the workers and the permits keep their types, the *)
(* permits stay within MAX_TAB_DIALS and MAX_GLOBAL_DIALS, and the channel   *)
(* of a stream within STREAM_CHUNK_DEPTH.                                    *)
THEOREM DialsTypeCorrect == DialsSpec => []DialsTypeOK
BY DialsInvariant, DialsTyped, PTL

(* No body task is left over: the stream of a fetch that is aborted before   *)
(* or after its completion is adopted, of one that is refused and of one the *)
(* page cancels is still known to someone who closes it (abandon_dial,       *)
(* finish_js_fetch, cancel_stream), unless its document was replaced.        *)
THEOREM StreamsHaveReaders == DialsSpec => []NoOrphanStream
BY DialsInvariant, StreamsWatched, PTL

(* No permit is lost and none is given back twice, by the deadline, the      *)
(* cancellation or the replay of a dial or by the end or the cancellation of *)
(* its body: race_dial, send_head and spawn_stream_body.                     *)
THEOREM PermitsAccounted == DialsSpec => []PermitsHeld
<1>1. DialInv => PermitsHeld
    BY DEF DialInv
<1> QED BY <1>1, DialsInvariant, PTL

(* A body the page has read to its end without an error is whole, and so is  *)
(* one in the cache: read_stream loses and repeats no chunk of a stream.     *)
THEOREM BodiesWhole == DialsSpec => []WholeBodies
<1>1. DialInv => WholeBodies
    BY DEF DialInv, CountInv
<1> QED BY <1>1, DialsInvariant, PTL

(* The four together, as a run checks them: streams have a reader, permits   *)
(* a holder, and bodies are whole or failed.                                 *)
THEOREM DialsAreSafe == DialsSpec => []DialsSafe
BY DialsTypeCorrect, StreamsHaveReaders, PermitsAccounted, BodiesWhole, PTL DEF DialsSafe
=============================================================================
