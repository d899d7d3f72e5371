---------------------------- MODULE EventEmitter -----------------------------
(***************************************************************************)
(* EventEmitter (App.js 59-112) for one event name.  A registration is a   *)
(* record of an identity of its own, the text of its function, and whether *)
(* the function is an onceWrapper.  All wrappers have the same text,       *)
(* because a function is compared by its source (App.js 85).  Listeners    *)
(* may add, remove and emit while they run, and may throw.                 *)
(***************************************************************************)
EXTENDS Integers, SequencesExt, FiniteSetsExt

CONSTANTS
  Texts,             \* the texts of listeners
  Wrapper,           \* the text of every onceWrapper
  MaxRegistrations,  \* bound on the registrations
  MaxCalls,          \* bound on the calls of listeners
  MaxDepth           \* bound on the nesting of emit

ASSUME EmitterAssumption ==
  /\ Wrapper \notin Texts
  /\ MaxRegistrations \in Nat /\ MaxCalls \in Nat /\ MaxDepth \in Nat

VARIABLES
  events,      \* listener[eventName]
  frames,      \* the emissions under way, the innermost last
  registered,  \* number of registrations so far
  calls,       \* history: how often each registration was called
  calm         \* history: no wrapper has thrown, none was called inside
               \* another's call, and never two were in the list

vars == <<events, frames, registered, calls, calm>>

-----------------------------------------------------------------------------
IsWrapper(r) == r.text = Wrapper

\* The innermost emission is in a callback.
InCallback == frames # <<>> /\ Last(frames).current # <<>>

\* Code of a listener runs, or code outside of every emission.
UserCodeRuns == frames = <<>> \/ InCallback

\* A listener is running that is a wrapper.
InWrapper(r) == \E k \in DOMAIN frames :
  frames[k].current = r /\ IsWrapper(r)

Place(text, list) ==
  /\ UserCodeRuns
  /\ registered < MaxRegistrations
  /\ registered' = registered + 1
  /\ events' = list
  /\ calm' = (calm /\ Quantify(ToSet(events'), IsWrapper) <= 1)
  /\ UNCHANGED <<frames, calls>>

Registration(text) == [token |-> registered + 1, text |-> text]

\* Mutant of On: the listener is placed before the others.
OnFirst(text) == Place(text, <<Registration(text)>> \o events)

\* addListener and on.
On(text) == Place(text, Append(events, Registration(text)))

Once == Place(Wrapper, Append(events, Registration(Wrapper)))

\* Mutant of RemoveText: the first registration only.
RemoveTextOnce(list, text) ==
  IF \E k \in DOMAIN list : list[k].text = text
  THEN RemoveAt(list, Min({k \in DOMAIN list : list[k].text = text}))
  ELSE list

\* removeListener: forEach visits the indexes from 0 to the length at its
\* start, and splice shifts what follows under it.  rest[k] is the list after
\* k visits.
RemoveText(list, text) ==
  LET rest[k \in 0 .. Len(list)] ==
        IF k = 0 THEN list
        ELSE IF k <= Len(rest[k - 1]) /\ rest[k - 1][k].text = text
             THEN RemoveAt(rest[k - 1], k) ELSE rest[k - 1]
  IN  rest[Len(list)]

\* The emissions under way have lost n registrations.
CountRemoved(n) ==
  [k \in DOMAIN frames |-> [frames[k] EXCEPT !.removed = @ + n]]

\* off and removeListener; rawListners hands out the wrappers too.
Off(text) ==
  /\ UserCodeRuns
  /\ events' = RemoveText(events, text)
  /\ frames' = CountRemoved(Len(events) - Len(events'))
  /\ UNCHANGED <<registered, calls, calm>>

\* An emission: the index and the length of its forEach, the callback it is
\* in, and as history the list at its start, the callbacks it has called and
\* how many registrations have been removed since.
NewFrame(n) ==
  [at |-> 0, length |-> n, current |-> <<>>, start |-> events,
   called |-> <<>>, removed |-> 0]

\* emit: forEach takes the length once.  emit of a name without listeners
\* returns at once, as does forEach over the empty list.
Emit ==
  /\ UserCodeRuns
  /\ Len(frames) < MaxDepth
  /\ frames' = Append(frames, NewFrame(Len(events)))
  /\ UNCHANGED <<events, registered, calls, calm>>

\* The innermost emission, between two callbacks.
Between == frames # <<>> /\ Last(frames).current = <<>>

InnerFrame(f) == [frames EXCEPT ![Len(frames)] = f]

\* Mutant of More: the length is that of now.
MoreNow(f) == f.at < Len(events)

\* forEach has indexes left; those behind the end of the array are skipped.
More(f) == f.at < Min({f.length, Len(events)})

CallNext ==
  /\ Between
  /\ LET f == Last(frames) IN
     LET r == events[f.at + 1] IN
       /\ More(f)
       /\ calls[r.token] < MaxCalls
       /\ frames' = InnerFrame([f EXCEPT !.current = r,
                                         !.called = Append(@, r)])
       /\ calls' = [calls EXCEPT ![r.token] = @ + 1]
       /\ calm' = (calm /\ ~InWrapper(r))
  /\ UNCHANGED <<events, registered>>

\* Mutant of Advance: the index moves on at the call too.
AdvanceTwice(f) == [f EXCEPT !.at = @ + 2, !.current = <<>>]

\* The index moves on.
Advance(f) == [f EXCEPT !.at = @ + 1, !.current = <<>>]

\* Mutant of Return: the wrapper stays.
ReturnKeeps ==
  /\ InCallback
  /\ frames' = InnerFrame(Advance(Last(frames)))
  /\ UNCHANGED <<events, registered, calls, calm>>

\* A listener returns; a wrapper first takes itself off, that is the first
\* wrapper of each pair in a row.
Return ==
  /\ InCallback
  /\ events' = IF IsWrapper(Last(frames).current)
               THEN RemoveText(events, Wrapper) ELSE events
  /\ LET counted == CountRemoved(Len(events) - Len(events')) IN
     frames' = [counted EXCEPT ![Len(frames)] = Advance(@)]
  /\ UNCHANGED <<registered, calls, calm>>

\* A listener throws: its emission ends and the exception goes to the
\* listener that made it, which may catch it or throw in turn.
Throw ==
  /\ InCallback
  /\ frames' = Front(frames)
  /\ calm' = (calm /\ ~IsWrapper(Last(frames).current))
  /\ UNCHANGED <<events, registered, calls>>

\* emit returns.
EndEmit ==
  /\ Between
  /\ ~More(Last(frames))
  /\ frames' = Front(frames)
  /\ UNCHANGED <<events, registered, calls, calm>>

Init ==
  /\ events = <<>>
  /\ frames = <<>>
  /\ registered = 0
  /\ calls = [k \in 1 .. MaxRegistrations |-> 0]
  /\ calm = TRUE

Next ==
  \/ \E text \in Texts : On(text)
  \/ \E text \in Texts \cup {Wrapper} : Off(text)
  \/ Once \/ Emit \/ CallNext \/ Return \/ Throw \/ EndEmit

Spec == Init /\ [][Next]_vars

-----------------------------------------------------------------------------
\* One emission calls a registration at most once, whatever its listeners
\* do, and calls in the order of registration.
InOrderOnce == \A k \in DOMAIN frames :
  \A a, b \in DOMAIN frames[k].called :
    a < b => frames[k].called[a].token < frames[k].called[b].token

\* An emission that ends normally has called every registration that was
\* there when it started and still is, but for as many as were removed
\* meanwhile: each removal makes forEach step over at most one.
AtMostRemovedSkipped ==
  Between /\ ~More(Last(frames)) =>
    LET f == Last(frames) IN
      Cardinality((ToSet(f.start) \cap ToSet(events)) \ ToSet(f.called))
        <= f.removed

\* A listener registered during an emission is not called by it, unless one
\* was removed meanwhile: no more late ones are called than were removed.
LateOnlyForRemoved == \A k \in DOMAIN frames :
  Cardinality(ToSet(frames[k].called) \ ToSet(frames[k].start))
    <= frames[k].removed

\* A once listener runs once, as long as none throws, none is emitted to
\* inside its own call and no two are in the list at a time.
OnceRunsOnce == calm =>
  \A k \in DOMAIN events : IsWrapper(events[k]) =>
    calls[events[k].token] <= 1

\* The distance from the first of the adjacent registrations of a text.
InBlock(list, k) ==
  k - Min({j \in 1 .. k : \A m \in j .. k : list[m].text = list[k].text})

\* Removing a text takes every second one of adjacent registrations with
\* the text, beginning with the first, and nothing else: one off leaves some
\* of its listeners behind, and never takes another's.
RemovesAlternate ==
  \A text \in Texts \cup {Wrapper} :
    RemoveText(events, text) =
      LET kept == {k \in DOMAIN events :
                     events[k].text # text \/ InBlock(events, k) % 2 = 1} IN
      [n \in 1 .. Cardinality(kept) |->
         events[CHOOSE k \in kept : Cardinality({j \in kept : j < k}) = n - 1]]
=============================================================================
