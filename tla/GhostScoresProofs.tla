-------------------------- MODULE GhostScoresProofs --------------------------
(***************************************************************************)
(* The memo of graph snapshots holds nothing of a bundle that is gone, for *)
(* any threads, addresses and workloads, although addresses are used again *)
(* and callbacks come at any time.                                         *)
(*                                                                         *)
(* The argument is about who may still reach a bundle: a call, or else the *)
(* collector, and at its end exactly one callback.                         *)
(*                                                                         *)
(* What an answer counts then follows from facts about every finite graph  *)
(* (CommunicationProofs), as whatever bundle is at an address is the one   *)
(* that is served or a copy of it.                                         *)
(***************************************************************************)
EXTENDS GhostScores, CommunicationProofs

Object(s, b, g) == [serial |-> s, bundle |-> b, garbage |-> g]

\* What a bundle is, None is not.
NoneIsNoBundle == \A s, b, g : Object(s, b, g) # None

Busy(t) == pc[t] # "idle"

At(t) == call[t].at

Shape ==
    /\ DOMAIN pc = Threads /\ DOMAIN call = Threads /\ DOMAIN dying = Threads
    /\ DOMAIN heap = Addresses
    /\ \A t \in Threads : DOMAIN call[t] = {"at", "snapshot"}
    /\ \A a \in Addresses : heap[a] # None =>
          heap[a] = Object(heap[a].serial, heap[a].bundle, heap[a].garbage)

\* A call has a bundle that exists and is not garbage, the served one or a copy
\* of its own.
Held ==
    /\ heap[Served] # None /\ ~heap[Served].garbage
    /\ \A t \in Threads : Busy(t) =>
          At(t) \in Addresses /\ heap[At(t)] # None /\ ~heap[At(t)].garbage
    /\ \A t, u \in Threads : Busy(t) /\ Busy(u) /\ At(t) = At(u) => t = u \/ At(t) = Served

\* A callback runs once, for a bundle no call has.
DyingAlone ==
    /\ \A t \in Threads : dying[t] # None =>
          /\ dying[t] \in Addresses /\ dying[t] # Served
          /\ heap[dying[t]] # None
          /\ \A u \in Threads : Busy(u) => At(u) # dying[t]
    /\ \A t, u \in Threads : dying[t] # None /\ dying[t] = dying[u] => t = u

\* From the lookup or the build on, a call has a graph, that of its bundle.
HasGraph == {"store", "storing", "score", "scored", "raised"}

Computed ==
    \A t \in Threads : pc[t] \in HasGraph =>
        call[t].snapshot = GraphSnapshot(heap[At(t)].bundle)

KeptThere == DOMAIN memo \subseteq Addresses

MInv == Shape /\ Held /\ DyingAlone /\ Computed /\ KeptThere /\ MemoIsLean

LEMMA Constants ==
    /\ Served \in Addresses /\ None \notin Addresses /\ Served # None
BY GhostAssumption

-----------------------------------------------------------------------------

\* A step inside a call that leaves the bundles alone.
LEMMA InsideStep ==
    ASSUME MInv, NEW t \in Threads, Busy(t), NEW step,
           pc' = [pc EXCEPT ![t] = step],
           step # "idle",
           UNCHANGED <<heap, dying>>,
           DOMAIN call' = Threads,
           \A u \in Threads \ {t} : call'[u] = call[u],
           DOMAIN call'[t] = {"at", "snapshot"}, call'[t].at = call[t].at,
           step \in HasGraph =>
               call'[t].snapshot = GraphSnapshot(heap[At(t)].bundle)
    PROVE  Shape' /\ Held' /\ DyingAlone' /\ Computed'
<1>1. \A u \in Threads : (Busy(u)' <=> Busy(u)) /\ At(u)' = At(u)
  BY DEF MInv, Shape, Busy, At
<1>2. Shape'
  BY DEF MInv, Shape
<1>3. Held'
  BY <1>1 DEF MInv, Held
<1>4. DyingAlone'
  BY <1>1 DEF MInv, DyingAlone
<1>5. Computed'
  BY <1>1 DEF MInv, Shape, Computed, At
<1> QED
  BY <1>2, <1>3, <1>4, <1>5

LEMMA AcquireStep ==
    ASSUME MInv, NEW t \in Threads,
           Acquire(t, "lookup", "looking") \/ Acquire(t, "store", "storing")
    PROVE  MInv'
<1>1. PICK step \in {"looking", "storing"} :
         /\ Busy(t) /\ pc' = [pc EXCEPT ![t] = step]
         /\ step = "storing" => pc[t] = "store"
         /\ UNCHANGED <<heap, memo, call, dying>>
  BY DEF Acquire, Runs, Goto, Busy
<1>2. step = "storing" => call[t].snapshot = GraphSnapshot(heap[At(t)].bundle)
  BY <1>1 DEF MInv, Computed, HasGraph
<1>3. Shape' /\ Held' /\ DyingAlone' /\ Computed'
  BY <1>1, <1>2, InsideStep DEF MInv, Shape, HasGraph
<1> QED
  BY <1>1, <1>3 DEF MInv, KeptThere, MemoIsLean

LEMMA LookupStep ==
    ASSUME MInv, NEW t \in Threads, Lookup(t)
    PROVE  MInv'
<1>1. PICK step \in {"score", "build"} :
         /\ Busy(t) /\ pc' = [pc EXCEPT ![t] = step]
         /\ UNCHANGED <<heap, memo, dying>>
         /\ \/ step = "build" /\ UNCHANGED call
            \/ /\ Cached(call[t].at)
               /\ call' = [call EXCEPT ![t] = [call[t] EXCEPT !.snapshot = memo[call[t].at].snapshot]]
  BY DEF Lookup, Runs, Goto, Busy
<1>2. /\ DOMAIN call' = Threads
      /\ \A u \in Threads \ {t} : call'[u] = call[u]
      /\ DOMAIN call'[t] = {"at", "snapshot"} /\ call'[t].at = call[t].at
  BY <1>1 DEF MInv, Shape
<1>3. step \in HasGraph => call'[t].snapshot = GraphSnapshot(heap[At(t)].bundle)
  <2> SUFFICES ASSUME step \in HasGraph
               PROVE  call'[t].snapshot = GraphSnapshot(heap[At(t)].bundle)
    OBVIOUS
  <2>1. /\ Cached(call[t].at)
        /\ call' = [call EXCEPT ![t] = [call[t] EXCEPT !.snapshot = memo[call[t].at].snapshot]]
    BY <1>1 DEF HasGraph
  <2>2. memo[call[t].at].snapshot = GraphSnapshot(heap[call[t].at].bundle)
    BY <2>1 DEF Cached, MInv, MemoIsLean
  <2>3. call'[t].snapshot = memo[call[t].at].snapshot
    BY <2>1 DEF MInv, Shape
  <2> QED
    BY <2>2, <2>3 DEF At
<1>4. Shape' /\ Held' /\ DyingAlone' /\ Computed'
  BY <1>1, <1>2, <1>3, InsideStep
<1> QED
  BY <1>1, <1>4 DEF MInv, KeptThere, MemoIsLean

LEMMA BuildStep ==
    ASSUME MInv, NEW t \in Threads, Build(t)
    PROVE  MInv'
<1> DEFINE s == GraphSnapshot(heap[call[t].at].bundle)
<1>1. /\ Busy(t) /\ pc' = [pc EXCEPT ![t] = "store"]
      /\ UNCHANGED <<heap, memo, dying>>
      /\ call' = [call EXCEPT ![t] = [call[t] EXCEPT !.snapshot = s]]
  BY DEF Build, Runs, Goto, Busy
<1> HIDE DEF s
<1>2. /\ DOMAIN call' = Threads
      /\ \A u \in Threads \ {t} : call'[u] = call[u]
      /\ DOMAIN call'[t] = {"at", "snapshot"} /\ call'[t].at = call[t].at
      /\ call'[t].snapshot = s
  BY <1>1 DEF MInv, Shape
<1>3. Shape' /\ Held' /\ DyingAlone' /\ Computed'
  BY <1>1, <1>2, InsideStep DEF s, At
<1> QED
  BY <1>1, <1>3 DEF MInv, KeptThere, MemoIsLean

LEMMA StoreStep ==
    ASSUME MInv, NEW t \in Threads, Store(t)
    PROVE  MInv'
<1> DEFINE a == call[t].at
<1>1. /\ Busy(t) /\ pc[t] = "storing" /\ pc' = [pc EXCEPT ![t] = "score"]
      /\ UNCHANGED <<heap, call, dying>>
      /\ memo' = [x \in DOMAIN memo \union {a} |-> IF x = a THEN Entry(t) ELSE memo[x]]
  BY DEF Store, Runs, Goto, Busy
<1>2. Shape' /\ Held' /\ DyingAlone' /\ Computed'
  <2>1. call[t].snapshot = GraphSnapshot(heap[At(t)].bundle)
    BY <1>1 DEF MInv, Computed, HasGraph
  <2> QED
    BY <1>1, <2>1, InsideStep DEF MInv, Shape
<1>3. a \in Addresses /\ heap[a] # None
  BY <1>1 DEF MInv, Held, At
<1>4. Entry(t) = [ref |-> heap[a].serial, snapshot |-> GraphSnapshot(heap[a].bundle)]
  BY <1>1 DEF MInv, Computed, HasGraph, Entry, At
<1> HIDE DEF a
<1>5. KeptThere' /\ MemoIsLean'
  BY <1>1, <1>3, <1>4 DEF MInv, KeptThere, MemoIsLean
<1> QED
  BY <1>2, <1>5 DEF MInv

LEMMA ScoreStep ==
    ASSUME MInv, NEW t \in Threads, ScoreCall(t)
    PROVE  MInv'
<1>1. PICK step \in {"raised", "scored"} :
         /\ pc[t] = "score" /\ Busy(t) /\ pc' = [pc EXCEPT ![t] = step]
         /\ UNCHANGED <<heap, memo, call, dying>>
  BY DEF ScoreCall, Runs, Goto, Busy
<1>2. Shape' /\ Held' /\ DyingAlone' /\ Computed'
  <2>1. call[t].snapshot = GraphSnapshot(heap[At(t)].bundle)
    BY <1>1 DEF MInv, Computed, HasGraph
  <2> QED
    BY <1>1, <2>1, InsideStep DEF MInv, Shape
<1> QED
  BY <1>1, <1>2 DEF MInv, KeptThere, MemoIsLean

-----------------------------------------------------------------------------
(* Calls and bundles come and go.                                          *)

LEMMA BeginEffect ==
    ASSUME MInv, NEW t \in Threads, NEW a, Begin(t, a)
    PROVE  /\ pc' = [pc EXCEPT ![t] = "lookup"]
           /\ DOMAIN call' = Threads
           /\ \A u \in Threads \ {t} : call'[u] = call[u]
           /\ DOMAIN call'[t] = {"at", "snapshot"} /\ call'[t].at = a
           /\ UNCHANGED <<memo, dying>>
<1> DEFINE c == [NoCall EXCEPT !.at = a]
<1>1. DOMAIN c = {"at", "snapshot"} /\ c.at = a
  BY DEF NoCall
<1>2. call' = [call EXCEPT ![t] = c] /\ UNCHANGED <<memo, dying>> /\ pc' = [pc EXCEPT ![t] = "lookup"]
  BY DEF Begin, Goto
<1> HIDE DEF c
<1> QED
  BY <1>1, <1>2 DEF MInv, Shape

LEMMA AskStep ==
    ASSUME MInv, NEW t \in Threads, Ask(t)
    PROVE  MInv'
<1>1. pc[t] = "idle" /\ heap' = heap /\ Begin(t, Served)
  BY DEF Ask, Runs
<1>2. /\ pc' = [pc EXCEPT ![t] = "lookup"]
      /\ DOMAIN call' = Threads
      /\ \A u \in Threads \ {t} : call'[u] = call[u]
      /\ DOMAIN call'[t] = {"at", "snapshot"} /\ call'[t].at = Served
      /\ UNCHANGED <<memo, dying>>
  BY <1>1, BeginEffect
<1>3. /\ At(t)' = Served
      /\ \A u \in Threads \ {t} : (Busy(u)' <=> Busy(u)) /\ At(u)' = At(u) /\ pc'[u] = pc[u]
  BY <1>2 DEF MInv, Shape, Busy, At
<1>4. Shape'
  BY <1>1, <1>2 DEF MInv, Shape
<1>5. Held'
  BY <1>1, <1>3, Constants DEF MInv, Held
<1>6. DyingAlone'
  BY <1>1, <1>2, <1>3 DEF MInv, DyingAlone
<1>7. Computed'
  BY <1>1, <1>2, <1>3 DEF MInv, Shape, Computed, HasGraph
<1> QED
  BY <1>1, <1>2, <1>4, <1>5, <1>6, <1>7 DEF MInv, KeptThere, MemoIsLean

\* A copy is made where no bundle is.
LEMMA AskWithoutStep ==
    ASSUME NoneIsNoBundle, MInv, NEW t \in Threads, AskWithout(t)
    PROVE  MInv'
<1> DEFINE o == [serial |-> serial + 1,
                 bundle |-> without_people(heap[Served].bundle, Head(left[t])),
                 garbage |-> FALSE]
<1>1. PICK a \in Addresses : heap[a] = None /\ heap' = [heap EXCEPT ![a] = o] /\ Begin(t, a)
  BY DEF AskWithout
<1>2. o # None /\ o = Object(o.serial, o.bundle, o.garbage) /\ ~o.garbage
  BY DEF Object, NoneIsNoBundle
<1> HIDE DEF o
<1>3. /\ pc' = [pc EXCEPT ![t] = "lookup"]
      /\ DOMAIN call' = Threads
      /\ \A u \in Threads \ {t} : call'[u] = call[u]
      /\ DOMAIN call'[t] = {"at", "snapshot"} /\ call'[t].at = a
      /\ UNCHANGED <<memo, dying>>
  BY <1>1, BeginEffect
<1>4. /\ At(t)' = a
      /\ \A u \in Threads \ {t} : (Busy(u)' <=> Busy(u)) /\ At(u)' = At(u) /\ pc'[u] = pc[u]
  BY <1>3 DEF MInv, Shape, Busy, At
<1>5. heap'[a] = o /\ DOMAIN heap' = Addresses /\ \A x \in Addresses : x # a => heap'[x] = heap[x]
  BY <1>1 DEF MInv, Shape
<1>6. a # Served /\ \A u \in Threads : (Busy(u) => At(u) # a) /\ (dying[u] # None => dying[u] # a)
  BY <1>1 DEF MInv, Held, DyingAlone
<1>7. Shape'
  BY <1>2, <1>3, <1>5 DEF MInv, Shape
<1>8. Held'
  BY <1>2, <1>4, <1>5, <1>6, Constants DEF MInv, Held
<1>9. DyingAlone'
  BY <1>3, <1>4, <1>5, <1>6 DEF MInv, DyingAlone
<1>10. Computed'
  <2> SUFFICES ASSUME NEW u \in Threads, pc'[u] \in HasGraph
               PROVE  call'[u].snapshot = GraphSnapshot(heap'[At(u)'].bundle)
    BY DEF Computed
  <2>1. u # t /\ Busy(u) /\ pc[u] \in HasGraph
    BY <1>3, <1>4 DEF MInv, Shape, Busy, HasGraph
  <2>2. heap'[At(u)'] = heap[At(u)]
    BY <1>4, <1>5, <1>6, <2>1 DEF MInv, Held
  <2> QED
    BY <1>3, <2>1, <2>2 DEF MInv, Computed
<1>11. KeptThere' /\ MemoIsLean'
  BY <1>1, <1>3, <1>5 DEF MInv, KeptThere, MemoIsLean
<1> QED
  BY <1>7, <1>8, <1>9, <1>10, <1>11 DEF MInv

LEMMA MadeGarbage ==
    ASSUME NEW s, NEW b, NEW g
    PROVE  [Object(s, b, g) EXCEPT !.garbage = TRUE] = Object(s, b, TRUE)
<1> DEFINE r == Object(s, b, g)
           x == [r EXCEPT !.garbage = TRUE]
<1>1. DOMAIN x = {"serial", "bundle", "garbage"}
  BY DEF Object
<1>2. x.serial = s /\ x.bundle = b /\ x.garbage = TRUE
  BY DEF Object
<1>3. x = [i \in {"serial", "bundle", "garbage"} |-> x[i]]
  BY <1>1
<1> HIDE DEF x
<1>4. x = [serial |-> x.serial, bundle |-> x.bundle, garbage |-> x.garbage]
  BY <1>1, <1>3
<1>5. x = Object(s, b, TRUE)
  BY <1>2, <1>4 DEF Object
<1> QED
  BY <1>5 DEF x

LEMMA ReturnStep ==
    ASSUME NoneIsNoBundle, MInv, NEW t \in Threads, Return(t)
    PROVE  MInv'
<1> DEFINE a == call[t].at
           g == [heap[a] EXCEPT !.garbage = TRUE]
<1>1. /\ Busy(t) /\ dying[t] = None
      /\ pc' = [pc EXCEPT ![t] = "idle"]
      /\ call' = [call EXCEPT ![t] = NoCall]
      /\ memo' = memo
  BY DEF Return, Runs, Goto, Busy
<1>2. /\ a \in Addresses /\ heap[a] # None
      /\ heap[a] = Object(heap[a].serial, heap[a].bundle, heap[a].garbage)
  BY <1>1 DEF MInv, Held, Shape, At
<1>3. \/ UNCHANGED <<heap, dying>>
      \/ a # Served /\ dying' = [dying EXCEPT ![t] = a] /\ heap' = heap
      \/ a # Served /\ heap' = [heap EXCEPT ![a] = g] /\ dying' = dying
  BY <1>2 DEF Return, MInv, Shape
<1>4. /\ ~Busy(t)'
      /\ \A u \in Threads \ {t} :
            (Busy(u)' <=> Busy(u)) /\ At(u)' = At(u) /\ pc'[u] = pc[u] /\ call'[u] = call[u]
  BY <1>1 DEF MInv, Shape, Busy, At
<1>5. \A u \in Threads \ {t} : Busy(u) /\ a # Served => At(u) # a
  BY <1>1 DEF MInv, Held, At
<1>6. \A u \in Threads : dying[u] # None => dying[u] # a
  BY <1>1 DEF MInv, DyingAlone, At
<1>7. g = Object(heap[a].serial, heap[a].bundle, TRUE)
  <2>1. g = [Object(heap[a].serial, heap[a].bundle, heap[a].garbage) EXCEPT !.garbage = TRUE]
    BY <1>2
  <2> HIDE DEF g, a
  <2> QED
    BY <2>1, MadeGarbage
<1> HIDE DEF g, a
<1>8. /\ g # None /\ g.serial = heap[a].serial /\ g.bundle = heap[a].bundle
      /\ g = Object(g.serial, g.bundle, g.garbage)
  BY <1>7 DEF NoneIsNoBundle, Object
<1>9. /\ DOMAIN heap' = Addresses /\ DOMAIN dying' = Threads
      /\ \A x \in Addresses :
            /\ heap'[x] = heap[x] \/ (x = a /\ a # Served /\ heap'[x] = g)
            /\ heap'[x] # None => heap[x] # None
            /\ heap[x] # None => /\ heap'[x] # None
                                 /\ heap'[x].bundle = heap[x].bundle
                                 /\ heap'[x].serial = heap[x].serial
      /\ \A u \in Threads \ {t} : dying'[u] = dying[u]
      /\ dying'[t] = None \/ (dying'[t] = a /\ a # Served)
  BY <1>1, <1>2, <1>3, <1>8 DEF MInv, Shape
<1>10. DOMAIN pc' = Threads /\ DOMAIN call' = Threads /\ DOMAIN call'[t] = {"at", "snapshot"}
  BY <1>1 DEF MInv, Shape, NoCall
<1>11. Shape'
  BY <1>4, <1>8, <1>9, <1>10 DEF MInv, Shape
<1>12. Held'
  <2>1. heap'[Served] = heap[Served]
    BY <1>9, Constants
  <2>2. \A u \in Threads : Busy(u)' => u # t /\ Busy(u) /\ At(u)' = At(u) /\ heap'[At(u)] = heap[At(u)]
    BY <1>4, <1>5, <1>9 DEF MInv, Held
  <2> QED
    BY <2>1, <2>2 DEF MInv, Held
<1>13. DyingAlone'
  BY <1>2, <1>4, <1>5, <1>6, <1>9, Constants DEF MInv, DyingAlone
<1>14. Computed'
  <2> SUFFICES ASSUME NEW u \in Threads, pc'[u] \in HasGraph
               PROVE  call'[u].snapshot = GraphSnapshot(heap'[At(u)'].bundle)
    BY DEF Computed
  <2>1. u # t /\ Busy(u) /\ pc[u] \in HasGraph
    BY <1>1, <1>4 DEF MInv, Shape, Busy, HasGraph
  <2>2. At(u)' = At(u) /\ heap'[At(u)].bundle = heap[At(u)].bundle
    BY <1>4, <1>9, <2>1 DEF MInv, Held
  <2> QED
    BY <1>4, <2>1, <2>2 DEF MInv, Computed
<1>15. KeptThere' /\ MemoIsLean'
  BY <1>1, <1>9 DEF MInv, KeptThere, MemoIsLean
<1> QED
  BY <1>11, <1>12, <1>13, <1>14, <1>15 DEF MInv

\* Garbage is what no call has.
GarbageAlone ==
    \A a \in Addresses : Garbage(a) => a # Served /\ \A u \in Threads : Busy(u) => At(u) # a

LEMMA NobodyHasGarbage == MInv => GarbageAlone
BY DEF MInv, Held, Garbage, GarbageAlone

LEMMA CollectStep ==
    ASSUME MInv, NEW t \in Threads, Collect(t)
    PROVE  MInv'
<1>1. PICK a \in Addresses :
         /\ Garbage(a) /\ \A u \in Threads : dying[u] # a
         /\ dying' = [dying EXCEPT ![t] = a]
         /\ UNCHANGED <<pc, heap, memo, call>>
  BY DEF Collect
<1>2. a # Served /\ a # None /\ heap[a] # None /\ \A u \in Threads : Busy(u) => At(u) # a
  BY <1>1, NobodyHasGarbage, Constants DEF GarbageAlone, Garbage
<1>3. \A u \in Threads : (Busy(u)' <=> Busy(u)) /\ At(u)' = At(u)
  BY <1>1 DEF Busy, At
<1>4. DyingAlone'
  BY <1>1, <1>2, <1>3 DEF MInv, Shape, DyingAlone
<1> QED
  BY <1>1, <1>3, <1>4 DEF MInv, Shape, Held, Computed, KeptThere, MemoIsLean

LEMMA DiscardStep ==
    ASSUME MInv, NEW t \in Threads, Discard(t)
    PROVE  MInv'
<1> DEFINE a == dying[t]
<1>1. /\ a # None /\ a \in Addresses /\ a # Served
      /\ \A u \in Threads : Busy(u) => At(u) # a
      /\ \A u \in Threads \ {t} : dying[u] # a
  BY DEF Discard, MInv, DyingAlone
<1>2. /\ heap' = [heap EXCEPT ![a] = None]
      /\ dying' = [dying EXCEPT ![t] = None]
      /\ UNCHANGED <<pc, call>>
      /\ memo' = discard(a)
  BY DEF Discard
<1> HIDE DEF a
<1>3. \A u \in Threads : (Busy(u)' <=> Busy(u)) /\ At(u)' = At(u)
  BY <1>2 DEF Busy, At
<1>4. heap'[a] = None /\ DOMAIN heap' = Addresses /\ \A x \in Addresses : x # a => heap'[x] = heap[x]
  BY <1>1, <1>2 DEF MInv, Shape
<1>5. DOMAIN memo' = DOMAIN memo \ {a} /\ \A x \in DOMAIN memo' : memo'[x] = memo[x]
  <2>1. CASE a \in DOMAIN memo
    <3>1. memo[a].ref = heap[a].serial
      BY <2>1 DEF MInv, MemoIsLean
    <3> QED
      BY <1>2, <2>1, <3>1 DEF discard
  <2>2. CASE a \notin DOMAIN memo
    BY <1>2, <2>2 DEF discard
  <2> QED
    BY <2>1, <2>2
<1>6. Shape'
  BY <1>2, <1>4 DEF MInv, Shape
<1>7. Held'
  BY <1>1, <1>3, <1>4, Constants DEF MInv, Held
<1>8. DyingAlone'
  BY <1>1, <1>2, <1>3, <1>4 DEF MInv, Shape, DyingAlone
<1>9. Computed'
  <2> SUFFICES ASSUME NEW u \in Threads, pc[u] \in HasGraph
               PROVE  call[u].snapshot = GraphSnapshot(heap'[At(u)].bundle)
    BY <1>2, <1>3 DEF Computed
  <2>1. heap'[At(u)] = heap[At(u)]
    BY <1>1, <1>4 DEF MInv, Held, Busy, HasGraph
  <2> QED
    BY <2>1 DEF MInv, Computed
<1>10. KeptThere' /\ MemoIsLean'
  BY <1>4, <1>5 DEF MInv, KeptThere, MemoIsLean
<1> QED
  BY <1>6, <1>7, <1>8, <1>9, <1>10 DEF MInv

LEMMA MInvStep ==
    ASSUME NoneIsNoBundle, MInv, [Next]_vars
    PROVE  MInv'
<1>1. CASE UNCHANGED vars
  BY <1>1 DEF vars, MInv, Shape, Held, DyingAlone, Computed, KeptThere, MemoIsLean, Busy, At
<1>2. CASE \E t \in Threads : CallStep(t) \/ Collect(t)
  BY <1>2, AskStep, AskWithoutStep, AcquireStep, LookupStep, BuildStep, StoreStep, ScoreStep,
     ReturnStep, DiscardStep, CollectStep DEF CallStep
<1> QED
  BY <1>1, <1>2 DEF Next

LEMMA MInvInit == NoneIsNoBundle /\ Init => MInv
<1> SUFFICES ASSUME NoneIsNoBundle, Init PROVE MInv
  OBVIOUS
<1>1. PICK w \in Workloads :
         /\ heap = [a \in Addresses |-> IF a = Served THEN Object(1, w.bundle, FALSE) ELSE None]
         /\ memo = <<>>
         /\ pc = [t \in Threads |-> "idle"]
         /\ call = [t \in Threads |-> NoCall]
         /\ dying = [t \in Threads |-> None]
  BY DEF Init, Object
<1> DEFINE o == Object(1, w.bundle, FALSE)
<1>2. o # None /\ ~o.garbage /\ o = Object(o.serial, o.bundle, o.garbage)
  BY DEF NoneIsNoBundle, Object
<1> HIDE DEF o
<1>3. heap = [a \in Addresses |-> IF a = Served THEN o ELSE None]
  BY <1>1 DEF o
<1>4. Shape
  BY <1>1, <1>2, <1>3 DEF Shape, NoCall
<1>5. Held
  BY <1>1, <1>2, <1>3, Constants DEF Held, Busy
<1> QED
  BY <1>1, <1>4, <1>5 DEF MInv, DyingAlone, Computed, HasGraph, KeptThere, MemoIsLean

\* The memo holds graphs of bundles that are there, each under its bundle's
\* address and computed from it, for any threads, addresses and workloads.
THEOREM MemoNeverStale ==
    ASSUME NoneIsNoBundle
    PROVE  Spec => []MemoIsLean
<1>1. Init => MInv
  BY MInvInit
<1>2. MInv /\ [Next]_vars => MInv'
  BY MInvStep
<1>3. MInv => MemoIsLean
  BY DEF MInv
<1> QED
  BY <1>1, <1>2, <1>3, PTL DEF Spec

\* An answer is computed from the graph of the bundle its call is about,
\* whether the memo had it or not and whatever was freed and made again at the
\* same address meanwhile, for any threads, addresses and workloads: the part of
\* RankingExact that is about the memo.
THEOREM AnswersItsBundle ==
    ASSUME NoneIsNoBundle
    PROVE  Spec => [](\A t \in Threads : Answered(t) => OfItsBundle(t))
<1>1. Init => MInv
  BY MInvInit
<1>2. MInv /\ [Next]_vars => MInv'
  BY MInvStep
<1>3. MInv => \A t \in Threads : Answered(t) => OfItsBundle(t)
  BY DEF MInv, Computed, HasGraph, Answered, OfItsBundle, At
<1> QED
  BY <1>1, <1>2, <1>3, PTL DEF Spec

-----------------------------------------------------------------------------
(* The lock: whoever is inside a critical section holds it, alone.         *)

Inside == {"looking", "storing"}

LInv ==
    /\ lock \in Threads \union {None}
    /\ DOMAIN pc = Threads
    /\ \A t \in Threads : pc[t] \in Steps /\ (lock = t <=> pc[t] \in Inside)
    /\ left \in [Threads -> Seq(SUBSET Nat)]

\* A step of t that neither enters a critical section nor leaves one.
LEMMA OutsideStep ==
    ASSUME LInv, NEW t \in Threads, NEW step \in Steps \ Inside,
           pc[t] \notin Inside, pc' = [pc EXCEPT ![t] = step],
           UNCHANGED lock, left' \in [Threads -> Seq(SUBSET Nat)]
    PROVE  LInv'
BY DEF LInv

LEMMA LeaveStep ==
    ASSUME LInv, NEW t \in Threads, NEW step \in Steps \ Inside,
           pc[t] \in Inside, pc' = [pc EXCEPT ![t] = step],
           lock' = None, UNCHANGED left
    PROVE  LInv'
<1>1. lock = t /\ \A u \in Threads \ {t} : pc[u] \notin Inside
  BY DEF LInv
<1> QED
  BY <1>1, GhostAssumption DEF LInv

\* The lock is free, or already the thread's, which then would be inside.
LEMMA EnterStep ==
    ASSUME LInv, NEW t \in Threads,
           Acquire(t, "lookup", "looking") \/ Acquire(t, "store", "storing")
    PROVE  LInv'
<1>1. PICK step \in Inside :
         /\ pc[t] \in {"lookup", "store"} /\ pc' = [pc EXCEPT ![t] = step]
         /\ CanEnter(t) /\ lock' = t /\ UNCHANGED left
  BY DEF Acquire, Runs, Goto, Inside
<1>2. lock = None /\ \A u \in Threads : pc[u] \notin Inside
  BY <1>1, GhostAssumption DEF LInv, CanEnter, Inside
<1> QED
  BY <1>1, <1>2 DEF LInv, Steps, Inside

LEMMA BeginKeepsLock ==
    ASSUME LInv, NEW t \in Threads, NEW a, pc[t] = "idle", left[t] # <<>>, Begin(t, a)
    PROVE  LInv'
<1>1. Tail(left[t]) \in Seq(SUBSET Nat)
  BY DEF LInv
<1>2. left' \in [Threads -> Seq(SUBSET Nat)]
  BY <1>1 DEF Begin, LInv
<1> QED
  BY <1>2, OutsideStep DEF Begin, Goto, Steps, Inside

LEMMA LInvStep ==
    ASSUME LInv, [Next]_vars
    PROVE  LInv'
<1>1. ASSUME NEW t \in Threads, Ask(t) \/ AskWithout(t)  PROVE LInv'
  BY <1>1, BeginKeepsLock DEF Ask, AskWithout, Runs
<1>2. ASSUME NEW t \in Threads, Lookup(t) \/ Store(t)  PROVE LInv'
  BY <1>2, LeaveStep DEF Lookup, Store, Runs, Goto, Steps, Inside
<1>3. ASSUME NEW t \in Threads, Build(t) \/ ScoreCall(t) \/ Return(t)  PROVE LInv'
  <2>1. left' \in [Threads -> Seq(SUBSET Nat)] /\ UNCHANGED lock
    BY <1>3 DEF Build, ScoreCall, Return, LInv
  <2> QED
    BY <1>3, <2>1, OutsideStep DEF Build, ScoreCall, Return, Runs, Goto, Steps, Inside
<1>4. ASSUME NEW t \in Threads, Discard(t) \/ Collect(t)  PROVE LInv'
  BY <1>4 DEF Discard, Collect, LInv
<1>5. CASE UNCHANGED vars
  BY <1>5 DEF vars, LInv
<1> QED
  BY <1>1, <1>2, <1>3, <1>4, <1>5, EnterStep DEF Next, CallStep

LEMMA LInvInit == Init => LInv
<1> SUFFICES ASSUME Init PROVE LInv
  OBVIOUS
<1>1. PICK w \in Workloads :
         lock = None /\ pc = [t \in Threads |-> "idle"] /\ left = w.left
  BY DEF Init
<1> QED
  BY <1>1, GhostAssumption DEF LInv, Steps, Inside

LEMMA TypesFollow == MInv /\ LInv => TypeOK
<1> SUFFICES ASSUME MInv, LInv PROVE TypeOK
  OBVIOUS
<1>1. ASSUME NEW t \in Threads
      PROVE  /\ pc[t] # "idle" => heap[call[t].at] # None /\ ~heap[call[t].at].garbage
             /\ dying[t] # None => heap[dying[t]] # None
  BY DEF MInv, Held, DyingAlone, Busy, At
<1>2. ASSUME NEW t \in Threads
      PROVE  (lock = t) = (pc[t] \in {"looking", "storing"})
  BY DEF LInv, Inside
<1> QED
  BY <1>1, <1>2 DEF TypeOK, LInv, MInv, KeptThere

\* A call works on a bundle that exists, callbacks run for bundles that still
\* exist, and the lock of the memo is held by the one thread inside a critical
\* section and by nobody else, for any threads, addresses and workloads.
THEOREM LockIsExclusive ==
    ASSUME NoneIsNoBundle
    PROVE  Spec => []TypeOK
<1>1. Init => MInv /\ LInv
  BY MInvInit, LInvInit
<1>2. MInv /\ LInv /\ [Next]_vars => MInv' /\ LInv'
  BY MInvStep, LInvStep
<1>3. MInv /\ LInv => TypeOK
  BY TypesFollow
<1> QED
  BY <1>1, <1>2, <1>3, PTL DEF Spec

-----------------------------------------------------------------------------
(* The graphs are graphs: every bundle there is has finitely many people   *)
(* and calls, a copy as much as the served one.                            *)

BundlesAre == \A a \in Addresses : heap[a] # None => IsBundle(heap[a].bundle)

LEMMA CopyIsBundle ==
    ASSUME NEW b, IsBundle(b), NEW gone
    PROVE  IsBundle(without_people(b, gone))
<1> DEFINE c == without_people(b, gone)
<1>1. DOMAIN c = DOMAIN b
  BY DEF without_people
<1>2. c.people = b.people \ gone
  BY DEF without_people, IsBundle
<1>3. c.calls = {d \in b.calls : {d.from, d.to} \intersect gone = {}}
  BY DEF without_people, IsBundle
<1> HIDE DEF c
<1>4. IsFiniteSet(c.people) /\ IsFiniteSet(c.calls)
  BY <1>2, <1>3, FS_Subset DEF IsBundle
<1> QED
  BY <1>1, <1>2, <1>3, <1>4 DEF IsBundle, c

LEMMA EndpointsFinite ==
    ASSUME NEW calls, IsFiniteSet(calls), \A c \in calls : c.from \in Nat /\ c.to \in Nat
    PROVE  IsFiniteSet(Endpoints(calls)) /\ Endpoints(calls) \subseteq Nat
<1> DEFINE froms == {c.from : c \in calls}
           tos == {c.to : c \in calls}
<1>1. IsFiniteSet(froms)
  <2> DEFINE f == [c \in calls |-> c.from]
  <2>1. f \in Surjection(calls, froms)
    BY DEF Surjection
  <2> QED
    BY <2>1, FS_Surjection
<1>2. IsFiniteSet(tos)
  <2> DEFINE f == [c \in calls |-> c.to]
  <2>1. f \in Surjection(calls, tos)
    BY DEF Surjection
  <2> QED
    BY <2>1, FS_Surjection
<1>3. Endpoints(calls) = froms \union tos
  BY DEF Endpoints
<1> QED
  BY <1>1, <1>2, <1>3, FS_Union

LEMMA BundleHasGraph ==
    ASSUME NEW b, IsBundle(b)
    PROVE  Undirected(communication_graph(b)) /\ Undirected(GraphSnapshot(b).graph)
<1> DEFINE g == communication_graph(b)
           E == Endpoints(b.calls)
<1>1. IsFiniteSet(E) /\ E \subseteq Nat
  BY EndpointsFinite DEF IsBundle
<1>2. g = [p \in b.people \union E |->
             {q \in E : \E c \in b.calls : {c.from, c.to} = {p, q}}]
  BY DEF communication_graph
<1>3. GraphSnapshot(b).graph = g
  BY DEF GraphSnapshot
<1> HIDE DEF g
<1>4. DOMAIN g = b.people \union E
  BY <1>2
<1>5. IsFiniteSet(DOMAIN g) /\ DOMAIN g \subseteq Int
  <2>1. IsFiniteSet(b.people) /\ b.people \subseteq Nat
    BY DEF IsBundle
  <2> HIDE DEF E
  <2>2. IsFiniteSet(b.people \union E)
    BY <1>1, <2>1, FS_Union
  <2>3. IsFiniteSet(DOMAIN g)
    BY <1>4, <2>2
  <2>4. DOMAIN g \subseteq Nat
    BY <1>1, <1>4, <2>1
  <2> QED
    BY <2>3, <2>4
<1>6. \A p \in DOMAIN g : \A q : q \in g[p] <=> q \in E /\ \E c \in b.calls : {c.from, c.to} = {p, q}
  BY <1>2
<1>7. g \in [DOMAIN g -> SUBSET DOMAIN g]
  BY <1>2, <1>4
<1>8. ASSUME NEW m \in DOMAIN g, NEW n \in DOMAIN g, m \in g[n]
      PROVE  n \in g[m]
  <2>1. PICK c \in b.calls : {c.from, c.to} = {n, m}
    BY <1>6, <1>8
  <2>2. n \in E
    BY <2>1 DEF Endpoints
  <2>3. {c.from, c.to} = {m, n}
    BY <2>1
  <2> QED
    BY <1>6, <2>2, <2>3
<1>9. Undirected(g)
  BY <1>5, <1>7, <1>8 DEF Undirected
<1> QED
  BY <1>3, <1>9 DEF g

LEMMA BundlesInit == NoneIsNoBundle /\ Init => BundlesAre
<1> SUFFICES ASSUME NoneIsNoBundle, Init PROVE BundlesAre
  OBVIOUS
<1>1. PICK w \in Workloads :
         heap = [a \in Addresses |-> IF a = Served THEN Object(1, w.bundle, FALSE) ELSE None]
  BY DEF Init, Object
<1>2. IsBundle(w.bundle)
  BY GhostAssumption
<1>3. Object(1, w.bundle, FALSE).bundle = w.bundle
  BY DEF Object
<1> QED
  BY <1>1, <1>2, <1>3 DEF BundlesAre

\* A bundle that is new is a copy of the served one, which is always the same.
LEMMA BundlesStay ==
    ASSUME MInv, [Next]_vars
    PROVE  /\ heap'[Served].bundle = heap[Served].bundle
           /\ \A a \in Addresses : heap'[a] # None =>
                \/ heap[a] # None /\ heap'[a].bundle = heap[a].bundle
                \/ \E t \in Threads : /\ left[t] # <<>>
                                      /\ heap'[a].bundle = without_people(heap[Served].bundle, Head(left[t]))
<1> DEFINE Goal == /\ heap'[Served].bundle = heap[Served].bundle
                   /\ \A a \in Addresses : heap'[a] # None =>
                        \/ heap[a] # None /\ heap'[a].bundle = heap[a].bundle
                        \/ \E t \in Threads :
                              /\ left[t] # <<>>
                              /\ heap'[a].bundle = without_people(heap[Served].bundle, Head(left[t]))
<1>1. CASE heap' = heap
  BY <1>1
<1>2. ASSUME NEW t \in Threads, AskWithout(t)
      PROVE  Goal
  <2> DEFINE c == without_people(heap[Served].bundle, Head(left[t]))
             o == [serial |-> serial + 1, bundle |-> c, garbage |-> FALSE]
  <2>1. PICK a \in Addresses : heap[a] = None /\ heap' = [heap EXCEPT ![a] = o]
    BY <1>2 DEF AskWithout
  <2>2. o.bundle = c /\ left[t] # <<>> /\ a # Served
    BY <1>2, <2>1 DEF AskWithout, MInv, Held
  <2> HIDE DEF o
  <2>3. \A x \in Addresses : IF x = a THEN heap'[x] = o ELSE heap'[x] = heap[x]
    BY <2>1 DEF MInv, Shape
  <2>4. heap'[Served] = heap[Served]
    BY <2>2, <2>3, Constants
  <2> QED
    BY <2>2, <2>3, <2>4
<1>3. ASSUME NEW t \in Threads, Return(t)
      PROVE  Goal
  <2> DEFINE a == call[t].at
  <2>1. /\ a \in Addresses /\ heap[a] # None
        /\ heap[a] = Object(heap[a].serial, heap[a].bundle, heap[a].garbage)
    BY <1>3 DEF Return, Runs, MInv, Held, Shape, Busy, At
  <2>2. CASE heap' = heap
    BY <2>2
  <2>3. CASE heap' = [heap EXCEPT ![a].garbage = TRUE]
    <3> DEFINE o == [heap[a] EXCEPT !.garbage = TRUE]
    <3>1. heap' = [heap EXCEPT ![a] = o]
      BY <2>3
    <3>2. o.bundle = heap[a].bundle
      <4>1. o = [Object(heap[a].serial, heap[a].bundle, heap[a].garbage) EXCEPT !.garbage = TRUE]
        BY <2>1
      <4> HIDE DEF o
      <4>2. o = Object(heap[a].serial, heap[a].bundle, TRUE)
        BY <4>1, MadeGarbage
      <4> QED
        BY <4>2 DEF Object
    <3> HIDE DEF o, a
    <3>3. \A x \in Addresses : IF x = a THEN heap'[x] = o ELSE heap'[x] = heap[x]
      BY <3>1 DEF MInv, Shape
    <3>4. \A x \in Addresses : heap'[x].bundle = heap[x].bundle /\ (heap'[x] # None => heap[x] # None)
      BY <2>1, <3>2, <3>3
    <3> QED
      BY <3>4, Constants
  <2> QED
    BY <1>3, <2>2, <2>3 DEF Return
<1>4. ASSUME NEW t \in Threads, Discard(t)
      PROVE  Goal
  <2>1. dying[t] # Served /\ heap' = [heap EXCEPT ![dying[t]] = None]
    BY <1>4 DEF Discard, MInv, DyingAlone
  <2>2. \A x \in Addresses : IF x = dying[t] THEN heap'[x] = None ELSE heap'[x] = heap[x]
    BY <2>1 DEF MInv, Shape
  <2> QED
    BY <2>1, <2>2, Constants
<1>5. ASSUME NEW t \in Threads,
             Ask(t) \/ Lookup(t) \/ Build(t) \/ Store(t) \/ ScoreCall(t) \/ Collect(t)
             \/ Acquire(t, "lookup", "looking") \/ Acquire(t, "store", "storing")
      PROVE  heap' = heap
  BY <1>5 DEF Ask, Lookup, Build, Store, ScoreCall, Collect, Acquire
<1>6. CASE UNCHANGED vars
  BY <1>1, <1>6 DEF vars
<1> HIDE DEF Goal
<1>7. heap' = heap => Goal
  BY DEF Goal
<1>8. Goal
  BY <1>2, <1>3, <1>4, <1>5, <1>6, <1>7 DEF Next, CallStep, vars
<1> QED
  BY <1>8 DEF Goal

LEMMA BundlesStep ==
    ASSUME MInv, BundlesAre, [Next]_vars
    PROVE  BundlesAre'
<1> SUFFICES ASSUME NEW a \in Addresses, heap'[a] # None
             PROVE  IsBundle(heap'[a].bundle)
  BY DEF BundlesAre
<1>1. IsBundle(heap[Served].bundle)
  BY Constants DEF BundlesAre, MInv, Held
<1>2. CASE heap[a] # None /\ heap'[a].bundle = heap[a].bundle
  BY <1>2 DEF BundlesAre
<1>3. ASSUME NEW t \in Threads,
             heap'[a].bundle = without_people(heap[Served].bundle, Head(left[t]))
      PROVE  IsBundle(heap'[a].bundle)
  BY <1>1, <1>3, CopyIsBundle
<1> QED
  BY <1>2, <1>3, BundlesStay

LEMMA BridgesAreLeast ==
    ASSUME MInv, BundlesAre
    PROVE  BridgeIsLeast
<1> SUFFICES ASSUME NEW t \in Threads, Answered(t),
                    NEW s \in DOMAIN GraphOf(t), NEW u \in DOMAIN GraphOf(t)
             PROVE  LET bridge == shortest_communication_bridge(GraphOf(t), s, u, MaxLen)
                        paths  == all_shortest_paths(GraphOf(t), s, u, MaxLen)
                    IN  /\ (bridge = <<>>) = (paths = {})
                        /\ paths # {} =>
                              bridge \in paths /\ \A p \in paths : ~LexBefore(p, bridge)
  BY DEF BridgeIsLeast
<1>1. At(t) \in Addresses /\ heap[At(t)] # None
      /\ call[t].snapshot = GraphSnapshot(heap[At(t)].bundle)
  BY DEF MInv, Held, Computed, HasGraph, Answered, Busy
<1>2. Undirected(GraphOf(t))
  BY <1>1, BundleHasGraph DEF BundlesAre, GraphOf
<1>3. MaxLen \in Nat
  BY GhostAssumption
<1>4. \A p, q : LexBefore(p, q) <=> Sooner(p, q)
  BY DEF LexBefore, Sooner
<1> DEFINE g == GraphOf(t)
<1> HIDE DEF g
<1> SUFFICES
      /\ (shortest_communication_bridge(g, s, u, MaxLen) = <<>>)
            = (all_shortest_paths(g, s, u, MaxLen) = {})
      /\ all_shortest_paths(g, s, u, MaxLen) # {} =>
            /\ shortest_communication_bridge(g, s, u, MaxLen) \in all_shortest_paths(g, s, u, MaxLen)
            /\ \A p \in all_shortest_paths(g, s, u, MaxLen) :
                  ~Sooner(p, shortest_communication_bridge(g, s, u, MaxLen))
  BY <1>4, Zenon DEF g
<1>5. Undirected(g) /\ s \in DOMAIN g /\ u \in DOMAIN g
  BY <1>2 DEF g
<1> QED
  BY <1>3, <1>5, BridgeIsLeastPath

\* The bridge shown between two people of a bundle is the least of all their
\* shortest paths, and there is none exactly when no path of at most MaxLen
\* connects them, for any threads, addresses, workloads and MaxLen: for every
\* finite graph the breadth-first search, which keeps one path to a person and
\* takes the neighbours in the order of their keys, ends with the least.
THEOREM LeastBridgeShown ==
    ASSUME NoneIsNoBundle
    PROVE  Spec => []BridgeIsLeast
<1>1. Init => MInv /\ BundlesAre
  BY MInvInit, BundlesInit
<1>2. MInv /\ BundlesAre /\ [Next]_vars => MInv' /\ BundlesAre'
  BY MInvStep, BundlesStep
<1>3. MInv /\ BundlesAre => BridgeIsLeast
  BY BridgesAreLeast
<1> QED
  BY <1>1, <1>2, <1>3, PTL DEF Spec

-----------------------------------------------------------------------------
(* The ranking: whatever the centrality, nobody is left out or listed      *)
(* twice, although a position is only a count of who comes before.         *)

\* The findings name each person once: the people of a finite set, whatever
\* numbers their centralities are, by descending centrality and among equals by
\* key, each at the position the finding gives as its structural rank.
THEOREM EveryoneRankedOnce ==
    ASSUME NEW b, NEW g, NEW max_len,
           NEW keys \in SUBSET Nat, IsFiniteSet(keys), NEW centrality \in [keys -> Int]
    PROVE  LET ranking == ghost_findings(b, g, keys, centrality, max_len)
           IN  /\ DOMAIN ranking = 1..Cardinality(keys)
               /\ {ranking[i].person : i \in DOMAIN ranking} = keys
               /\ \A i \in DOMAIN ranking :
                     /\ ranking[i].structural = i
                     /\ ranking[i].centrality = centrality[ranking[i].person]
               /\ \A i, j \in DOMAIN ranking : i < j =>
                     Precedes(centrality, ranking[i].person, ranking[j].person)
<1> DEFINE ranking == ghost_findings(b, g, keys, centrality, max_len)
           position == Ranks(keys, centrality)
           n == Cardinality(keys)
           Who(i) == CHOOSE p \in keys : position[p] = i
<1>1. position \in Bijection(keys, 1..n)
  BY RanksAreAll
<1>2. \A p, q \in keys : Precedes(centrality, q, p) => position[q] < position[p]
  BY RanksInOrder
<1>3. ranking = [i \in 1..n |-> Score(b, g, keys, centrality, Who(i), i, max_len)]
  BY DEF ghost_findings
<1> HIDE DEF ranking, position, n
<1>4. ASSUME NEW i \in 1..n
      PROVE  Who(i) \in keys /\ position[Who(i)] = i
  BY <1>1 DEF Bijection, Surjection
<1>5. ASSUME NEW p \in keys
      PROVE  position[p] \in 1..n /\ Who(position[p]) = p
  <2>1. position[p] \in 1..n
    BY <1>1 DEF Bijection, Injection
  <2>2. Who(position[p]) \in keys /\ position[Who(position[p])] = position[p]
    BY <2>1, <1>4
  <2> QED
    BY <2>1, <2>2, <1>1 DEF Bijection, Injection, IsInjective
<1> HIDE DEF Who
<1>6. /\ DOMAIN ranking = 1..n
      /\ \A i \in 1..n : /\ ranking[i].person = Who(i)
                         /\ ranking[i].structural = i
                         /\ ranking[i].centrality = centrality[Who(i)]
  BY <1>3 DEF Score
<1>7. {ranking[i].person : i \in DOMAIN ranking} = keys
  <2>1. \A x \in {ranking[i].person : i \in DOMAIN ranking} : x \in keys
    BY <1>4, <1>6
  <2>2. ASSUME NEW p \in keys
        PROVE  p \in {ranking[i].person : i \in DOMAIN ranking}
    <3>1. position[p] \in DOMAIN ranking /\ ranking[position[p]].person = p
      BY <1>5, <1>6
    <3> QED
      BY <3>1
  <2> QED
    BY <2>1, <2>2
<1>8. ASSUME NEW i \in 1..n, NEW j \in 1..n, i < j
      PROVE  Precedes(centrality, Who(i), Who(j))
  <2>1. Who(i) \in keys /\ Who(j) \in keys /\ position[Who(i)] = i /\ position[Who(j)] = j
    BY <1>4
  <2> DEFINE p == Who(i)
             q == Who(j)
  <2> HIDE DEF p, q
  <2>2. p \in keys /\ q \in keys /\ position[p] = i /\ position[q] = j
    BY <2>1 DEF p, q
  <2>3. ~Precedes(centrality, q, p)
    <3>1. ~(position[q] < position[p])
      BY <2>2, <1>8
    <3> QED
      BY <2>2, <3>1, <1>2
  <2>4. p # q
    BY <2>2, <1>8
  <2>5. p \in Int /\ q \in Int /\ centrality[p] \in Int /\ centrality[q] \in Int
    BY <2>2
  <2>6. Precedes(centrality, p, q)
    BY <2>3, <2>4, <2>5 DEF Precedes
  <2> QED
    BY <2>6 DEF p, q
<1> QED
  BY <1>6, <1>7, <1>8 DEF ranking, n

-----------------------------------------------------------------------------
(* What the assumptions say of the bundles of the start is true of those   *)
(* there ever are: they are the served one and the copies the calls make.  *)

FromWorkload(w) ==
    /\ heap[Served].bundle = w.bundle
    /\ \A a \in Addresses : heap[a] # None => heap[a].bundle \in Copies(w)
    /\ \A t \in Threads : Range(left[t]) \subseteq Range(w.left[t])

Copied == \E w \in Workloads : FromWorkload(w)

LEMMA LeftShrinks ==
    ASSUME LInv, [Next]_vars, NEW t \in Threads
    PROVE  left'[t] = left[t] \/ (left[t] # <<>> /\ left'[t] = Tail(left[t]))
<1> DEFINE Goal == left'[t] = left[t] \/ (left[t] # <<>> /\ left'[t] = Tail(left[t]))
<1>1. ASSUME NEW u \in Threads, Ask(u) \/ AskWithout(u)  PROVE Goal
  <2>1. left[u] # <<>> /\ left' = [left EXCEPT ![u] = Tail(left[u])]
    BY <1>1 DEF Ask, AskWithout, Begin, LInv
  <2> QED
    BY <2>1 DEF LInv
<1>2. ASSUME NEW u \in Threads,
             Lookup(u) \/ Build(u) \/ Store(u) \/ ScoreCall(u) \/ Return(u) \/ Discard(u)
             \/ Collect(u) \/ Acquire(u, "lookup", "looking") \/ Acquire(u, "store", "storing")
      PROVE  Goal
  BY <1>2 DEF Lookup, Build, Store, ScoreCall, Return, Discard, Collect, Acquire
<1>3. ASSUME UNCHANGED vars  PROVE Goal
  BY <1>3 DEF vars
<1> HIDE DEF Goal
<1>4. Goal
  BY <1>1, <1>2, <1>3 DEF Next, CallStep, vars
<1> QED
  BY <1>4 DEF Goal

LEMMA CopiedStep ==
    ASSUME MInv, LInv, Copied, [Next]_vars
    PROVE  Copied'
<1>1. PICK w \in Workloads : FromWorkload(w)
  BY DEF Copied
<1>2. \A t \in Threads : left[t] \in Seq(SUBSET Nat)
  BY DEF LInv
<1>3. ASSUME NEW t \in Threads, left[t] # <<>>
      PROVE  Head(left[t]) \in Range(w.left[t]) /\ Range(Tail(left[t])) \subseteq Range(w.left[t])
  <2>1. 1 \in DOMAIN left[t] /\ Head(left[t]) = left[t][1]
    BY <1>2, <1>3
  <2>2. \A i \in DOMAIN Tail(left[t]) : i + 1 \in DOMAIN left[t] /\ Tail(left[t])[i] = left[t][i + 1]
    BY <1>2, <1>3
  <2>3. Range(left[t]) \subseteq Range(w.left[t])
    BY <1>1 DEF FromWorkload
  <2> QED
    BY <2>1, <2>2, <2>3 DEF Range
<1>4. heap'[Served].bundle = w.bundle
  BY <1>1, BundlesStay DEF FromWorkload
<1>5. ASSUME NEW a \in Addresses, heap'[a] # None
      PROVE  heap'[a].bundle \in Copies(w)
  <2>1. CASE heap[a] # None /\ heap'[a].bundle = heap[a].bundle
    BY <1>1, <2>1 DEF FromWorkload
  <2>2. ASSUME NEW t \in Threads, left[t] # <<>>,
               heap'[a].bundle = without_people(heap[Served].bundle, Head(left[t]))
        PROVE  heap'[a].bundle \in Copies(w)
    <3>1. Head(left[t]) \in UNION {Range(w.left[u]) : u \in Threads}
      BY <1>3, <2>2
    <3>2. heap[Served].bundle = w.bundle
      BY <1>1 DEF FromWorkload
    <3> QED
      BY <2>2, <3>1, <3>2 DEF Copies
  <2> QED
    BY <1>5, <2>1, <2>2, BundlesStay
<1>6. ASSUME NEW t \in Threads
      PROVE  Range(left'[t]) \subseteq Range(w.left[t])
  BY <1>1, <1>3, LeftShrinks DEF FromWorkload
<1>7. FromWorkload(w)'
  BY <1>4, <1>5, <1>6 DEF FromWorkload
<1> QED
  BY <1>7 DEF Copied

LEMMA CopiedInit == NoneIsNoBundle /\ Init => Copied
<1> SUFFICES ASSUME NoneIsNoBundle, Init PROVE Copied
  OBVIOUS
<1>1. PICK w \in Workloads :
         /\ heap = [a \in Addresses |-> IF a = Served THEN Object(1, w.bundle, FALSE) ELSE None]
         /\ left = w.left
  BY DEF Init, Object
<1>2. Object(1, w.bundle, FALSE).bundle = w.bundle
  BY DEF Object
<1>3. w.bundle \in Copies(w)
  BY DEF Copies
<1>4. FromWorkload(w)
  BY <1>1, <1>2, <1>3, Constants DEF FromWorkload
<1> QED
  BY <1>4 DEF Copied

\* A call only has an answer when no neighbour was missing.
NotRaised == \A t \in Threads : Answered(t) => ~Raises(call[t].snapshot)

LEMMA NotRaisedStep ==
    ASSUME MInv, NotRaised, [Next]_vars
    PROVE  NotRaised'
<1> SUFFICES ASSUME NEW t \in Threads, pc'[t] = "scored"
             PROVE  ~Raises(call'[t].snapshot)
  BY DEF NotRaised, Answered, Raises
<1>1. DOMAIN pc = Threads /\ DOMAIN call = Threads
  BY DEF MInv, Shape
<1>2. pc[t] = "scored" => ~Raises(call[t].snapshot)
  BY DEF NotRaised, Answered
<1>3. ASSUME NEW u \in Threads, ScoreCall(u)
      PROVE  ~Raises(call'[t].snapshot)
  <2>1. call' = call
    BY <1>3 DEF ScoreCall
  <2>2. CASE u = t
    <3>1. ~Raises(call[t].snapshot)
      BY <1>1, <1>3, <2>2 DEF ScoreCall, Goto
    <3> QED
      BY <2>1, <3>1
  <2>3. CASE u # t
    <3>1. pc[t] = "scored"
      BY <1>1, <1>3, <2>3 DEF ScoreCall, Goto
    <3> QED
      BY <1>2, <2>1, <3>1
  <2> QED
    BY <2>2, <2>3
<1>4. ASSUME NEW u \in Threads,
             Ask(u) \/ AskWithout(u) \/ Lookup(u) \/ Build(u) \/ Store(u) \/ Return(u)
             \/ Acquire(u, "lookup", "looking") \/ Acquire(u, "store", "storing")
      PROVE  pc[t] = "scored" /\ call'[t] = call[t]
  <2>1. \E step \in {"lookup", "score", "build", "store", "idle", "looking", "storing"} :
           pc' = [pc EXCEPT ![u] = step]
    BY <1>4 DEF Ask, AskWithout, Begin, Lookup, Build, Store, Return, Acquire, Goto
  <2>2. u # t /\ pc[t] = "scored"
    BY <1>1, <2>1
  <2>3. call' = call \/ \E c : call' = [call EXCEPT ![u] = c]
    BY <1>4 DEF Ask, AskWithout, Begin, Lookup, Build, Store, Return, Acquire
  <2> QED
    BY <1>1, <2>2, <2>3
<1>5. ASSUME NEW u \in Threads, Discard(u) \/ Collect(u)
      PROVE  pc[t] = "scored" /\ call'[t] = call[t]
  BY <1>5 DEF Discard, Collect
<1>6. CASE UNCHANGED vars
  BY <1>2, <1>6 DEF vars
<1> QED
  BY <1>2, <1>3, <1>4, <1>5, <1>6 DEF Next, CallStep

-----------------------------------------------------------------------------
(* Whichever way it was computed, a centrality is a share of paths.        *)

SnapshotIs(s) ==
    /\ Undirected(s.graph) /\ IsFiniteSet(s.people) /\ s.people \in SUBSET Nat
    /\ s.people \subseteq DOMAIN s.graph
    /\ WholeShares(s.graph, MaxLen) /\ WholeShares(s.graph, Cardinality(DOMAIN s.graph))
    /\ ~Raises(s)

LEMMA ScoredSnapshot ==
    ASSUME MInv, BundlesAre, Copied, NotRaised, NEW t \in Threads, Answered(t)
    PROVE  OfItsBundle(t) /\ SnapshotIs(call[t].snapshot)
<1> DEFINE s == call[t].snapshot
           b == heap[At(t)].bundle
<1>1. At(t) \in Addresses /\ heap[At(t)] # None /\ s = GraphSnapshot(b)
  BY DEF MInv, Held, Computed, HasGraph, Answered, Busy
<1>2. ~Raises(s)
  BY DEF NotRaised
<1>3. OfItsBundle(t)
  BY <1>1 DEF OfItsBundle, At
<1>4. IsBundle(b)
  BY <1>1 DEF BundlesAre
<1>5. PICK w \in Workloads : b \in Copies(w)
  BY <1>1 DEF Copied, FromWorkload
<1> HIDE DEF s, b
<1>6. s.people = b.people /\ s.graph = communication_graph(b)
  BY <1>1 DEF GraphSnapshot
<1>7. WholeShares(s.graph, MaxLen) /\ WholeShares(s.graph, Cardinality(DOMAIN s.graph))
  BY <1>5, <1>6, ShareAssumption
<1>8. Undirected(s.graph)
  BY <1>4, <1>6, BundleHasGraph
<1>9. s.people \subseteq DOMAIN s.graph
  BY <1>6 DEF communication_graph
<1>10. IsFiniteSet(s.people) /\ s.people \in SUBSET Nat
  BY <1>4, <1>6 DEF IsBundle
<1>11. SnapshotIs(s)
  BY <1>2, <1>7, <1>8, <1>9, <1>10 DEF SnapshotIs
<1> QED
  BY <1>3, <1>11 DEF s

LEMMA LengthIs ==
    ASSUME NEW s, SnapshotIs(s)
    PROVE  Longest(s) \in Nat /\ WholeShares(s.graph, Longest(s))
<1>1. Cardinality(DOMAIN s.graph) \in Nat /\ MaxLen \in Nat
  BY FS_CardinalityType, GhostAssumption DEF SnapshotIs, Undirected
<1> QED
  BY <1>1 DEF SnapshotIs, Longest

LEMMA CentralityIs ==
    ASSUME NEW s, SnapshotIs(s)
    PROVE  /\ Centrality(s) \in [s.people -> Int]
           /\ \A p \in s.people :
                Centrality(s)[p] = betweenness_centrality(s.graph, s.people, Longest(s))[p]
<1> DEFINE K == s.people
           g == s.graph
           n == Longest(s)
           C == Centrality(s)
           B == betweenness_centrality(g, K, n)
<1>1. Undirected(g) /\ K \subseteq DOMAIN g /\ IsFiniteSet(K)
  BY DEF SnapshotIs
<1>2. n \in Nat /\ WholeShares(g, n)
  BY LengthIs
<1>3. Cardinality(K) \in Nat /\ ExactBelow \in Nat
  BY <1>1, FS_CardinalityType, GhostAssumption
<1>4. C = [p \in K |-> C[p]]
  BY DEF Centrality, betweenness_centrality, bounded_shortest_path_tallies
<1>5. ASSUME NEW p \in K  PROVE C[p] = B[p] /\ B[p] \in Nat
  <2>1. CASE Cardinality(K) < ExactBelow
    <3>1. C = B
      BY <2>1 DEF Centrality, Longest
    <3> HIDE DEF C, B, K, g, n
    <3>2. betweenness_centrality(g, K, n)[p] \in Nat
      BY <1>1, <1>2, CentralityAddsUp
    <3> QED
      BY <3>1, <3>2 DEF B
  <2>2. CASE ~(Cardinality(K) < ExactBelow)
    <3>1. n = MaxLen /\ C = bounded_shortest_path_tallies(g, K, n)
      BY <2>2 DEF Centrality, Longest
    <3>2. Cardinality(K) >= ExactBelow
      BY <1>3, <2>2
    <3>3. Closed(g, K)
      BY <1>1, <3>2 DEF SnapshotIs, Raises, Closed
    <3> HIDE DEF C, B, K, g, n
    <3>4. /\ bounded_shortest_path_tallies(g, K, n)[p] = betweenness_centrality(g, K, n)[p]
          /\ betweenness_centrality(g, K, n)[p] \in Nat
      BY <1>1, <1>2, <3>3, TalliesAreShares
    <3> QED
      BY <3>1, <3>4 DEF B
  <2> QED
    BY <2>1, <2>2
<1>6. \A p \in K : C[p] \in Int
  BY <1>5
<1> HIDE DEF C
<1>7. C \in [K -> Int]
  BY <1>4, <1>6
<1> QED
  BY <1>5, <1>7 DEF C

LEMMA ShareIsCentrality ==
    ASSUME NEW g, NEW n, NEW K, NEW p \in K
    PROVE  PathShare(g, p, n) = betweenness_centrality(g, K, n)[p]
BY DEF PathShare, betweenness_centrality

\* What a finding says.
LEMMA FindingIs ==
    ASSUME NEW s, SnapshotIs(s), NEW f \in Range(ghost_scores(s))
    PROVE  /\ f.person \in s.people /\ f.centrality = Centrality(s)[f.person]
           /\ f.structural <= 10 => f.impact = removal_impact(s.graph, f.person, MaxLen)
<1> DEFINE K == s.people
           C == Centrality(s)
           position == Ranks(K, C)
           n == Cardinality(K)
           Who(i) == CHOOSE p \in K : position[p] = i
           ranking == ghost_scores(s)
<1>1. K \in SUBSET Int /\ IsFiniteSet(K) /\ C \in [K -> Int]
  BY CentralityIs DEF SnapshotIs
<1>2. ranking = [i \in 1..n |-> Score(s, s.graph, K, C, Who(i), i, MaxLen)]
  BY DEF ghost_scores, ghost_findings
<1> HIDE DEF C, ranking
<1>3. position \in Bijection(K, 1..n)
  BY <1>1, RanksAreAll
<1> HIDE DEF position, n
<1>4. PICK i \in 1..n : f = Score(s, s.graph, K, C, Who(i), i, MaxLen)
  BY <1>2 DEF Range, ranking
<1>5. Who(i) \in K
  BY <1>3 DEF Bijection, Surjection
<1> HIDE DEF Who
<1>6. /\ f.person = Who(i) /\ f.centrality = C[Who(i)] /\ f.structural = i
      /\ f.impact = IF i <= 10 THEN removal_impact(s.graph, Who(i), MaxLen) ELSE 0
  BY <1>4 DEF Score
<1> QED
  BY <1>5, <1>6 DEF C

LEMMA RankingFollows ==
    ASSUME MInv, BundlesAre, Copied, NotRaised
    PROVE  RankingExact
<1> SUFFICES ASSUME NEW t \in Threads, Answered(t)
             PROVE  /\ OfItsBundle(t)
                    /\ LET ranking == Answers(t)
                           length  == Longest(call[t].snapshot)
                           shares  == [i \in DOMAIN ranking |->
                                           PathShare(GraphOf(t), ranking[i].person, length)]
                       IN  /\ {ranking[i].person : i \in DOMAIN ranking} = call[t].snapshot.people
                           /\ \A i, j \in DOMAIN ranking : i < j =>
                                \/ shares[i] > shares[j]
                                \/ shares[i] = shares[j] /\ ranking[i].person < ranking[j].person
  BY DEF RankingExact
<1> DEFINE s == call[t].snapshot
           K == s.people
           C == Centrality(s)
           ranking == ghost_scores(s)
           shares == [i \in DOMAIN ranking |-> PathShare(s.graph, ranking[i].person, Longest(s))]
<1>1. OfItsBundle(t) /\ SnapshotIs(s)
  BY ScoredSnapshot
<1> HIDE DEF s
<1>3. C \in [K -> Int] /\ K \in SUBSET Nat /\ IsFiniteSet(K)
  BY <1>1, CentralityIs DEF SnapshotIs
<1>4. ranking = ghost_findings(s, s.graph, K, C, MaxLen)
  BY DEF ghost_scores
<1>5. \A p \in K : C[p] = PathShare(s.graph, p, Longest(s))
  <2> SUFFICES ASSUME NEW p \in K PROVE C[p] = PathShare(s.graph, p, Longest(s))
    OBVIOUS
  <2>1. C[p] = betweenness_centrality(s.graph, s.people, Longest(s))[p]
    BY <1>1, CentralityIs
  <2> QED
    BY <2>1, ShareIsCentrality
<1> HIDE DEF C, ranking
<1> HIDE DEF K
<1>a. LET r == ghost_findings(s, s.graph, K, C, MaxLen)
      IN  /\ DOMAIN r = 1..Cardinality(K)
          /\ {r[i].person : i \in DOMAIN r} = K
          /\ \A i \in DOMAIN r :
                /\ r[i].structural = i
                /\ r[i].centrality = C[r[i].person]
          /\ \A i, j \in DOMAIN r : i < j => Precedes(C, r[i].person, r[j].person)
  BY <1>3, EveryoneRankedOnce
<1> USE DEF K
<1>6. /\ DOMAIN ranking = 1..Cardinality(K)
      /\ {ranking[i].person : i \in DOMAIN ranking} = K
      /\ \A i, j \in DOMAIN ranking : i < j =>
            Precedes(C, ranking[i].person, ranking[j].person)
  BY <1>4, <1>a
<1>7. \A i \in DOMAIN ranking : ranking[i].person \in K
  BY <1>6
<1>8. \A i \in DOMAIN ranking : shares[i] = C[ranking[i].person]
  BY <1>5, <1>7
<1> HIDE DEF shares
<1>9. ASSUME NEW i \in DOMAIN ranking, NEW j \in DOMAIN ranking, i < j
      PROVE  \/ shares[i] > shares[j]
             \/ shares[i] = shares[j] /\ ranking[i].person < ranking[j].person
  <2>1. Precedes(C, ranking[i].person, ranking[j].person)
    BY <1>6, <1>9
  <2>2. shares[i] = C[ranking[i].person] /\ shares[j] = C[ranking[j].person]
    BY <1>8
  <2> QED
    BY <2>1, <2>2 DEF Precedes
<1>10. /\ OfItsBundle(t)
       /\ {ranking[i].person : i \in DOMAIN ranking} = K
       /\ \A i, j \in DOMAIN ranking : i < j =>
             \/ shares[i] > shares[j]
             \/ shares[i] = shares[j] /\ ranking[i].person < ranking[j].person
  BY <1>1, <1>6, <1>9
<1> HIDE DEF K
<1> QED
  BY <1>10 DEF Answers, GraphOf, ranking, shares, s, K

\* Who no shortest path leads through costs nobody else anything.
LEMMA ImpactFollows ==
    ASSUME MInv, BundlesAre, Copied, NotRaised
    PROVE  ImpactMeansCentral
<1> SUFFICES ASSUME NEW t \in Threads, Answered(t), NEW f \in Range(Answers(t)), f.centrality = 0
             PROVE  /\ bus_factor_impact(GraphOf(t), f.person, MaxLen) = 0
                    /\ f.structural <= 10 =>
                          f.impact = Cardinality(reachable_within(GraphOf(t), f.person, MaxLen))
  BY DEF ImpactMeansCentral
<1> DEFINE s == call[t].snapshot
           g == s.graph
           p == f.person
           n == Longest(s)
<1>1. SnapshotIs(s)
  BY ScoredSnapshot
<1>2. GraphOf(t) = g /\ f \in Range(ghost_scores(s))
  BY DEF Answers, GraphOf
<1> HIDE DEF s
<1>3. /\ p \in s.people /\ f.centrality = Centrality(s)[p]
      /\ f.structural <= 10 => f.impact = removal_impact(g, p, MaxLen)
  BY <1>1, <1>2, FindingIs
<1>4. Undirected(g) /\ p \in DOMAIN g /\ MaxLen \in Nat
  BY <1>1, <1>3, GhostAssumption DEF SnapshotIs
<1>5. betweenness_centrality(g, s.people, n)[p] = 0
  BY <1>1, <1>3, CentralityIs
<1>6. n \in Nat /\ WholeShares(g, n)
  BY <1>1, LengthIs
<1>7. n = MaxLen \/ n = Cardinality(DOMAIN g)
  BY DEF Longest
<1> HIDE DEF g, p, n
<1>8. NotBetween(g, n, p)
  BY <1>3, <1>4, <1>5, <1>6, NotCentral
<1>9. NotBetween(g, MaxLen, p)
  BY <1>4, <1>7, <1>8, NotBetweenAtAll
<1>10. bus_factor_impact(g, p, MaxLen) = 0
  BY <1>4, <1>9, NobodySeparated
<1>11. removal_impact(g, p, MaxLen) = Cardinality(reachable_within(g, p, MaxLen))
  BY <1>4, <1>9, OnlyOwnPairsLost
<1> QED
  BY <1>2, <1>3, <1>10, <1>11 DEF p

SInv == MInv /\ LInv /\ BundlesAre /\ Copied /\ NotRaised

LEMMA SInvHolds == NoneIsNoBundle => (Init => SInv) /\ (SInv /\ [Next]_vars => SInv')
<1> SUFFICES ASSUME NoneIsNoBundle PROVE (Init => SInv) /\ (SInv /\ [Next]_vars => SInv')
  OBVIOUS
<1>1. Init => NotRaised
  BY DEF Init, NotRaised, Answered
<1>2. Init => SInv
  BY <1>1, MInvInit, LInvInit, BundlesInit, CopiedInit DEF SInv
<1>3. SInv /\ [Next]_vars => SInv'
  BY MInvStep, LInvStep, BundlesStep, CopiedStep, NotRaisedStep DEF SInv
<1> QED
  BY <1>2, <1>3

\* Whichever way the centrality was computed, the findings name every person
\* once, by descending share of the shortest paths through them in the bundle
\* the call was about, and among equals by key, for any threads, addresses,
\* workloads and limits: Brandes' tallies, which pass dependencies back level
\* by level from the people of a group, are in every graph the shares of the
\* paths of all pairs, provided that no person of the group has a neighbour
\* outside, which is what the call fails on.
THEOREM RankedByPaths ==
    ASSUME NoneIsNoBundle
    PROVE  Spec => []RankingExact
<1>1. (Init => SInv) /\ (SInv /\ [Next]_vars => SInv')
  BY SInvHolds
<1>2. SInv => RankingExact
  BY RankingFollows DEF SInv
<1> QED
  BY <1>1, <1>2, PTL DEF Spec

\* Removing a person of centrality 0 separates nobody else, and the impact of
\* such a finding among the first ten is the number of people the person
\* reached, for any threads, addresses, workloads and limits, although above
\* the limit the centrality knows of no path longer than MaxLen.
THEOREM OnlyCentralPeopleSeparate ==
    ASSUME NoneIsNoBundle
    PROVE  Spec => []ImpactMeansCentral
<1>1. (Init => SInv) /\ (SInv /\ [Next]_vars => SInv')
  BY SInvHolds
<1>2. SInv => ImpactMeansCentral
  BY ImpactFollows DEF SInv
<1> QED
  BY <1>1, <1>2, PTL DEF Spec
=============================================================================
