------------------------ MODULE SpanAssemblerProofs -------------------------
(***************************************************************************)
(* The span assembler pairs exactly what it should, and implements the     *)
(* HookLedger, for every set of spans, capacity, TTL and order of hooks.   *)
(* The order in which the hash map yields expired spans plays no part in   *)
(* either: the proofs look at the set of spans observe() returns.          *)
(***************************************************************************)
EXTENDS SpanAssembler, FiniteSetTheorems, TLAPS

-----------------------------------------------------------------------------
(* What a sequence holds.                                                  *)

\* The concatenation of two sequences holds what either holds.
LEMMA RangeConcat ==
  ASSUME NEW S, NEW s \in Seq(S), NEW t \in Seq(S)
  PROVE  s \o t \in Seq(S) /\ Range(s \o t) = Range(s) \cup Range(t)
<1>1. /\ s \o t \in Seq(S) /\ Len(s \o t) = Len(s) + Len(t)
      /\ \A i \in 1..Len(s) + Len(t) :
           (s \o t)[i] = IF i <= Len(s) THEN s[i] ELSE t[i - Len(s)]
  OBVIOUS
<1>2. /\ DOMAIN s = 1..Len(s) /\ DOMAIN t = 1..Len(t)
      /\ DOMAIN (s \o t) = 1..Len(s) + Len(t)
      /\ Len(s) \in Nat /\ Len(t) \in Nat
  BY <1>1
<1>3. ASSUME NEW i \in DOMAIN (s \o t) PROVE (s \o t)[i] \in Range(s) \cup Range(t)
  <2>1. CASE i <= Len(s)
    BY <1>1, <1>2, <2>1 DEF Range
  <2>2. CASE ~(i <= Len(s))
    <3>1. i - Len(s) \in DOMAIN t
      BY <1>2, <2>2
    <3> QED BY <1>1, <1>2, <2>2, <3>1 DEF Range
  <2> QED BY <2>1, <2>2
<1>4. ASSUME NEW i \in DOMAIN s PROVE s[i] \in Range(s \o t)
  <2>1. i \in 1..Len(s) + Len(t) /\ i <= Len(s)
    BY <1>2
  <2> QED BY <1>1, <1>2, <2>1 DEF Range
<1>5. ASSUME NEW i \in DOMAIN t PROVE t[i] \in Range(s \o t)
  <2>1. i + Len(s) \in 1..Len(s) + Len(t) /\ ~(i + Len(s) <= Len(s)) /\ (i + Len(s)) - Len(s) = i
    BY <1>2
  <2>2. (s \o t)[i + Len(s)] = t[i]
    BY <1>1, <2>1
  <2> QED BY <1>2, <2>1, <2>2 DEF Range
<1> QED BY <1>1, <1>3, <1>4, <1>5 DEF Range

\* A sequence of one holds that one, the empty sequence nothing.
LEMMA RangeSmall ==
  /\ Range(<<>>) = {}
  /\ \A S : \A x \in S : <<x>> \in Seq(S) /\ Range(<<x>>) = {x}
BY DEF Range

\* A sequence with one more holds one more.
LEMMA RangeAppend ==
  ASSUME NEW S, NEW s \in Seq(S), NEW x \in S
  PROVE  Append(s, x) \in Seq(S) /\ Range(Append(s, x)) = Range(s) \cup {x}
<1>1. Append(s, x) = s \o <<x>>
  OBVIOUS
<1>2. <<x>> \in Seq(S) /\ Range(<<x>>) = {x}
  BY RangeSmall
<1>3. s \o <<x>> \in Seq(S) /\ Range(s \o <<x>>) = Range(s) \cup Range(<<x>>)
  BY <1>2, RangeConcat
<1> QED BY <1>1, <1>2, <1>3

\* An order of a set is a sequence that holds it.
LEMMA OrderRange ==
  ASSUME NEW S, IsFiniteSet(S), NEW order \in SetToSeqs(S)
  PROVE  order \in Seq(S) /\ Range(order) = S
<1>1. Cardinality(S) \in Nat
  BY FS_CardinalityType
<1>2. IsFiniteSet(1..Cardinality(S)) /\ Cardinality(1..Cardinality(S)) = Cardinality(S)
  BY <1>1, FS_Interval
<1>3. order \in [1..Cardinality(S) -> S] /\ order \in Injection(1..Cardinality(S), S)
  BY DEF SetToSeqs, Injection, IsInjective
<1>4. order \in Surjection(1..Cardinality(S), S)
  BY <1>2, <1>3, FS_Injection
<1> QED BY <1>1, <1>3, <1>4 DEF Range, Surjection

\* A set of at most one element is turned into such an order.
LEMMA SetToSeqRange ==
  ASSUME NEW S, IsFiniteSet(S)
  PROVE  SetToSeq(S) \in Seq(S) /\ Range(SetToSeq(S)) = S
<1>1. ExistsBijection(1..Cardinality(S), S) /\ Cardinality(S) \in Nat
  BY FS_CardinalityType
<1>2. \E f \in [1..Cardinality(S) -> S] : IsInjective(f)
  BY <1>1 DEF ExistsBijection, Bijection, Injection
<1>3. SetToSeq(S) \in [1..Cardinality(S) -> S] /\ IsInjective(SetToSeq(S))
  BY <1>2 DEF SetToSeq
<1>4. SetToSeq(S) \in SetToSeqs(S)
  BY <1>1, <1>3 DEF SetToSeqs, IsInjective
<1> QED BY <1>4, OrderRange

-----------------------------------------------------------------------------
(* What observe() returns, as a set.                                       *)

Returns == [hook : Nat, post : Nat, start : Nat, end : Nat]

OpenSpans == [hook : Nat, start : Nat, opened : Nat]

Alone(map, K) == {emit_unpaired(map[k].hook, map[k].start) : k \in K}

\* The spans emitted for an order of keys are those of the set.
LEMMA EmittedRange ==
  ASSUME NEW map, \A k \in DOMAIN map : map[k] \in OpenSpans,
         NEW K, K \subseteq DOMAIN map, NEW keys \in Seq(K), Range(keys) = K
  PROVE  Emitted(map, keys) \in Seq(Returns) /\ Range(Emitted(map, keys)) = Alone(map, K)
<1>1. DOMAIN keys = 1..Len(keys) /\ Len(keys) \in Nat /\ \A i \in DOMAIN keys : keys[i] \in K
  OBVIOUS
<1>2. \A i \in DOMAIN keys :
        emit_unpaired(map[keys[i]].hook, map[keys[i]].start) \in Returns
  BY <1>1 DEF emit_unpaired, Returns, OpenSpans
<1>3. Emitted(map, keys) \in [1..Len(keys) -> Returns]
  BY <1>1, <1>2 DEF Emitted
<1>4. Emitted(map, keys) \in Seq(Returns)
  BY <1>1, <1>3
<1>5. Range(Emitted(map, keys)) = Alone(map, K)
  BY <1>1 DEF Emitted, Range, Alone
<1> QED BY <1>4, <1>5

\* What a step knows of the open spans.
OpenTyped(map) == IsFiniteSet(DOMAIN map) /\ \A k \in DOMAIN map : map[k] \in OpenSpans

\* Taking keys away leaves the other spans as they are.
LEMMA WithoutKeys ==
  ASSUME NEW map, NEW K
  PROVE  /\ DOMAIN Without(map, K) = DOMAIN map \ K
         /\ \A k \in DOMAIN map \ K : Without(map, K)[k] = map[k]
         /\ OpenTyped(map) => OpenTyped(Without(map, K))
<1>1. /\ DOMAIN Without(map, K) = DOMAIN map \ K
      /\ \A k \in DOMAIN map \ K : Without(map, K)[k] = map[k]
  BY DEF Without
<1>2. OpenTyped(map) => OpenTyped(Without(map, K))
  BY <1>1, FS_Difference DEF OpenTyped
<1> QED BY <1>1, <1>2

\* Store: the victims are at most one oldest span of a full map; what was
\* displaced or evicted is returned, and the new span waits.
LEMMA StoreEffect ==
  ASSUME NEW map, OpenTyped(map), NEW key, NEW h \in Nat, NEW ts \in Nat, now \in Nat,
         NEW before \in Seq(Returns), Store(map, key, h, ts, before)
  PROVE  \E victim \in SUBSET (DOMAIN map \ {key}) :
           /\ \A v \in victim :
                /\ victim = {v}
                /\ Cardinality(DOMAIN map \ {key}) >= capacity
                /\ \A n \in DOMAIN map \ {key} : map[v].opened <= map[n].opened
           /\ open' = [k \in ((DOMAIN map \ {key}) \ victim) \cup {key} |->
                         IF k = key THEN [hook |-> h, start |-> ts, opened |-> now] ELSE map[k]]
           /\ Range(out') = Range(before) \cup Alone(map, DOMAIN map \cap {key})
                                          \cup Alone(map, victim)
           /\ out' \in Seq(Returns)
<1> DEFINE displaced == DOMAIN map \cap {key}
           rest == Without(map, displaced)
<1>1. /\ DOMAIN rest = DOMAIN map \ {key} /\ OpenTyped(rest)
      /\ \A k \in DOMAIN rest : rest[k] = map[k]
  <2>1. DOMAIN map \ displaced = DOMAIN map \ {key}
    OBVIOUS
  <2> HIDE DEF displaced
  <2> QED BY <2>1, WithoutKeys
<1>2. PICK victim \in Victims(rest) :
        /\ open' = [k \in (DOMAIN rest \ victim) \cup {key} |->
                      IF k = key THEN [hook |-> h, start |-> ts, opened |-> now] ELSE rest[k]]
        /\ out' = before \o Emitted(map, SetToSeq(displaced))
                         \o Emitted(rest, SetToSeq(victim))
  BY DEF Store
<1>3. IsFiniteSet(displaced) /\ displaced \subseteq DOMAIN map
  BY FS_Intersection DEF OpenTyped
<1>4. /\ Emitted(map, SetToSeq(displaced)) \in Seq(Returns)
      /\ Range(Emitted(map, SetToSeq(displaced))) = Alone(map, displaced)
  BY <1>3, SetToSeqRange, EmittedRange DEF OpenTyped
<1> HIDE DEF rest
<1>5. /\ victim \subseteq DOMAIN rest
      /\ \A v \in victim :
           /\ victim = {v} /\ ~(Cardinality(DOMAIN rest) < capacity)
           /\ \A n \in DOMAIN rest : rest[v].opened <= rest[n].opened
  BY <1>2 DEF Victims, Oldest
<1>6. IsFiniteSet(victim)
  BY <1>1, <1>5, FS_Subset DEF OpenTyped
<1>7. /\ Emitted(rest, SetToSeq(victim)) \in Seq(Returns)
      /\ Range(Emitted(rest, SetToSeq(victim))) = Alone(rest, victim)
  BY <1>1, <1>5, <1>6, SetToSeqRange, EmittedRange DEF OpenTyped
<1>8. Alone(rest, victim) = Alone(map, victim)
  BY <1>1, <1>5 DEF Alone
<1>9. Cardinality(DOMAIN rest) \in Nat /\ capacity \in Nat
  BY <1>1, FS_CardinalityType, AssemblerAssumption DEF OpenTyped
<1>10. /\ out' \in Seq(Returns)
       /\ Range(out') = Range(before) \cup Alone(map, displaced) \cup Alone(map, victim)
  <2> DEFINE a == Emitted(map, SetToSeq(displaced))
             b == Emitted(rest, SetToSeq(victim))
  <2>1. /\ a \in Seq(Returns) /\ b \in Seq(Returns)
        /\ Range(a) = Alone(map, displaced) /\ Range(b) = Alone(map, victim)
    BY <1>4, <1>7, <1>8
  <2>2. out' = before \o a \o b
    BY <1>2
  <2> HIDE DEF a, b
  <2>3. before \o a \in Seq(Returns) /\ Range(before \o a) = Range(before) \cup Range(a)
    BY <2>1, RangeConcat
  <2> DEFINE c == before \o a
  <2>4. c \in Seq(Returns) /\ Range(c) = Range(before) \cup Range(a)
    BY <2>3
  <2>5. out' = c \o b
    BY <2>2
  <2> HIDE DEF c
  <2>6. b \in Seq(Returns) /\ c \in Seq(Returns)
    BY <2>1, <2>4
  <2>7. c \o b \in Seq(Returns) /\ Range(c \o b) = Range(c) \cup Range(b)
    BY ONLY <2>6, RangeConcat
  <2> QED BY <2>1, <2>4, <2>5, <2>7
<1>11. open' = [k \in ((DOMAIN map \ {key}) \ victim) \cup {key} |->
                  IF k = key THEN [hook |-> h, start |-> ts, opened |-> now] ELSE map[k]]
  BY <1>1, <1>2
<1>12. /\ victim \in SUBSET (DOMAIN map \ {key})
       /\ \A v \in victim :
                /\ victim = {v}
                /\ Cardinality(DOMAIN map \ {key}) >= capacity
                /\ \A n \in DOMAIN map \ {key} : map[v].opened <= map[n].opened
  <2>1. ~(Cardinality(DOMAIN rest) < capacity) => Cardinality(DOMAIN map \ {key}) >= capacity
    <3> DEFINE c == Cardinality(DOMAIN rest)
    <3>1. c \in Nat /\ Cardinality(DOMAIN map \ {key}) = c
      BY <1>1, <1>9
    <3> HIDE DEF c
    <3>2. ~(c < capacity) => c >= capacity
      BY <1>9, <3>1
    <3> QED BY <3>1, <3>2 DEF c
  <2>2. \A v \in victim : \A n \in DOMAIN map \ {key} : map[v].opened <= map[n].opened
    BY <1>1, <1>5
  <2> QED BY <1>1, <1>5, <2>1, <2>2
<1> QED BY <1>10, <1>11, <1>12

\* Match: the hook is joined with the Pre under its key, when there is one.
LEMMA MatchEffect ==
  ASSUME NEW map, OpenTyped(map), NEW key, NEW h \in Nat, NEW ts \in Nat,
         NEW before \in Seq(Returns), NEW alone \in Seq(Returns),
         Match(map, key, h, ts, before, alone)
  PROVE  /\ open' = Without(map, {key}) /\ out' \in Seq(Returns)
         /\ Range(out') = Range(before) \cup
              IF key \in DOMAIN map THEN {pair(map[key], h, ts)} ELSE Range(alone)
<1>1. CASE key \in DOMAIN map
  <2>1. pair(map[key], h, ts) \in Returns
    BY <1>1 DEF OpenTyped, OpenSpans, pair, Returns
  <2>2. out' = before \o <<pair(map[key], h, ts)>>
    BY <1>1 DEF Match
  <2>3. /\ <<pair(map[key], h, ts)>> \in Seq(Returns)
        /\ Range(<<pair(map[key], h, ts)>>) = {pair(map[key], h, ts)}
    BY <2>1, RangeSmall
  <2> DEFINE t == <<pair(map[key], h, ts)>>
  <2>4. t \in Seq(Returns) /\ Range(t) = {pair(map[key], h, ts)} /\ out' = before \o t
    BY <2>2, <2>3
  <2> HIDE DEF t
  <2>5. before \o t \in Seq(Returns) /\ Range(before \o t) = Range(before) \cup Range(t)
    BY <2>4, RangeConcat
  <2>6. open' = Without(map, {key})
    BY DEF Match
  <2> QED BY <1>1, <2>4, <2>5, <2>6
<1>2. CASE key \notin DOMAIN map
  <2>1. out' = before \o alone /\ open' = Without(map, {key})
    BY <1>2 DEF Match
  <2>2. before \o alone \in Seq(Returns)
        /\ Range(before \o alone) = Range(before) \cup Range(alone)
    BY RangeConcat
  <2> QED BY <1>2, <2>1, <2>2
<1> QED BY <1>1, <1>2

-----------------------------------------------------------------------------
(* The invariant.                                                          *)

\* The hook is the last of its key, Immediate events aside.
LastOfKey(h) == \A j \in h + 1..Len(hooks) : Act(j) # "Immediate" => Key(j) # Key(h)

TypeInv ==
    /\ now \in Nat
    /\ hooks \in Seq([span : Spans, at : Nat])
    /\ \A h \in 1..Len(hooks) : hooks[h].at <= now
    /\ OpenTyped(open)
    /\ out \in Seq(Returns)
    /\ told \in [Hooks -> Nat]

\* What waits under a key is the last hook of that key, a Pre, with the time it
\* arrived at.
OpenSound ==
    \A k \in DOMAIN open :
        LET h == open[k].hook
        IN /\ h \in 1..Len(hooks)
           /\ Act(h) = "Open" /\ Key(h) = k /\ LastOfKey(h)
           /\ open[k].opened = hooks[h].at

\* A Pre that is the last of its key waits, unless it is old enough to have
\* expired or enough others came to have evicted it.
MissReasoned ==
    \A h \in 1..Len(hooks) :
        Act(h) = "Open" /\ LastOfKey(h) =>
            \/ Key(h) \in DOMAIN open /\ open[Key(h)].hook = h
            \/ now - hooks[h].at >= ttl
            \/ Cardinality(Rivals(h, Len(hooks) + 1)) >= capacity

\* Hooks to come are told of nowhere.
UntoldAhead == \A h \in Hooks : h > Len(hooks) => told[h] = 0

AssemblerInv == TypeInv /\ OpenSound /\ MissReasoned /\ UntoldAhead

-----------------------------------------------------------------------------
(* One observe().                                                          *)

\* The keys flush_expired() leaves.
Kept == DOMAIN open \ Expired

\* The ways observe() may go, by what is left open and what is returned.
PassesOn(h, ts) ==
    /\ open' = Without(open, Expired)
    /\ Range(out') = Alone(open, Expired) \cup {emit_unpaired(h, ts)}

Stores(key, h, ts, victim) ==
    /\ victim \subseteq Kept \ {key}
    /\ \A v \in victim :
         /\ victim = {v} /\ Cardinality(Kept \ {key}) >= capacity
         /\ \A n \in Kept \ {key} : open[v].opened <= open[n].opened
    /\ open' = [k \in ((Kept \ {key}) \ victim) \cup {key} |->
                  IF k = key THEN [hook |-> h, start |-> ts, opened |-> now] ELSE open[k]]
    /\ Range(out') = Alone(open, Expired \cup (Kept \cap {key}) \cup victim)

Joins(key, h, ts) ==
    /\ key \in Kept
    /\ open' = Without(open, Expired \cup {key})
    /\ Range(out') = Alone(open, Expired) \cup {pair(open[key], h, ts)}

Misses(key, h, ts, returned) ==
    /\ key \notin Kept
    /\ open' = Without(open, Expired)
    /\ Range(out') = Alone(open, Expired) \cup returned

Outcome(c, h, ts) ==
    \/ c.act = "Immediate" /\ PassesOn(h, ts)
    \/ c.act = "Open" /\ \E victim : Stores(c.key, h, ts, victim)
    \/ c.act \in {"Close", "Stop"} /\ Joins(c.key, h, ts)
    \/ c.act = "Close" /\ Misses(c.key, h, ts, {emit_unpaired(h, ts)})
    \/ c.act = "Stop" /\ Misses(c.key, h, ts, {})

\* Every observe() goes one of the ways above.
LEMMA ObserveOutcome ==
  ASSUME OpenTyped(open), now \in Nat, Len(hooks) \in Nat,
         NEW span, NEW ts \in Nat, observe(span, ts)
  PROVE  out' \in Seq(Returns) /\ Outcome(classify(span), Len(hooks) + 1, ts)
<1> DEFINE h == Len(hooks) + 1
           c == classify(span)
           map == Without(open, Expired)
<1>1. PICK order \in SetToSeqs(Expired) :
        \/ /\ c.act = "Immediate"
           /\ open' = map
           /\ out' = Append(Emitted(open, order), emit_unpaired(h, ts))
        \/ c.act = "Open" /\ Store(map, c.key, h, ts, Emitted(open, order))
        \/ c.act = "Close" /\ Match(map, c.key, h, ts, Emitted(open, order),
                                    <<emit_unpaired(h, ts)>>)
        \/ c.act = "Stop" /\ Match(map, c.key, h, ts, Emitted(open, order), <<>>)
  BY DEF observe
<1> DEFINE before == Emitted(open, order)
<1>2. /\ Expired \subseteq DOMAIN open /\ IsFiniteSet(Expired)
      /\ h \in Nat
  BY FS_Subset DEF Expired, OpenTyped
<1>3. order \in Seq(Expired) /\ Range(order) = Expired
  BY <1>2, OrderRange
<1>4. before \in Seq(Returns) /\ Range(before) = Alone(open, Expired)
  BY <1>2, <1>3, EmittedRange DEF OpenTyped
<1>5. /\ DOMAIN map = Kept /\ OpenTyped(map)
      /\ \A k \in Kept : map[k] = open[k]
  BY WithoutKeys DEF Kept
<1>6. emit_unpaired(h, ts) \in Returns
  BY <1>2 DEF emit_unpaired, Returns
<1>7. Kept \cap Expired = {} /\ Kept \subseteq DOMAIN open
  BY DEF Kept
<1>8. \A K : K \subseteq Kept => Alone(map, K) = Alone(open, K)
  BY <1>5 DEF Alone
<1> HIDE DEF h, c, before
<1>9. CASE c.act = "Immediate" /\ open' = map
           /\ out' = Append(before, emit_unpaired(h, ts))
  <2>1. out' \in Seq(Returns) /\ Range(out') = Range(before) \cup {emit_unpaired(h, ts)}
    BY <1>4, <1>6, <1>9, RangeAppend
  <2> QED BY <1>4, <1>9, <2>1 DEF Outcome, PassesOn, c, h
<1> HIDE DEF map
<1>10. CASE c.act = "Open" /\ Store(map, c.key, h, ts, before)
  <2> DEFINE key == c.key
  <2> HIDE DEF key
  <2>1. Store(map, key, h, ts, before)
    BY <1>10 DEF key
  <2>2. PICK victim \in SUBSET (DOMAIN map \ {key}) :
           /\ \A v \in victim :
                /\ victim = {v}
                /\ Cardinality(DOMAIN map \ {key}) >= capacity
                /\ \A n \in DOMAIN map \ {key} : map[v].opened <= map[n].opened
           /\ open' = [k \in ((DOMAIN map \ {key}) \ victim) \cup {key} |->
                         IF k = key THEN [hook |-> h, start |-> ts, opened |-> now] ELSE map[k]]
           /\ Range(out') = Range(before) \cup Alone(map, DOMAIN map \cap {key})
                                          \cup Alone(map, victim)
           /\ out' \in Seq(Returns)
    BY <1>2, <1>4, <1>5, <2>1, StoreEffect
  <2>3. victim \subseteq Kept \ {key}
    BY <1>5, <2>2
  <2>4. \A v \in victim :
         /\ victim = {v} /\ Cardinality(Kept \ {key}) >= capacity
         /\ \A n \in Kept \ {key} : open[v].opened <= open[n].opened
    BY <1>5, <2>2, <2>3
  <2>5. open' = [k \in ((Kept \ {key}) \ victim) \cup {key} |->
                  IF k = key THEN [hook |-> h, start |-> ts, opened |-> now] ELSE open[k]]
    BY <1>5, <2>2
  <2>6. Range(out') = Alone(open, Expired \cup (Kept \cap {key}) \cup victim)
    <3>1. Alone(map, DOMAIN map \cap {key}) = Alone(open, Kept \cap {key})
      BY <1>5, <1>8
    <3>2. Alone(map, victim) = Alone(open, victim)
      BY <1>8, <2>3
    <3>3. Range(out') = Alone(open, Expired) \cup Alone(open, Kept \cap {key})
                          \cup Alone(open, victim)
      BY <1>4, <2>2, <3>1, <3>2
    <3>4. Alone(open, Expired \cup (Kept \cap {key}) \cup victim)
             = Alone(open, Expired) \cup Alone(open, Kept \cap {key}) \cup Alone(open, victim)
      BY DEF Alone
    <3> QED BY <3>3, <3>4
  <2>7. Stores(key, h, ts, victim)
    BY <2>3, <2>4, <2>5, <2>6 DEF Stores
  <2> QED BY <1>10, <2>2, <2>7 DEF Outcome, key, c, h
<1>11. ASSUME NEW alone \in Seq(Returns), Match(map, c.key, h, ts, before, alone)
       PROVE  /\ out' \in Seq(Returns)
              /\ Joins(c.key, h, ts) \/ Misses(c.key, h, ts, Range(alone))
  <2> DEFINE key == c.key
  <2> HIDE DEF key
  <2>1. /\ open' = Without(map, {key}) /\ out' \in Seq(Returns)
        /\ Range(out') = Range(before) \cup
              IF key \in DOMAIN map THEN {pair(map[key], h, ts)} ELSE Range(alone)
    BY <1>2, <1>4, <1>5, <1>11, MatchEffect DEF key
  <2>2. CASE key \in Kept
    <3>1. Without(map, {key}) = Without(open, Expired \cup {key})
      BY <1>5 DEF Without, Kept
    <3>2. pair(map[key], h, ts) = pair(open[key], h, ts)
      BY <1>5, <2>2
    <3>3. Range(out') = Alone(open, Expired) \cup {pair(open[key], h, ts)}
      BY <1>4, <1>5, <2>1, <2>2, <3>2
    <3>4. Joins(key, h, ts)
      BY <2>1, <2>2, <3>1, <3>3 DEF Joins
    <3> QED BY <2>1, <3>4 DEF key
  <2>3. CASE key \notin Kept
    <3>1. Without(map, {key}) = Without(open, Expired)
      BY <1>5, <2>3 DEF Without, Kept
    <3>2. Range(out') = Alone(open, Expired) \cup Range(alone)
      BY <1>4, <1>5, <2>1, <2>3
    <3>3. Misses(key, h, ts, Range(alone))
      BY <2>1, <2>3, <3>1, <3>2 DEF Misses
    <3> QED BY <2>1, <3>3 DEF key
  <2> QED BY <2>2, <2>3
<1>12. CASE c.act = "Close" /\ Match(map, c.key, h, ts, before, <<emit_unpaired(h, ts)>>)
  <2> DEFINE one == <<emit_unpaired(h, ts)>>
  <2>1. one \in Seq(Returns) /\ Range(one) = {emit_unpaired(h, ts)}
    BY <1>6, RangeSmall
  <2> HIDE DEF one
  <2>2. Match(map, c.key, h, ts, before, one)
    BY <1>12 DEF one
  <2>3. out' \in Seq(Returns) /\ (Joins(c.key, h, ts) \/ Misses(c.key, h, ts, Range(one)))
    BY <1>11, <2>1, <2>2
  <2> QED BY <1>12, <2>1, <2>3 DEF Outcome, c, h
<1>13. CASE c.act = "Stop" /\ Match(map, c.key, h, ts, before, <<>>)
  <2> DEFINE none == <<>>
  <2>1. none \in Seq(Returns) /\ Range(none) = {}
    BY RangeSmall
  <2> HIDE DEF none
  <2>2. Match(map, c.key, h, ts, before, none)
    BY <1>13 DEF none
  <2>3. out' \in Seq(Returns) /\ (Joins(c.key, h, ts) \/ Misses(c.key, h, ts, Range(none)))
    BY <1>11, <2>1, <2>2
  <2> QED BY <1>13, <2>1, <2>3 DEF Outcome, c, h
<1> QED BY <1>1, <1>9, <1>10, <1>12, <1>13 DEF before

\* What stays open is left as it was, and the action was not about its key; only
\* a Pre adds a span.
LEMMA OpenAfter ==
  ASSUME NEW c, NEW h, NEW ts, Outcome(c, h, ts)
  PROVE  \A k \in DOMAIN open' :
           \/ k \in Kept /\ open'[k] = open[k] /\ (c.act = "Immediate" \/ k # c.key)
           \/ c.act = "Open" /\ k = c.key
              /\ open'[k] = [hook |-> h, start |-> ts, opened |-> now]
<1>1. CASE c.act = "Immediate" /\ PassesOn(h, ts)
  BY <1>1 DEF PassesOn, Without, Kept
<1>2. CASE c.act = "Open" /\ \E victim : Stores(c.key, h, ts, victim)
  BY <1>2 DEF Stores
<1>3. CASE Joins(c.key, h, ts)
  BY <1>3 DEF Joins, Without, Kept
<1>4. CASE \E r : Misses(c.key, h, ts, r)
  BY <1>4 DEF Misses, Without, Kept
<1> QED BY <1>1, <1>2, <1>3, <1>4 DEF Outcome

\* A span stops being open because it expired, because the action was about its
\* key, or because it was an oldest one when the map was full.
LEMMA OpenGone ==
  ASSUME NEW c, NEW h, NEW ts, Outcome(c, h, ts)
  PROVE  \A k \in DOMAIN open \ DOMAIN open' :
           \/ k \in Expired
           \/ c.act # "Immediate" /\ k = c.key
           \/ /\ c.act = "Open" /\ k \in Kept \ {c.key}
              /\ Cardinality(Kept \ {c.key}) >= capacity
              /\ \A n \in Kept \ {c.key} : open[k].opened <= open[n].opened
<1>1. CASE c.act = "Immediate" /\ PassesOn(h, ts)
  BY <1>1 DEF PassesOn, Without
<1>2. CASE c.act = "Open" /\ \E victim : Stores(c.key, h, ts, victim)
  <2>1. PICK victim : Stores(c.key, h, ts, victim)
    BY <1>2
  <2>2. DOMAIN open' = ((Kept \ {c.key}) \ victim) \cup {c.key}
    BY <2>1 DEF Stores
  <2>3. TAKE k \in DOMAIN open \ DOMAIN open'
  <2>4. CASE k \in Expired \/ k = c.key
    BY <1>2, <2>4
  <2>5. CASE k \notin Expired /\ k # c.key
    <3>1. k \in Kept \ {c.key} /\ k \in victim
      BY <2>2, <2>3, <2>5 DEF Kept
    <3> QED BY <1>2, <2>1, <3>1 DEF Stores
  <2> QED BY <2>4, <2>5
<1>3. CASE c.act \in {"Close", "Stop"} /\ Joins(c.key, h, ts)
  BY <1>3 DEF Joins, Without
<1>4. CASE \E r : Misses(c.key, h, ts, r)
  BY <1>4 DEF Misses, Without
<1> QED BY <1>1, <1>2, <1>3, <1>4 DEF Outcome


\* A hook more, the p-th, leaves the earlier ones, their keys and their acts as
\* they are.
Added(span, p) ==
    p = Len(hooks) + 1 /\ hooks' = Append(hooks, [span |-> span, at |-> now])

LEMMA HookAdded ==
  ASSUME TypeInv, NEW span \in Spans, NEW p, Added(span, p)
  PROVE  /\ hooks' \in Seq([span : Spans, at : Nat])
         /\ Len(hooks) \in Nat /\ p \in Nat /\ Len(hooks') = p /\ p = Len(hooks) + 1
         /\ 1..p = 1..Len(hooks) \cup {p} /\ p \notin 1..Len(hooks)
         /\ \A j \in 1..Len(hooks) :
              hooks'[j] = hooks[j] /\ Act(j)' = Act(j) /\ Key(j)' = Key(j)
         /\ hooks'[p] = [span |-> span, at |-> now]
         /\ Act(p)' = classify(span).act
         /\ Key(p)' = classify(span).key
<1> DEFINE new == [span |-> span, at |-> now]
<1>1. new \in [span : Spans, at : Nat] /\ new.span = span
  BY DEF TypeInv
<1> HIDE DEF new
<1>2. /\ hooks' \in Seq([span : Spans, at : Nat])
      /\ Len(hooks) \in Nat /\ p = Len(hooks) + 1 /\ Len(hooks') = p
      /\ \A j \in 1..Len(hooks) : hooks'[j] = hooks[j]
      /\ hooks'[p] = new
  BY <1>1 DEF TypeInv, new, Added
<1>3. \A j \in 1..Len(hooks) : Act(j)' = Act(j) /\ Key(j)' = Key(j)
  BY <1>2 DEF Act, Key
<1>4. Act(p)' = classify(span).act /\ Key(p)' = classify(span).key
  BY <1>1, <1>2 DEF Act, Key
<1>5. 1..p = 1..Len(hooks) \cup {p} /\ p \notin 1..Len(hooks) /\ p \in Nat
  BY <1>2
<1> QED BY <1>2, <1>3, <1>4, <1>5 DEF new

\* A hook stays the last of its key unless the new one is of that key too.
LEMMA LastAfter ==
  ASSUME TypeInv, NEW span \in Spans, NEW p, Added(span, p)
  PROVE  /\ LastOfKey(p)'
         /\ \A h \in 1..Len(hooks) :
              LastOfKey(h)' <=> /\ LastOfKey(h)
                                /\ classify(span).act # "Immediate" => classify(span).key # Key(h)
<1>1. /\ Len(hooks) \in Nat /\ Len(hooks') = p /\ p = Len(hooks) + 1
      /\ \A j \in 1..Len(hooks) : Act(j)' = Act(j) /\ Key(j)' = Key(j)
      /\ Act(p)' = classify(span).act /\ Key(p)' = classify(span).key
  BY HookAdded
<1>2. p + 1..Len(hooks') = {}
  BY <1>1
<1>3. LastOfKey(p)'
  BY <1>2 DEF LastOfKey
<1>4. ASSUME NEW h \in 1..Len(hooks)
      PROVE  LastOfKey(h)' <=> /\ LastOfKey(h)
                               /\ classify(span).act # "Immediate" => classify(span).key # Key(h)
  <2>1. h + 1..Len(hooks') = (h + 1..Len(hooks)) \cup {p} /\ h + 1..Len(hooks) \subseteq 1..Len(hooks)
    BY <1>1
  <2>2. LastOfKey(h)' <=> \A j \in (h + 1..Len(hooks)) \cup {p} : Act(j)' # "Immediate" => Key(j)' # Key(h)'
    BY <2>1 DEF LastOfKey
  <2>3. LastOfKey(h)' <=> /\ \A j \in h + 1..Len(hooks) : Act(j) # "Immediate" => Key(j) # Key(h)
                          /\ Act(p)' # "Immediate" => Key(p)' # Key(h)
    BY <1>1, <2>1, <2>2
  <2> QED BY <1>1, <2>3 DEF LastOfKey
<1> QED BY <1>3, <1>4

\* The rivals of a Pre are those it had, and the new hook.
LEMMA RivalsAfter ==
  ASSUME TypeInv, NEW span \in Spans, NEW p, Added(span, p), NEW h \in 1..Len(hooks)
  PROVE  /\ IsFiniteSet(Rivals(h, p)) /\ IsFiniteSet(Rivals(h, p + 1)')
         /\ Rivals(h, p)' = Rivals(h, p)
         /\ Rivals(h, p) \subseteq Rivals(h, p + 1)'
         /\ (classify(span).act = "Open" /\ classify(span).key # Key(h)) => p \in Rivals(h, p + 1)'
<1>0. /\ Len(hooks) \in Nat /\ p = Len(hooks) + 1 /\ p \in Nat
      /\ \A j \in 1..Len(hooks) : hooks'[j] = hooks[j] /\ Act(j)' = Act(j) /\ Key(j)' = Key(j)
      /\ 1..p = 1..Len(hooks) \cup {p}
      /\ hooks'[p] = [span |-> span, at |-> now]
      /\ Act(p)' = classify(span).act /\ Key(p)' = classify(span).key
  BY HookAdded
<1> DEFINE n == Len(hooks)
<1>1. /\ n \in Nat /\ p = n + 1 /\ p \in Nat
      /\ \A j \in 1..n : hooks'[j] = hooks[j] /\ Act(j)' = Act(j) /\ Key(j)' = Key(j)
      /\ 1..p = 1..n \cup {p}
      /\ hooks'[p].at = now
      /\ Act(p)' = classify(span).act /\ Key(p)' = classify(span).key
      /\ h \in 1..n
  BY <1>0
<1>9. hooks[h].at \in Nat /\ hooks[h].at <= now /\ now \in Nat
  <2> DEFINE S == [span : Spans, at : Nat]
  <2>1. hooks \in Seq(S) /\ hooks[h].at <= now /\ now \in Nat
    BY DEF TypeInv
  <2>2. \A x \in S : x.at \in Nat
    OBVIOUS
  <2> HIDE DEF S
  <2>3. hooks[h] \in S
    BY <2>1
  <2> QED BY <2>1, <2>2, <2>3
<1>2. p - 1 = n /\ (p + 1) - 1 = p
  BY <1>1
<1> HIDE DEF n
<1>3. /\ Rivals(h, p) = {j \in 1..n : /\ Act(j) = "Open" /\ Key(j) # Key(h)
                                    /\ hooks[j].at >= hooks[h].at}
      /\ Rivals(h, p)' = {j \in 1..n : /\ Act(j)' = "Open" /\ Key(j)' # Key(h)'
                                     /\ hooks'[j].at >= hooks'[h].at}
      /\ Rivals(h, p + 1)' = {j \in 1..p : /\ Act(j)' = "Open" /\ Key(j)' # Key(h)'
                                         /\ hooks'[j].at >= hooks'[h].at}
  BY <1>2 DEF Rivals, n
<1>4. Rivals(h, p)' = Rivals(h, p)
  <2>1. \A j \in 1..n : (/\ Act(j)' = "Open" /\ Key(j)' # Key(h)' /\ hooks'[j].at >= hooks'[h].at)
                     <=> (/\ Act(j) = "Open" /\ Key(j) # Key(h) /\ hooks[j].at >= hooks[h].at)
    BY <1>1
  <2> QED BY <1>3, <2>1
<1>5. Rivals(h, p) \subseteq Rivals(h, p + 1)'
  BY <1>1, <1>3
<1>6. IsFiniteSet(1..n) /\ IsFiniteSet(1..p)
  <2>1. 1 \in Int /\ n \in Int /\ p \in Int
    BY <1>1
  <2> QED BY <2>1, FS_Interval
<1>7. IsFiniteSet(Rivals(h, p))
  <2>1. Rivals(h, p) \subseteq 1..n
    BY <1>3
  <2> QED BY <1>6, <2>1, FS_Subset
<1>8. IsFiniteSet(Rivals(h, p + 1)')
  <2>1. Rivals(h, p + 1)' \subseteq 1..p
    BY <1>3
  <2> QED BY <1>6, <2>1, FS_Subset
<1>10. p \in 1..p /\ hooks'[p].at >= hooks'[h].at
  BY <1>1, <1>9
<1>11. (classify(span).act = "Open" /\ classify(span).key # Key(h)) => p \in Rivals(h, p + 1)'
  BY <1>1, <1>3, <1>10
<1> QED BY <1>4, <1>5, <1>7, <1>8, <1>11

-----------------------------------------------------------------------------
(* The invariant is kept.                                                  *)

\* A hook's count leaves zero when a returned span mentions it.
LEMMA ToldAfter ==
  ASSUME TypeInv, out' \in Seq(Returns),
         told' = [h \in Hooks |->
                  told[h] + Cardinality({i \in DOMAIN out' :
                                           h \in {out'[i].hook, out'[i].post}})]
  PROVE  /\ told' \in [Hooks -> Nat]
         /\ \A h \in Hooks : told'[h] = 0 <=>
              told[h] = 0 /\ \A r \in Range(out') : h \notin {r.hook, r.post}
<1> DEFINE Of(h) == {i \in DOMAIN out' : h \in {out'[i].hook, out'[i].post}}
<1>1. ASSUME NEW h \in Hooks
      PROVE  /\ Cardinality(Of(h)) \in Nat /\ told[h] \in Nat
             /\ Cardinality(Of(h)) = 0 <=> \A r \in Range(out') : h \notin {r.hook, r.post}
             /\ told'[h] = told[h] + Cardinality(Of(h))
  <2>1. DOMAIN out' = 1..Len(out') /\ Len(out') \in Nat
    OBVIOUS
  <2>2. IsFiniteSet(1..Len(out'))
    BY <2>1, FS_Interval
  <2>3. IsFiniteSet(Of(h))
    BY <2>1, <2>2, FS_Subset
  <2>4. Cardinality(Of(h)) \in Nat /\ (Cardinality(Of(h)) = 0 <=> Of(h) = {})
    BY <2>3, FS_CardinalityType, FS_EmptySet
  <2>5. Of(h) = {} <=> \A r \in Range(out') : h \notin {r.hook, r.post}
    BY DEF Range
  <2> QED BY <2>4, <2>5 DEF TypeInv
<1>2. told' = [h \in Hooks |-> told[h] + Cardinality(Of(h))]
  OBVIOUS
<1> HIDE DEF Of
<1>3. told' \in [Hooks -> Nat]
  BY <1>1, <1>2
<1>4. ASSUME NEW h \in Hooks
      PROVE  told'[h] = 0 <=>
               told[h] = 0 /\ \A r \in Range(out') : h \notin {r.hook, r.post}
  <2>1. told'[h] = 0 <=> told[h] = 0 /\ Cardinality(Of(h)) = 0
    BY <1>1
  <2> QED BY <1>1, <2>1
<1> QED BY <1>3, <1>4

\* The spans left open are of the right form, and finitely many.
LEMMA OpenTypedAfter ==
  ASSUME OpenTyped(open), now \in Nat, NEW c, NEW h \in Nat, NEW ts \in Nat, Outcome(c, h, ts)
  PROVE  OpenTyped(open')
<1>1. DOMAIN open' \subseteq DOMAIN open \cup {c.key}
  BY OpenAfter DEF Kept
<1>2. IsFiniteSet(DOMAIN open \cup {c.key})
  BY FS_AddElement DEF OpenTyped
<1>3. IsFiniteSet(DOMAIN open')
  BY <1>1, <1>2, FS_Subset
<1>4. [hook |-> h, start |-> ts, opened |-> now] \in OpenSpans
  BY DEF OpenSpans
<1>5. \A k \in DOMAIN open' : open'[k] \in OpenSpans
  BY <1>4, OpenAfter DEF OpenTyped, Kept
<1> QED BY <1>3, <1>5 DEF OpenTyped

\* The new hook waits as the last of its key, and the others that still wait are
\* not disturbed by it.
LEMMA OpenSoundAfter ==
  ASSUME TypeInv, OpenSound, NEW span \in Spans, NEW p, Added(span, p),
         NEW ts, Outcome(classify(span), p, ts)
  PROVE  OpenSound'
<1> DEFINE c == classify(span)
<1>1. /\ Len(hooks) \in Nat /\ Len(hooks') = p
      /\ \A j \in 1..Len(hooks) :
              hooks'[j] = hooks[j] /\ Act(j)' = Act(j) /\ Key(j)' = Key(j)
      /\ hooks'[p] = [span |-> span, at |-> now]
      /\ 1..p = 1..Len(hooks) \cup {p}
      /\ Act(p)' = c.act /\ Key(p)' = c.key
  BY HookAdded
<1>2. /\ LastOfKey(p)'
      /\ \A h \in 1..Len(hooks) :
              LastOfKey(h)' <=> LastOfKey(h) /\ (c.act # "Immediate" => c.key # Key(h))
  BY LastAfter
<1>3. \A k \in DOMAIN open' :
           \/ k \in Kept /\ open'[k] = open[k] /\ (c.act = "Immediate" \/ k # c.key)
           \/ c.act = "Open" /\ k = c.key
              /\ open'[k] = [hook |-> p, start |-> ts, opened |-> now]
  BY OpenAfter
<1> HIDE DEF c
<1>4. ASSUME NEW k \in DOMAIN open', NEW h, h = open'[k].hook
      PROVE  /\ h \in 1..Len(hooks')
             /\ Act(h)' = "Open" /\ Key(h)' = k /\ LastOfKey(h)'
             /\ open'[k].opened = hooks'[h].at
  <2>1. CASE k \in Kept /\ open'[k] = open[k] /\ (c.act = "Immediate" \/ k # c.key)
    <3>1. /\ h \in 1..Len(hooks) /\ Act(h) = "Open" /\ Key(h) = k /\ LastOfKey(h)
          /\ open[k].opened = hooks[h].at
      BY <1>4, <2>1 DEF OpenSound, Kept
    <3> QED BY <1>1, <1>2, <2>1, <3>1
  <2>2. CASE c.act = "Open" /\ k = c.key
              /\ open'[k] = [hook |-> p, start |-> ts, opened |-> now]
    <3>1. h = p /\ open'[k].opened = now
      BY <1>4, <2>2
    <3> QED BY <1>1, <1>2, <2>2, <3>1
  <2> QED BY <1>3, <2>1, <2>2
<1> QED BY <1>4 DEF OpenSound

\* A Pre that stopped waiting while it is still the last of its key expired, or
\* was evicted in favour of the others, which are its rivals.
LEMMA MissReasonedAfter ==
  ASSUME TypeInv, OpenSound, MissReasoned, NEW span \in Spans, NEW p, Added(span, p),
         NEW ts, Outcome(classify(span), p, ts), UNCHANGED now
  PROVE  MissReasoned'
<1> DEFINE c == classify(span)
<1>1. /\ Len(hooks) \in Nat /\ p \in Nat /\ Len(hooks') = p /\ p = Len(hooks) + 1
      /\ \A j \in 1..Len(hooks) :
              hooks'[j] = hooks[j] /\ Act(j)' = Act(j) /\ Key(j)' = Key(j)
      /\ hooks'[p] = [span |-> span, at |-> now]
      /\ 1..p = 1..Len(hooks) \cup {p}
      /\ Act(p)' = c.act /\ Key(p)' = c.key
  BY HookAdded
<1>2. /\ \A h \in 1..Len(hooks) :
              LastOfKey(h)' <=> LastOfKey(h) /\ (c.act # "Immediate" => c.key # Key(h))
  BY LastAfter
<1>3. \A k \in DOMAIN open' :
           \/ k \in Kept /\ open'[k] = open[k] /\ (c.act = "Immediate" \/ k # c.key)
           \/ c.act = "Open" /\ k = c.key
              /\ open'[k] = [hook |-> p, start |-> ts, opened |-> now]
  BY OpenAfter
<1>4. \A k \in DOMAIN open \ DOMAIN open' :
           \/ k \in Expired
           \/ c.act # "Immediate" /\ k = c.key
           \/ /\ c.act = "Open" /\ k \in Kept \ {c.key}
              /\ Cardinality(Kept \ {c.key}) >= capacity
              /\ \A n \in Kept \ {c.key} : open[k].opened <= open[n].opened
  BY OpenGone
<1>5. c.act = "Open" => /\ c.key \in DOMAIN open' /\ open'[c.key].hook = p
  <2>1. CASE \E victim : Stores(c.key, p, ts, victim)
    BY <2>1 DEF Stores
  <2> QED BY <2>1 DEF Outcome
<1> HIDE DEF c
<1>6. ASSUME NEW h \in 1..Len(hooks), Act(h)' = "Open", LastOfKey(h)'
      PROVE  \/ Key(h)' \in DOMAIN open' /\ open'[Key(h)'].hook = h
             \/ now - hooks'[h].at >= ttl
             \/ Cardinality(Rivals(h, p + 1)') >= capacity
  <2> DEFINE k == Key(h)
  <2>1. /\ Act(h) = "Open" /\ LastOfKey(h) /\ (c.act # "Immediate" => c.key # k)
        /\ Key(h)' = k /\ hooks'[h] = hooks[h]
    BY <1>1, <1>2, <1>6
  <2>2. \/ k \in DOMAIN open /\ open[k].hook = h
        \/ now - hooks[h].at >= ttl
        \/ Cardinality(Rivals(h, p)) >= capacity
    BY <1>1, <2>1 DEF MissReasoned
  <2>3. /\ IsFiniteSet(Rivals(h, p)) /\ IsFiniteSet(Rivals(h, p + 1)')
        /\ Rivals(h, p) \subseteq Rivals(h, p + 1)'
        /\ (c.act = "Open" /\ c.key # k) => p \in Rivals(h, p + 1)'
    BY RivalsAfter DEF c
  <2>4. CASE now - hooks[h].at >= ttl
    BY <2>1, <2>4
  <2>5. CASE Cardinality(Rivals(h, p)) >= capacity
    <3>1. /\ Cardinality(Rivals(h, p)) <= Cardinality(Rivals(h, p + 1)')
          /\ Cardinality(Rivals(h, p)) \in Nat /\ Cardinality(Rivals(h, p + 1)') \in Nat
      BY <2>3, FS_Subset, FS_CardinalityType
    <3>2. \A a, b \in Nat : a >= capacity /\ a <= b => b >= capacity
      BY AssemblerAssumption
    <3> QED BY <2>5, <3>1, <3>2
  <2>6. CASE k \in DOMAIN open /\ open[k].hook = h
    <3> HIDE DEF k
    <3>1. open[k].opened = hooks[h].at
      BY <2>6 DEF OpenSound
    <3>2. CASE k \in DOMAIN open'
      <4>1. open'[k] = open[k]
        BY <1>3, <2>1, <3>2
      <4> QED BY <2>1, <2>6, <3>2, <4>1
    <3>3. CASE k \in Expired
      BY <2>1, <3>1, <3>3 DEF Expired
    <3>4. CASE /\ c.act = "Open" /\ k \in Kept \ {c.key}
               /\ Cardinality(Kept \ {c.key}) >= capacity
               /\ \A n \in Kept \ {c.key} : open[k].opened <= open[n].opened
      <4> DEFINE rest == Kept \ {c.key}
                 new == Rivals(h, p + 1)'
                 f == [n \in rest |-> IF n = k THEN p ELSE open[n].hook]
      <4>1. p \in new
        BY <2>1, <2>3, <3>4
      <4>2. ASSUME NEW n \in rest, n # k PROVE f[n] \in Rivals(h, p) /\ f[n] # p
        <5>1. /\ open[n].hook \in 1..Len(hooks) /\ Act(open[n].hook) = "Open"
              /\ Key(open[n].hook) = n /\ open[n].opened = hooks[open[n].hook].at
              /\ n \in DOMAIN open
          BY DEF OpenSound, Kept
        <5>2. open[k].opened <= open[n].opened /\ open[k].opened \in Nat /\ open[n].opened \in Nat
          BY <2>6, <3>4, <5>1 DEF TypeInv, OpenTyped, OpenSpans
        <5>3. hooks[open[n].hook].at >= hooks[h].at
          BY <3>1, <5>1, <5>2
        <5>4. open[n].hook \in 1..p - 1 /\ open[n].hook # p
          BY <1>1, <5>1
        <5>5. open[n].hook \in Rivals(h, p)
          BY <4>2, <5>1, <5>3, <5>4 DEF Rivals, k
        <5> QED BY <4>2, <5>4, <5>5
      <4>3. \A n \in rest : f[n] \in new
        BY <2>3, <4>1, <4>2
      <4>4. \A m, n \in rest : f[m] = f[n] => m = n
        <5>1. \A n \in rest : n # k => f[n] = open[n].hook /\ f[n] # p
          BY <4>2
        <5>2. f[k] = p
          BY <3>4
        <5>3. \A n \in rest : Key(open[n].hook) = n
          BY DEF OpenSound, Kept
        <5> HIDE DEF f, rest
        <5> QED BY <5>1, <5>2, <5>3
      <4>5. f \in Injection(rest, new)
        BY <4>3, <4>4 DEF Injection, IsInjective
      <4>6. Cardinality(rest) <= Cardinality(new) /\ IsFiniteSet(rest)
        <5> HIDE DEF f, rest, new
        <5> QED BY <2>3, <4>5, FS_Injection DEF new
      <4>7. Cardinality(rest) \in Nat /\ Cardinality(new) \in Nat
        BY <2>3, <4>6, FS_CardinalityType
      <4>8. \A a, b \in Nat : a >= capacity /\ a <= b => b >= capacity
        BY AssemblerAssumption
      <4>9. Cardinality(new) >= capacity
        BY <3>4, <4>6, <4>7, <4>8
      <4> QED BY <4>9
    <3> QED BY <1>4, <2>1, <2>6, <3>2, <3>3, <3>4
  <2> QED BY <2>2, <2>4, <2>5, <2>6
<1>7. ASSUME Act(p)' = "Open"
      PROVE  Key(p)' \in DOMAIN open' /\ open'[Key(p)'].hook = p
  BY <1>1, <1>5, <1>7
<1>8. ASSUME NEW h \in 1..p, Act(h)' = "Open", LastOfKey(h)'
      PROVE  \/ Key(h)' \in DOMAIN open' /\ open'[Key(h)'].hook = h
             \/ now - hooks'[h].at >= ttl
             \/ Cardinality(Rivals(h, p + 1)') >= capacity
  <2>1. CASE h = p
    BY <1>7, <1>8, <2>1
  <2>2. CASE h \in 1..Len(hooks)
    BY <1>6, <1>8, <2>2
  <2> QED BY <1>1, <2>1, <2>2
<1> QED BY <1>1, <1>8 DEF MissReasoned

\* What observe() returns mentions hooks that arrived, the new one among them.
LEMMA ReturnedBefore ==
  ASSUME TypeInv, OpenSound, NEW p \in Nat, p = Len(hooks) + 1, NEW ts, NEW c, Outcome(c, p, ts)
  PROVE  \A r \in Range(out') : r.hook \in 1..p /\ r.post \in 0..p
<1>1. \A k \in DOMAIN open : open[k].hook \in 1..Len(hooks) /\ open[k].hook \in 1..p
  BY DEF OpenSound, TypeInv
<1>2. 0 \in 0..p /\ p \in 0..p /\ p \in 1..p
  BY DEF TypeInv
<1>3. ASSUME NEW K, K \subseteq DOMAIN open, NEW r \in Alone(open, K)
      PROVE  r.hook \in 1..p /\ r.post \in 0..p
  BY <1>1, <1>2, <1>3 DEF Alone, emit_unpaired
<1>4. emit_unpaired(p, ts).hook \in 1..p /\ emit_unpaired(p, ts).post \in 0..p
  BY <1>2 DEF emit_unpaired
<1>5. \A k \in DOMAIN open : pair(open[k], p, ts).hook \in 1..p /\ pair(open[k], p, ts).post \in 0..p
  BY <1>1, <1>2 DEF pair
<1>6. Expired \subseteq DOMAIN open /\ Kept \subseteq DOMAIN open
  BY DEF Expired, Kept
<1>7. CASE PassesOn(p, ts)
  BY <1>3, <1>4, <1>6, <1>7 DEF PassesOn
<1>8. CASE \E victim : Stores(c.key, p, ts, victim)
  <2>1. PICK victim : Stores(c.key, p, ts, victim)
    BY <1>8
  <2>2. Expired \cup (Kept \cap {c.key}) \cup victim \subseteq DOMAIN open
    BY <1>6, <2>1 DEF Stores
  <2> QED BY <1>3, <2>1, <2>2 DEF Stores
<1>9. CASE Joins(c.key, p, ts)
  BY <1>3, <1>5, <1>6, <1>9 DEF Joins
<1>10. CASE Misses(c.key, p, ts, {emit_unpaired(p, ts)})
  BY <1>3, <1>4, <1>6, <1>10 DEF Misses
<1>11. CASE Misses(c.key, p, ts, {})
  BY <1>3, <1>6, <1>11 DEF Misses
<1> QED BY <1>7, <1>8, <1>9, <1>10, <1>11 DEF Outcome

\* The invariant holds at first and after every step.
LEMMA AssemblerInitial == Init => AssemblerInv
<1> SUFFICES ASSUME Init PROVE AssemblerInv
  OBVIOUS
<1>1. hooks = <<>> /\ Len(hooks) = 0 /\ open = <<>> /\ DOMAIN open = {} /\ now = 0 /\ out = <<>>
  BY DEF Init
<1>2. OpenTyped(open)
  BY <1>1, FS_EmptySet DEF OpenTyped
<1>3. TypeInv
  BY <1>1, <1>2 DEF TypeInv, Init
<1>4. OpenSound /\ MissReasoned
  BY <1>1 DEF OpenSound, MissReasoned
<1>5. UntoldAhead
  BY DEF Init, UntoldAhead
<1> QED BY <1>3, <1>4, <1>5 DEF AssemblerInv

LEMMA AssemblerObserved ==
  ASSUME AssemblerInv, NEW span \in Spans, NEW ts \in Wall, Observe(span, ts)
  PROVE  AssemblerInv'
<1>1. TypeInv /\ OpenSound /\ MissReasoned /\ UntoldAhead
  BY DEF AssemblerInv
<1>2. ts \in Nat /\ now \in Nat /\ Len(hooks) \in Nat /\ OpenTyped(open)
  BY <1>1, AssemblerAssumption DEF TypeInv
<1> DEFINE p == Len(hooks) + 1
<1>3. out' \in Seq(Returns) /\ Outcome(classify(span), p, ts)
  BY <1>2, ObserveOutcome DEF Observe
<1>4. Added(span, p) /\ UNCHANGED now
  BY DEF Observe, Added
<1>5. PICK q : q = p
  OBVIOUS
<1>6. /\ Added(span, q) /\ Outcome(classify(span), q, ts) /\ q = Len(hooks) + 1
  BY <1>3, <1>4, <1>5
<1> HIDE DEF p
<1>15. TypeInv /\ Added(span, q)
  BY <1>1, <1>6
<1>16. hooks' \in Seq([span : Spans, at : Nat])
  BY <1>15, HookAdded
<1>7. /\ Len(hooks') = q /\ q \in Nat
      /\ \A j \in 1..Len(hooks) : hooks'[j] = hooks[j]
      /\ hooks'[q] = [span |-> span, at |-> now]
      /\ 1..q = 1..Len(hooks) \cup {q}
  BY <1>15, HookAdded
<1>8. /\ told' \in [Hooks -> Nat]
      /\ \A h \in Hooks : told'[h] = 0 <=>
              told[h] = 0 /\ \A r \in Range(out') : h \notin {r.hook, r.post}
  BY <1>1, <1>3, ToldAfter DEF Observe
<1>9. OpenTyped(open')
  BY <1>2, <1>6, <1>7, OpenTypedAfter
<1>10. OpenSound'
  BY <1>1, <1>6, OpenSoundAfter
<1>11. MissReasoned'
  BY <1>1, <1>4, <1>6, MissReasonedAfter
<1>12. UntoldAhead'
  <2>1. \A r \in Range(out') : r.hook \in 1..q /\ r.post \in 0..q
    BY <1>1, <1>6, <1>7, ReturnedBefore
  <2>2. ASSUME NEW h \in Hooks, h > q PROVE told'[h] = 0
    <3>1. h \in Nat /\ h > Len(hooks) /\ h \notin 1..q /\ h \notin 0..q
      BY <1>2, <1>6, <2>2, AssemblerAssumption DEF Hooks
    <3>2. told[h] = 0
      BY <1>1, <3>1 DEF UntoldAhead
    <3> QED BY <1>8, <2>1, <3>1, <3>2
  <2> QED BY <1>7, <2>2 DEF UntoldAhead
<1>13. \A h \in 1..Len(hooks') : hooks'[h].at <= now'
  <2>1. \A h \in 1..Len(hooks) : hooks[h].at <= now
    BY <1>1 DEF TypeInv
  <2>2. hooks'[q].at <= now
    BY <1>2, <1>7
  <2> QED BY <1>4, <1>7, <2>1, <2>2
<1>14. TypeInv'
  BY <1>2, <1>3, <1>4, <1>16, <1>8, <1>9, <1>13 DEF TypeInv
<1> QED BY <1>10, <1>11, <1>12, <1>14 DEF AssemblerInv

LEMMA AssemblerTicks == AssemblerInv /\ Tick => AssemblerInv'
<1> SUFFICES ASSUME AssemblerInv, Tick PROVE AssemblerInv'
  OBVIOUS
<1>1. TypeInv /\ OpenSound /\ MissReasoned /\ UntoldAhead
  BY DEF AssemblerInv
<1>2. now' = now + 1 /\ UNCHANGED <<hooks, open, out, told>> /\ now \in Nat
  BY <1>1 DEF Tick, TypeInv
<1>3. ASSUME NEW h \in 1..Len(hooks)
      PROVE  /\ hooks[h].at <= now' /\ (now - hooks[h].at >= ttl => now' - hooks[h].at >= ttl)
  <2> DEFINE S == [span : Spans, at : Nat]
  <2>1. hooks \in Seq(S) /\ hooks[h].at <= now
    BY <1>1 DEF TypeInv
  <2>2. \A x \in S : x.at \in Nat
    OBVIOUS
  <2> HIDE DEF S
  <2>3. hooks[h] \in S
    BY <2>1
  <2> QED BY <1>2, <2>1, <2>2, <2>3, AssemblerAssumption
<1>4. TypeInv'
  BY <1>1, <1>2, <1>3 DEF TypeInv
<1>5. OpenSound'
  BY <1>1, <1>2 DEF OpenSound, Act, Key, LastOfKey
<1>6. MissReasoned'
  <2>1. ASSUME NEW h \in 1..Len(hooks)
        PROVE  /\ Act(h)' = Act(h) /\ Key(h)' = Key(h) /\ LastOfKey(h)' = LastOfKey(h)
               /\ Rivals(h, Len(hooks) + 1)' = Rivals(h, Len(hooks) + 1)
    BY <1>2 DEF Act, Key, LastOfKey, Rivals
  <2> QED BY <1>1, <1>2, <1>3, <2>1 DEF MissReasoned
<1>7. UntoldAhead'
  BY <1>1, <1>2 DEF UntoldAhead
<1> QED BY <1>4, <1>5, <1>6, <1>7 DEF AssemblerInv

\* The reason a span is not paired is always a good one.
LEMMA AssemblerInvariant == Spec => []AssemblerInv
<1>1. AssemblerInv /\ [Next]_vars => AssemblerInv'
  <2> SUFFICES ASSUME AssemblerInv, [Next]_vars PROVE AssemblerInv'
    OBVIOUS
  <2>1. CASE UNCHANGED vars
    <3>1. UNCHANGED <<now, hooks, open, out, told>>
      BY <2>1 DEF vars
    <3>2. TypeInv' = TypeInv /\ OpenSound' = OpenSound /\ UntoldAhead' = UntoldAhead
      BY <3>1 DEF TypeInv, OpenSound, UntoldAhead, Act, Key, LastOfKey
    <3>3. MissReasoned' = MissReasoned
      BY <3>1 DEF MissReasoned, Act, Key, LastOfKey, Rivals
    <3> QED BY <3>2, <3>3 DEF AssemblerInv
  <2>2. CASE Tick
    BY <2>2, AssemblerTicks
  <2>3. CASE \E span \in Spans, ts \in Wall : Observe(span, ts)
    BY <2>3, AssemblerObserved
  <2>4. CASE Done
    BY <2>1, <2>4 DEF Done
  <2> QED BY <2>1, <2>2, <2>3, <2>4 DEF Next
<1> QED BY <1>1, AssemblerInitial, PTL DEF Spec

-----------------------------------------------------------------------------
(* Pairing is exact.                                                       *)

\* What PairsExact asks of one returned span.
RightReturn(r) ==
    /\ r.end >= r.start
    /\ r.post # 0 =>
         /\ Act(r.hook) = "Open" /\ Act(r.post) \in {"Close", "Stop"}
         /\ r.hook \in Earlier(r.post) /\ \A j \in Earlier(r.post) : j <= r.hook
         /\ hooks[r.post].at - hooks[r.hook].at < ttl
    /\ r.post = 0 /\ Act(r.hook) = "Close" =>
         \A h \in Earlier(r.hook) :
             (\A j \in Earlier(r.hook) : j <= h) =>
                 \/ Act(h) # "Open"
                 \/ hooks[r.hook].at - hooks[h].at >= ttl
                 \/ Cardinality(Rivals(h, r.hook)) >= capacity

AllRight == \A r \in Range(out) : RightReturn(r)

\* What holds of every returned span holds at every place of out.
LEMMA RightReturns == AllRight => PairsExact
<1> SUFFICES ASSUME AllRight PROVE PairsExact
  OBVIOUS
<1>1. \A i \in DOMAIN out : RightReturn(out[i])
  BY DEF Range, AllRight
<1>2. PairsAreNeighbours
  BY <1>1 DEF PairsAreNeighbours, RightReturn
<1>3. NoPairMissed
  BY <1>1 DEF NoPairMissed, RightReturn
<1> QED BY <1>2, <1>3 DEF PairsExact

\* A span returned alone for a Pre that waited claims nothing.
LEMMA AloneRight ==
  ASSUME TypeInv, OpenSound, NEW span \in Spans, NEW p, Added(span, p),
         NEW K, K \subseteq DOMAIN open, NEW r \in Alone(open, K)
  PROVE  RightReturn(r)'
<1>1. PICK k \in K : r = emit_unpaired(open[k].hook, open[k].start)
  BY DEF Alone
<1>2. r.post = 0 /\ r.hook = open[k].hook /\ r.start = open[k].start /\ r.end = open[k].start
  BY <1>1 DEF emit_unpaired
<1>3. open[k].start \in Nat
  BY DEF TypeInv, OpenTyped, OpenSpans
<1>4. open[k].hook \in 1..Len(hooks) /\ Act(open[k].hook) = "Open"
  BY DEF OpenSound
<1>5. Act(r.hook)' = "Open"
  BY <1>2, <1>4, HookAdded
<1>6. r.end >= r.start
  BY <1>2, <1>3
<1> QED BY <1>2, <1>5, <1>6 DEF RightReturn

\* A joined span is that of the last Pre of the key, which has not expired.
LEMMA JoinRight ==
  ASSUME TypeInv, OpenSound, NEW span \in Spans, NEW p, Added(span, p), NEW ts \in Nat,
         classify(span).act \in {"Close", "Stop"}, classify(span).key \in Kept,
         NEW r, r = pair(open[classify(span).key], p, ts)
  PROVE  RightReturn(r)'
<1> DEFINE key == classify(span).key
           h == open[key].hook
<1>1. /\ Len(hooks) \in Nat /\ p \in Nat /\ p = Len(hooks) + 1
      /\ \A j \in 1..Len(hooks) :
              hooks'[j] = hooks[j] /\ Act(j)' = Act(j) /\ Key(j)' = Key(j)
      /\ hooks'[p] = [span |-> span, at |-> now]
      /\ Act(p)' = classify(span).act /\ Key(p)' = key
  BY HookAdded
<1>2. /\ h \in 1..Len(hooks) /\ Act(h) = "Open" /\ Key(h) = key /\ LastOfKey(h)
      /\ open[key].opened = hooks[h].at /\ open[key] \in OpenSpans
  BY DEF OpenSound, Kept, TypeInv, OpenTyped
<1>3. ~(now - open[key].opened >= ttl)
  BY DEF Kept, Expired
<1>4. PICK g : g = h
  OBVIOUS
<1>6. /\ r.hook = g /\ r.post = p /\ r.start = open[key].start
      /\ r.end = IF ts >= open[key].start THEN ts ELSE open[key].start
  BY <1>4 DEF pair
<1>7. r.end >= r.start
  <2>1. open[key].start \in Nat
    BY <1>2 DEF OpenSpans
  <2> QED BY <1>6, <2>1
<1> HIDE DEF h, key
<1>8. g \in 1..Len(hooks) /\ Act(g) = "Open" /\ Key(g) = key /\ LastOfKey(g)
  BY <1>2, <1>4
<1>9. Act(g)' = "Open" /\ Key(g)' = key /\ hooks'[g] = hooks[g]
  BY <1>1, <1>8
<1>10. p - 1 = Len(hooks) /\ p # 0
  BY <1>1
<1>11. Earlier(p)' = {j \in 1..Len(hooks) : Act(j) # "Immediate" /\ Key(j) = key}
  BY <1>1, <1>10 DEF Earlier
<1>12. g \in Earlier(p)'
  BY <1>8, <1>11
<1>13. ASSUME NEW j \in Earlier(p)' PROVE j <= g
  <2>1. j \in 1..Len(hooks) /\ Act(j) # "Immediate" /\ Key(j) = key
    BY <1>11, <1>13
  <2>2. j \notin g + 1..Len(hooks)
    BY <1>8, <2>1 DEF LastOfKey
  <2> QED BY <1>1, <1>8, <2>1, <2>2
<1>14. hooks'[p].at - hooks'[g].at < ttl
  <2>1. hooks'[p].at = now /\ hooks'[g].at = open[key].opened
    BY <1>1, <1>2, <1>4, <1>9
  <2>2. open[key].opened \in Nat /\ now \in Nat /\ ttl \in Nat
    BY <1>2, AssemblerAssumption DEF OpenSpans, TypeInv
  <2> QED BY <1>3, <2>1, <2>2
<1> QED BY <1>1, <1>6, <1>7, <1>9, <1>10, <1>12, <1>13, <1>14 DEF RightReturn

\* A Post returned alone had no Pre to be joined with, or a good reason to miss it.
LEMMA MissRight ==
  ASSUME TypeInv, OpenSound, MissReasoned, NEW span \in Spans, NEW p, Added(span, p),
         NEW ts \in Nat, classify(span).act \in {"Immediate", "Close"},
         classify(span).act = "Close" => classify(span).key \notin Kept,
         NEW r, r = emit_unpaired(p, ts)
  PROVE  RightReturn(r)'
<1> DEFINE key == classify(span).key
<1>1. /\ Len(hooks) \in Nat /\ p \in Nat /\ p = Len(hooks) + 1
      /\ \A j \in 1..Len(hooks) :
              hooks'[j] = hooks[j] /\ Act(j)' = Act(j) /\ Key(j)' = Key(j)
      /\ hooks'[p] = [span |-> span, at |-> now]
      /\ Act(p)' = classify(span).act /\ Key(p)' = key
  BY HookAdded
<1>2. r.post = 0 /\ r.hook = p /\ r.end >= r.start
  BY DEF emit_unpaired
<1> HIDE DEF key
<1>3. p - 1 = Len(hooks)
  BY <1>1
<1>4. Earlier(p)' = {j \in 1..Len(hooks) : Act(j) # "Immediate" /\ Key(j) = key}
  BY <1>1, <1>3 DEF Earlier
<1>5. ASSUME Act(p)' = "Close", NEW h \in Earlier(p)', \A j \in Earlier(p)' : j <= h
      PROVE  \/ Act(h)' # "Open"
             \/ hooks'[p].at - hooks'[h].at >= ttl
             \/ Cardinality(Rivals(h, p)') >= capacity
  <2> SUFFICES ASSUME Act(h)' = "Open"
               PROVE  \/ hooks'[p].at - hooks'[h].at >= ttl
                      \/ Cardinality(Rivals(h, p)') >= capacity
    OBVIOUS
  <2>1. h \in 1..Len(hooks) /\ Key(h) = key /\ Act(h) = "Open" /\ hooks'[h] = hooks[h]
    BY <1>1, <1>4, <1>5
  <2>2. LastOfKey(h)
    <3> SUFFICES ASSUME NEW j \in h + 1..Len(hooks), Act(j) # "Immediate", Key(j) = Key(h)
                 PROVE  FALSE
      BY DEF LastOfKey
    <3>1. j \in 1..Len(hooks) /\ ~(j <= h)
      BY <1>1, <2>1
    <3> QED BY <1>4, <1>5, <2>1, <3>1
  <2>3. \/ key \in DOMAIN open /\ open[key].hook = h
        \/ now - hooks[h].at >= ttl
        \/ Cardinality(Rivals(h, p)) >= capacity
    BY <1>1, <2>1, <2>2 DEF MissReasoned
  <2>4. key \notin Kept
    BY <1>1, <1>5 DEF key
  <2>5. key \in DOMAIN open /\ open[key].hook = h => now - hooks[h].at >= ttl
    BY <2>4 DEF Kept, Expired, OpenSound
  <2>6. Rivals(h, p)' = Rivals(h, p)
    BY <2>1, RivalsAfter
  <2>7. hooks'[p].at = now
    BY <1>1
  <2> QED BY <2>1, <2>3, <2>5, <2>6, <2>7
<1> QED BY <1>2, <1>5 DEF RightReturn

\* Every span an observe() returns is right.
LEMMA ObserveRight ==
  ASSUME AssemblerInv, NEW span \in Spans, NEW ts \in Wall, Observe(span, ts)
  PROVE  \A r \in Range(out') : RightReturn(r)'
<1>1. TypeInv /\ OpenSound /\ MissReasoned
  BY DEF AssemblerInv
<1>2. ts \in Nat /\ now \in Nat /\ Len(hooks) \in Nat /\ OpenTyped(open)
  BY <1>1, AssemblerAssumption DEF TypeInv
<1> DEFINE p == Len(hooks) + 1
           c == classify(span)
<1>3. Outcome(c, p, ts) /\ Added(span, p)
  BY <1>2, ObserveOutcome DEF Observe, Added
<1>4. PICK q : q = p
  OBVIOUS
<1>5. Outcome(c, q, ts) /\ Added(span, q)
  BY <1>3, <1>4
<1> HIDE DEF p, c
<1>6. Expired \subseteq DOMAIN open /\ Kept \subseteq DOMAIN open
  BY DEF Expired, Kept
<1>7. \A K : K \subseteq DOMAIN open => \A r \in Alone(open, K) : RightReturn(r)'
  BY <1>1, <1>5, AloneRight
<1>8. CASE c.act = "Immediate" /\ PassesOn(q, ts)
  <2>1. \A r : r = emit_unpaired(q, ts) => RightReturn(r)'
    BY <1>1, <1>2, <1>5, <1>8, MissRight DEF c
  <2> QED BY <1>6, <1>7, <1>8, <2>1 DEF PassesOn
<1>9. CASE \E victim : Stores(c.key, q, ts, victim)
  <2>1. PICK victim : Stores(c.key, q, ts, victim)
    BY <1>9
  <2>2. Expired \cup (Kept \cap {c.key}) \cup victim \subseteq DOMAIN open
    BY <1>6, <2>1 DEF Stores
  <2> QED BY <1>7, <2>1, <2>2 DEF Stores
<1>10. CASE c.act \in {"Close", "Stop"} /\ Joins(c.key, q, ts)
  <2>1. \A r : r = pair(open[c.key], q, ts) => RightReturn(r)'
    BY <1>1, <1>2, <1>5, <1>10, JoinRight DEF c, Joins
  <2> QED BY <1>6, <1>7, <1>10, <2>1 DEF Joins
<1>11. CASE c.act = "Close" /\ Misses(c.key, q, ts, {emit_unpaired(q, ts)})
  <2>1. \A r : r = emit_unpaired(q, ts) => RightReturn(r)'
    BY <1>1, <1>2, <1>5, <1>11, MissRight DEF c, Misses
  <2> QED BY <1>6, <1>7, <1>11, <2>1 DEF Misses
<1>12. CASE Misses(c.key, q, ts, {})
  BY <1>6, <1>7, <1>12 DEF Misses
<1> QED BY <1>5, <1>8, <1>9, <1>10, <1>11, <1>12 DEF Outcome

\* The theorem PairsAreExact: a Post or Stop is joined with the Pre that came last
\* under its key, and a Post misses that Pre only when the Pre expired or at least
\* capacity later Pres of other keys arrived; however hooks are ordered.
THEOREM PairsAreExact == Spec => []PairsExact
<1>1. Init => AllRight
  <2> SUFFICES ASSUME Init PROVE AllRight
    OBVIOUS
  <2>1. Range(out) = {}
    BY RangeSmall DEF Init
  <2> QED BY <2>1 DEF AllRight
<1>2. AssemblerInv /\ AllRight /\ [Next]_vars => AllRight'
  <2> SUFFICES ASSUME AssemblerInv, AllRight, [Next]_vars PROVE AllRight'
    OBVIOUS
  <2>1. CASE \E span \in Spans, ts \in Wall : Observe(span, ts)
    BY <2>1, ObserveRight DEF AllRight
  <2>2. CASE UNCHANGED <<hooks, out>>
    <3>1. /\ \A h : Act(h)' = Act(h) /\ Key(h)' = Key(h)
          /\ \A h : Earlier(h)' = Earlier(h)
          /\ \A h, p : Rivals(h, p)' = Rivals(h, p)
      BY <2>2 DEF Act, Key, Earlier, Rivals
    <3>2. \A r : RightReturn(r)' = RightReturn(r)
      BY <2>2, <3>1 DEF RightReturn
    <3> QED BY <2>2, <3>2 DEF AllRight
  <2> QED BY <2>1, <2>2 DEF Next, Tick, Done, vars
<1> QED BY <1>1, <1>2, RightReturns, AssemblerInvariant, PTL DEF Spec

-----------------------------------------------------------------------------
(* The assembler implements the ledger of hooks.                           *)

HooksOf(K) == {open[k].hook : k \in K}

\* Among the returned spans, x is mentioned.
Told(x) == \E r \in Range(out') : x \in {r.hook, r.post}

\* An observe() as the ledger sees it: gone leaves, the new hook p is told of or
\* not, and waits or not, but not both.
Books(p, gone, tells, waits) ==
    /\ gone \subseteq waitingBar
    /\ \A x : x # 0 => (Told(x) <=> x \in gone \/ (tells /\ x = p))
    /\ waitingBar' = (waitingBar \ gone) \cup (IF waits THEN {p} ELSE {})
    /\ ~(tells /\ waits)

\* Each key has a hook of its own.
LEMMA HooksLeft ==
  ASSUME OpenSound, NEW K, K \subseteq DOMAIN open
  PROVE  /\ HooksOf(DOMAIN open \ K) = waitingBar \ HooksOf(K)
         /\ HooksOf(K) \subseteq waitingBar
<1>1. \A k \in DOMAIN open : Key(open[k].hook) = k
  BY DEF OpenSound
<1> QED BY <1>1 DEF HooksOf, waitingBar

\* Without K, what waits is what waited and is not of K.
LEMMA WithoutWaiting ==
  ASSUME OpenSound, NEW K, K \subseteq DOMAIN open, open' = Without(open, K)
  PROVE  waitingBar' = waitingBar \ HooksOf(K)
<1>1. DOMAIN open' = DOMAIN open \ K /\ \A k \in DOMAIN open \ K : open'[k] = open[k]
  BY WithoutKeys
<1>2. waitingBar' = HooksOf(DOMAIN open \ K)
  BY <1>1 DEF waitingBar, HooksOf
<1> QED BY <1>2, HooksLeft

\* The hooks told of by the spans of K.
LEMMA AloneTells ==
  ASSUME NEW K, K \subseteq DOMAIN open, NEW x, x # 0
  PROVE  (\E r \in Alone(open, K) : x \in {r.hook, r.post}) <=> x \in HooksOf(K)
<1>1. \A k : emit_unpaired(open[k].hook, open[k].start).hook = open[k].hook
             /\ emit_unpaired(open[k].hook, open[k].start).post = 0
  BY DEF emit_unpaired
<1> QED BY <1>1 DEF Alone, HooksOf

\* Every way an observe() may go keeps the books.
LEMMA ObserveBooks ==
  ASSUME OpenSound, NEW c, NEW p \in Nat \ {0}, NEW ts, Outcome(c, p, ts)
  PROVE  \E gone : \E tells, waits \in BOOLEAN : Books(p, gone, tells, waits)
<1>1. Expired \subseteq DOMAIN open /\ Kept \subseteq DOMAIN open /\ Kept = DOMAIN open \ Expired
  BY DEF Expired, Kept
<1>2. emit_unpaired(p, ts).hook = p /\ emit_unpaired(p, ts).post = 0
  BY DEF emit_unpaired
<1>3. ASSUME open' = Without(open, Expired),
             Range(out') = Alone(open, Expired) \cup {emit_unpaired(p, ts)}
      PROVE  Books(p, HooksOf(Expired), TRUE, FALSE)
  <2>1. waitingBar' = waitingBar \ HooksOf(Expired) /\ HooksOf(Expired) \subseteq waitingBar
    BY <1>1, <1>3, WithoutWaiting, HooksLeft
  <2>2. ASSUME NEW x, x # 0
        PROVE  Told(x) <=> x \in HooksOf(Expired) \/ x = p
    <3>1. Told(x) <=> \/ \E r \in Alone(open, Expired) : x \in {r.hook, r.post}
                      \/ x \in {emit_unpaired(p, ts).hook, emit_unpaired(p, ts).post}
      BY <1>3 DEF Told
    <3>2. (\E r \in Alone(open, Expired) : x \in {r.hook, r.post}) <=> x \in HooksOf(Expired)
      BY <1>1, <2>2, AloneTells
    <3> QED BY <1>2, <2>2, <3>1, <3>2
  <2> QED BY <2>1, <2>2 DEF Books
<1>4. CASE PassesOn(p, ts) \/ Misses(c.key, p, ts, {emit_unpaired(p, ts)})
  BY <1>3, <1>4 DEF PassesOn, Misses
<1>5. CASE Misses(c.key, p, ts, {})
  <2>1. open' = Without(open, Expired) /\ Range(out') = Alone(open, Expired)
    BY <1>5 DEF Misses
  <2>2. waitingBar' = waitingBar \ HooksOf(Expired) /\ HooksOf(Expired) \subseteq waitingBar
    BY <1>1, <2>1, WithoutWaiting, HooksLeft
  <2>3. \A x : x # 0 => (Told(x) <=> x \in HooksOf(Expired))
    BY <1>1, <2>1, AloneTells DEF Told
  <2>4. Books(p, HooksOf(Expired), FALSE, FALSE)
    BY <2>2, <2>3 DEF Books
  <2> QED BY <2>4
<1>6. CASE Joins(c.key, p, ts)
  <2> DEFINE key == c.key
             K == Expired \cup {key}
  <2> HIDE DEF key
  <2>1. /\ key \in Kept /\ open' = Without(open, K)
        /\ Range(out') = Alone(open, Expired) \cup {pair(open[key], p, ts)}
    BY <1>6 DEF Joins, key
  <2>2. K \subseteq DOMAIN open
    BY <1>1, <2>1
  <2>3. HooksOf(K) = HooksOf(Expired) \cup {open[key].hook}
    BY DEF HooksOf
  <2>4. pair(open[key], p, ts).hook = open[key].hook /\ pair(open[key], p, ts).post = p
    BY DEF pair
  <2>5. waitingBar' = waitingBar \ HooksOf(K) /\ HooksOf(K) \subseteq waitingBar
    BY <2>1, <2>2, WithoutWaiting, HooksLeft
  <2>6. ASSUME NEW x, x # 0
        PROVE  Told(x) <=> x \in HooksOf(K) \/ x = p
    <3>1. Told(x) <=> \/ \E r \in Alone(open, Expired) : x \in {r.hook, r.post}
                      \/ x \in {pair(open[key], p, ts).hook, pair(open[key], p, ts).post}
      BY <2>1 DEF Told
    <3>2. (\E r \in Alone(open, Expired) : x \in {r.hook, r.post}) <=> x \in HooksOf(Expired)
      BY <1>1, <2>6, AloneTells
    <3> QED BY <2>3, <2>4, <3>1, <3>2
  <2>7. Books(p, HooksOf(K), TRUE, FALSE)
    BY <2>5, <2>6 DEF Books
  <2> QED BY <2>7
<1>7. CASE \E victim : Stores(c.key, p, ts, victim)
  <2>1. PICK victim : Stores(c.key, p, ts, victim)
    BY <1>7
  <2> DEFINE key == c.key
             K == Expired \cup (Kept \cap {key}) \cup victim
  <2> HIDE DEF key
  <2>2. /\ victim \subseteq Kept \ {key} /\ Range(out') = Alone(open, K)
        /\ DOMAIN open' = ((Kept \ {key}) \ victim) \cup {key}
        /\ open'[key].hook = p
        /\ \A k \in (Kept \ {key}) \ victim : open'[k] = open[k]
    BY <2>1 DEF Stores, key
  <2>3. K \subseteq DOMAIN open /\ DOMAIN open \ K = (Kept \ {key}) \ victim
    BY <1>1, <2>2
  <2>4. waitingBar' = HooksOf(DOMAIN open \ K) \cup {p}
    <3> DEFINE R == (Kept \ {key}) \ victim
    <3>1. DOMAIN open' = R \cup {key} /\ open'[key].hook = p
          /\ \A k \in R : open'[k].hook = open[k].hook
      BY <2>2
    <3>2. waitingBar' = {open'[k].hook : k \in R \cup {key}}
      BY <3>1 DEF waitingBar
    <3> HIDE DEF R
    <3>3. {open'[k].hook : k \in R \cup {key}} = {open[k].hook : k \in R} \cup {p}
      BY <3>1
    <3> QED BY <2>3, <3>2, <3>3 DEF HooksOf, R
  <2>5. waitingBar' = (waitingBar \ HooksOf(K)) \cup {p} /\ HooksOf(K) \subseteq waitingBar
    BY <2>3, <2>4, HooksLeft
  <2>6. \A x : x # 0 => (Told(x) <=> x \in HooksOf(K))
    BY <2>2, <2>3, AloneTells DEF Told
  <2>7. Books(p, HooksOf(K), FALSE, TRUE)
    BY <2>5, <2>6 DEF Books
  <2> QED BY <2>7
<1> QED BY <1>4, <1>5, <1>6, <1>7 DEF Outcome

\* An observe() is a step of the ledger.
LEMMA ObserveLedger ==
  ASSUME AssemblerInv, NEW span \in Spans, NEW ts \in Wall, Observe(span, ts)
  PROVE  Ledger!Next
<1>1. TypeInv /\ OpenSound /\ UntoldAhead
  BY DEF AssemblerInv
<1>2. ts \in Nat /\ now \in Nat /\ Len(hooks) \in Nat /\ OpenTyped(open)
  BY <1>1, AssemblerAssumption DEF TypeInv
<1> DEFINE n == Len(hooks) + 1
<1>3. out' \in Seq(Returns) /\ Outcome(classify(span), n, ts) /\ Added(span, n)
  BY <1>2, ObserveOutcome DEF Observe, Added
<1>4. PICK p : p = n
  OBVIOUS
<1>5. Outcome(classify(span), p, ts) /\ Added(span, p)
  BY <1>3, <1>4
<1>6. /\ p \in Nat \ {0} /\ Len(hooks') = p /\ p = Len(hooks) + 1
      /\ 1..p = 1..Len(hooks) \cup {p} /\ p \notin 1..Len(hooks)
  BY <1>2, <1>4 DEF Observe
<1>7. 1..p \subseteq Hooks /\ p \in Hooks
  BY <1>2, <1>4, AssemblerAssumption DEF Observe, Hooks
<1> HIDE DEF n
<1>8. PICK gone : \E tells, waits \in BOOLEAN : Books(p, gone, tells, waits)
  BY <1>1, <1>5, <1>6, ObserveBooks
<1>9. PICK tells \in BOOLEAN, waits \in BOOLEAN : Books(p, gone, tells, waits)
  BY <1>8
<1>10. waitingBar \subseteq 1..Len(hooks)
  BY <1>1 DEF waitingBar, OpenSound
<1>11. \A x \in Hooks : x # 0
  BY DEF Hooks
<1>12. /\ told' \in [Hooks -> Nat]
       /\ \A h \in Hooks : told'[h] = 0 <=> told[h] = 0 /\ ~Told(h)
  BY <1>1, <1>3, ToldAfter DEF Observe, Told
<1>13. /\ gone \subseteq waitingBar
       /\ \A x \in Hooks : Told(x) <=> x \in gone \/ (tells /\ x = p)
       /\ waitingBar' = (waitingBar \ gone) \cup (IF waits THEN {p} ELSE {})
       /\ ~(tells /\ waits)
  BY <1>9, <1>11 DEF Books
<1>14. told \in [Hooks -> Nat] /\ told[p] = 0
  BY <1>1, <1>6, <1>7 DEF TypeInv, UntoldAhead
<1>15. toldBar' = toldBar \cup gone \cup (IF tells THEN {p} ELSE {})
  <2>1. \A x \in Hooks : /\ told'[x] > 0 <=> ~(told'[x] = 0)
                         /\ told[x] > 0 <=> ~(told[x] = 0)
    BY <1>12, <1>14
  <2>2. gone \subseteq Hooks
    BY <1>6, <1>7, <1>10, <1>13
  <2> QED BY <1>7, <1>12, <1>13, <2>1, <2>2 DEF toldBar
<1>16. \A x : Waiting(x) <=> x \in waitingBar
  BY DEF Waiting, waitingBar
<1>17. \A x : Waiting(x)' <=> x \in waitingBar'
  BY DEF Waiting, waitingBar
<1>18. swallowedBar = {x \in 1..Len(hooks) : told[x] = 0 /\ x \notin waitingBar}
  BY <1>16 DEF swallowedBar
<1>19. swallowedBar' = {x \in 1..p : told'[x] = 0 /\ x \notin waitingBar'}
  BY <1>6, <1>17 DEF swallowedBar
<1>20. ASSUME NEW x \in 1..Len(hooks)
       PROVE  x \in swallowedBar' <=> x \in swallowedBar
  <2>1. x \in Hooks /\ x # p /\ x \in 1..p
    BY <1>6, <1>7
  <2> QED BY <1>12, <1>13, <1>18, <1>19, <2>1
<1>21. p \in swallowedBar' <=> ~tells /\ ~waits
  <2>1. p \notin waitingBar /\ p \in Hooks /\ p \in 1..p /\ p \notin gone
    BY <1>6, <1>7, <1>10, <1>13
  <2> QED BY <1>12, <1>13, <1>14, <1>19, <2>1
<1>22. swallowedBar' = swallowedBar \cup (IF tells \/ waits THEN {} ELSE {p})
  <2>1. swallowedBar \subseteq 1..Len(hooks) /\ swallowedBar' \subseteq 1..Len(hooks) \cup {p}
    BY <1>6, <1>18, <1>19
  <2> QED BY <1>20, <1>21, <2>1
<1>23. p \notin waitingBar \cup toldBar \cup swallowedBar
  BY <1>6, <1>10, <1>14, <1>18 DEF toldBar
<1>24. gone \in SUBSET Hooks
  BY <1>6, <1>7, <1>10, <1>13
<1>25. Ledger!Observe(p, gone)
  <2>1. CASE tells /\ ~waits
    BY <1>13, <1>15, <1>22, <1>23, <2>1 DEF Ledger!Observe
  <2>2. CASE ~tells /\ waits
    BY <1>13, <1>15, <1>22, <1>23, <2>2 DEF Ledger!Observe
  <2>3. CASE ~tells /\ ~waits
    BY <1>13, <1>15, <1>22, <1>23, <2>3 DEF Ledger!Observe
  <2> QED BY <1>13, <2>1, <2>2, <2>3
<1> QED BY <1>7, <1>24, <1>25 DEF Ledger!Next

\* The theorem AssemblerLedger: every observe() takes one hook in and lets some
\* that waited go, each hook told of once or dropped, as the HookLedger has it;
\* so what is checked of the daemon over that ledger holds over this assembler.
THEOREM AssemblerLedger == Spec => LedgerSpec
<1>1. Init => Ledger!Init
  <2> SUFFICES ASSUME Init PROVE Ledger!Init
    OBVIOUS
  <2>1. open = <<>> /\ DOMAIN open = {} /\ hooks = <<>> /\ Len(hooks) = 0
        /\ \A h \in Hooks : ~(told[h] > 0)
    BY DEF Init
  <2>2. waitingBar = {} /\ toldBar = {} /\ swallowedBar = {}
    BY <2>1 DEF waitingBar, toldBar, swallowedBar
  <2> QED BY <2>2 DEF Ledger!Init
<1>2. AssemblerInv /\ [Next]_vars
        => Ledger!Next \/ UNCHANGED <<waitingBar, toldBar, swallowedBar>>
  <2> SUFFICES ASSUME AssemblerInv, [Next]_vars
               PROVE  Ledger!Next \/ UNCHANGED <<waitingBar, toldBar, swallowedBar>>
    OBVIOUS
  <2>1. CASE \E span \in Spans, ts \in Wall : Observe(span, ts)
    BY <2>1, ObserveLedger
  <2>2. CASE UNCHANGED <<hooks, open, told>>
    BY <2>2 DEF waitingBar, toldBar, swallowedBar, Waiting
  <2> QED BY <2>1, <2>2 DEF Next, Tick, Done, vars
<1> QED BY <1>1, <1>2, AssemblerInvariant, PTL DEF Spec, LedgerSpec, Ledger!Spec

=============================================================================
