---------------------------- MODULE FleetProofs ----------------------------
(***************************************************************************)
(* What callers share on first use is made once and used in time, and      *)
(* nobody fails by somebody else's cancellation, for any number of units,  *)
(* viewers, workers, keys and faults.                                      *)
(***************************************************************************)
EXTENDS Fleet, SequenceTheorems, TLAPS

\* A caller gets nothing, a value it asks for, or what a value needs whose
\* flight it is.  An installation is looked up and called for without a flight.
Shape(g) ==
  \/ stack[g] = <<>> /\ ~Active(g)
  \/ \E k \in Asked : stack[g] = <<k>> /\ Active(g)
  \/ \E k \in DOMAIN Under :
       /\ stack[g] = <<Under[k], k>> /\ flight[k] = g
       /\ Active(g) /\ pc[g] # "use"
       /\ Under[k] \in Installation => pc[g] \in {"look", "call", "answered"}

\* Who makes a value has its flight, or that of the value it is needed for,
\* and a value that is kept is not made while there is one.
Making(g) == pc[g] \in {"call", "answered", "hung"}
MakesAlone(g) ==
  Making(g) => /\ Top(g) \in Asked => flight[Top(g)] = g
               /\ Top(g) \in Kept => cache[Top(g)] = Nothing

\* What a caller holds is young enough: for a token, it was so before the
\* call that uses it began.
InTime(g) ==
  /\ pc[g] = "answered" => age[g] <= clock[g]
  /\ pc[g] = "use" /\ Top(g) \in Token =>
       age[g] < Life - Margin + clock[g] \/ age[g] <= Timeout + clock[g]
  /\ pc[g] = "use" /\ Top(g) \in Probe => age[g] < TTL + Timeout

Sound(g) == Shape(g) /\ MakesAlone(g) /\ InTime(g)

\* A value that has been made is there.
MadeInv == \A k \in Kept : built[k] = 0 \/ (built[k] = 1 /\ cache[k] # Nothing)

\* What is cached may be used.
Usable(k, e) ==
  /\ k \in Token => e.age < Life - Margin \/ e.age <= Timeout
  /\ k \in Probe => e.age <= Timeout + e.held /\ e.held < TTL

CacheInv == \A k \in Key : cache[k] # Nothing => Usable(k, cache[k])

FleetInv == TypeOK /\ MadeInv /\ CacheInv /\ \A g \in Caller : Sound(g)

-----------------------------------------------------------------------------
\* Stacks of one key and of two.
LEMMA OneKey == \A k : Len(<<k>>) = 1 /\ Head(<<k>>) = k /\ <<k>> # <<>>
  OBVIOUS

\* A value, and the one it is needed for.
LEMMA TwoKeys ==
  \A j, k : /\ Len(<<j, k>>) = 2 /\ Head(<<j, k>>) = j /\ Tail(<<j, k>>) = <<k>>
            /\ <<j, k>>[2] = k /\ <<j, k>> # <<>>
  OBVIOUS

\* One key in front of another.
LEMMA InFront ==
  ASSUME NEW j, NEW k
  PROVE  <<j>> \o <<k>> = <<j, k>>
<1>0. PICK s, t, S : s = <<j>> /\ t = <<k>> /\ S = {j, k}
  OBVIOUS
<1>1. /\ s \in Seq(S) /\ t \in Seq(S) /\ <<j, k>> \in Seq(S)
      /\ Len(s) = 1 /\ Len(t) = 1 /\ Len(<<j, k>>) = 2 /\ s[1] = j /\ t[1] = k
  BY <1>0
<1>2. /\ s \o t \in Seq(S) /\ Len(s \o t) = Len(s) + Len(t)
      /\ \A i \in 1..(Len(s) + Len(t)) : (s \o t)[i] = IF i <= Len(s) THEN s[i] ELSE t[i - Len(s)]
  BY <1>1, ConcatProperties, Zenon
<1>3. Len(s \o t) = 2 /\ (s \o t)[1] = j /\ (s \o t)[2] = k
  BY <1>1, <1>2
<1>4. \A i \in 1..2 : (s \o t)[i] = <<j, k>>[i]
  BY <1>3
<1>5. s \o t = <<j, k>>
  BY <1>1, <1>2, <1>3, <1>4, SeqEqual
<1> QED
  BY <1>0, <1>5

\* The kinds of keys.
LEMMA Kinds ==
  /\ DOMAIN Under \subseteq Asked /\ Asked \subseteq Key /\ Kept \subseteq Key
  /\ \A k \in DOMAIN Under : Under[k] \in Kept /\ k \notin Kept
  /\ \A k \in Kept : k \notin DOMAIN Under /\ k \notin Token /\ k \notin Probe
  /\ \A k \in Installation : k \in Kept /\ k \notin Asked
  /\ \A k \in Kept : k \in Asked <=> k \in Client
  /\ \A k \in Key : k \in Asked \/ k \in Installation
  BY FleetAssumption DEF Asked, Key, Kept

\* The constants that are numbers.
LEMMA Numbers ==
  /\ Life \in Nat /\ Margin \in Nat /\ TTL \in Nat /\ Timeout \in Nat /\ Grace \in Nat
  /\ MaxFaults \in Nat /\ MaxHangs \in Nat /\ TTL > 0
  /\ Timeout <= Margin /\ 2 * Timeout < Life /\ Margin < Life
  /\ Ages \subseteq Nat /\ 0 \in Ages
  BY FleetAssumption DEF Ages

\* What the stack of an active caller holds.
LEMMA StackOf ==
  ASSUME NEW g \in Caller, Shape(g), Active(g)
  PROVE  \/ \E k \in Asked : stack[g] = <<k>> /\ Top(g) = k /\ Len(stack[g]) = 1
         \/ \E k \in DOMAIN Under :
              /\ stack[g] = <<Under[k], k>> /\ Top(g) = Under[k] /\ Len(stack[g]) = 2
              /\ stack[g][2] = k /\ Tail(stack[g]) = <<k>> /\ flight[k] = g
              /\ pc[g] # "use"
              /\ Under[k] \in Installation => pc[g] \in {"look", "call", "answered"}
<1>1. CASE \E k \in Asked : stack[g] = <<k>>
  BY <1>1 DEF Top
<1>2. CASE \E k \in DOMAIN Under :
             /\ stack[g] = <<Under[k], k>> /\ flight[k] = g /\ pc[g] # "use"
             /\ Under[k] \in Installation => pc[g] \in {"look", "call", "answered"}
  <2>1. PICK k \in DOMAIN Under :
             /\ stack[g] = <<Under[k], k>> /\ flight[k] = g /\ pc[g] # "use"
             /\ Under[k] \in Installation => pc[g] \in {"look", "call", "answered"}
    BY <1>2
  <2>2. /\ Top(g) = Under[k] /\ Len(stack[g]) = 2 /\ stack[g][2] = k
        /\ Tail(stack[g]) = <<k>>
    BY <2>1 DEF Top
  <2> QED
    BY <2>1, <2>2
<1> QED
  BY <1>1, <1>2 DEF Shape

\* A stack of this shape is a sequence of at most two keys.
LEMMA StackType ==
  ASSUME NEW s,
         \/ s = <<>> \/ \E k \in Asked : s = <<k>>
         \/ \E k \in DOMAIN Under : s = <<Under[k], k>>
  PROVE  s \in Seq(Key) /\ Len(s) <= 2
<1>1. CASE s = <<>>
  BY <1>1
<1>2. CASE \E k \in Asked : s = <<k>>
  BY <1>2, Kinds
<1>3. CASE \E k \in DOMAIN Under : s = <<Under[k], k>>
  BY <1>3, Kinds
<1> QED
  BY <1>1, <1>2, <1>3

\* Two callers never make the same value.
LEMMA OneMaker ==
  ASSUME NEW g \in Caller, NEW h \in Caller, Sound(g), Sound(h), Making(g), Making(h),
         Top(g) = Top(h)
  PROVE  g = h
<1>1. Active(g) /\ Active(h)
  BY DEF Making, Active
<1>2. CASE Top(g) \in Asked
  BY <1>2 DEF Sound, MakesAlone
<1>3. CASE Top(g) \notin Asked
  <2>1. PICK k \in DOMAIN Under : Top(g) = Under[k] /\ flight[k] = g
    BY <1>1, <1>3, StackOf DEF Sound
  <2>2. PICK l \in DOMAIN Under : Top(h) = Under[l] /\ flight[l] = h
    BY <1>1, <1>3, StackOf DEF Sound
  <2>3. k \in Token /\ l \in Token
    BY <1>3, <2>1, <2>2, FleetAssumption DEF Asked
  <2> QED
    BY <2>1, <2>2, <2>3, FleetAssumption
<1> QED
  BY <1>2, <1>3

\* A caller that a step does not touch stays as it was.
LEMMA Untouched ==
  ASSUME NEW h \in Caller, Sound(h),
         pc'[h] = pc[h], stack'[h] = stack[h], age'[h] = age[h], clock'[h] = clock[h],
         \A k \in Asked : flight[k] = h => flight'[k] = h,
         Making(h) /\ Top(h) \in Kept => cache'[Top(h)] = cache[Top(h)]
  PROVE  Sound(h)'
<1>1. Shape(h)'
  BY Kinds DEF Sound, Shape, Active
<1>2. MakesAlone(h)' /\ InTime(h)'
  BY DEF Sound, MakesAlone, InTime, Making, Top
<1> QED
  BY <1>1, <1>2 DEF Sound

\* A caller that is served has what it asks for, or makes what it has the
\* flight of.
LEMMA Served ==
  ASSUME TypeOK, NEW S \in SUBSET Caller, NEW a \in Ages, Serve(S, a),
         NEW h \in S, Sound(h), Active(h),
         \A k \in DOMAIN Under : flight[k] = h => flight'[k] = h \/ k = Top(h),
         Top(h) \in Token => a < Life - Margin \/ a <= Timeout,
         Top(h) \in Probe => a < TTL + Timeout
  PROVE  Sound(h)'
<1>1. /\ pc'[h] = (IF Len(stack[h]) = 1 THEN "use" ELSE "call")
      /\ stack'[h] = (IF Len(stack[h]) > 1 THEN Tail(stack[h]) ELSE stack[h])
      /\ age'[h] = a /\ clock'[h] = 0
  BY DEF Serve
<1>2. CASE \E k \in Asked : stack[h] = <<k>> /\ Top(h) = k /\ Len(stack[h]) = 1
  <2>1. PICK k \in Asked : stack[h] = <<k>> /\ Top(h) = k /\ Len(stack[h]) = 1
    BY <1>2
  <2>2. pc'[h] = "use" /\ stack'[h] = <<k>> /\ Top(h)' = k
    BY <1>1, <2>1 DEF Top
  <2>3. Shape(h)'
    BY <2>2 DEF Shape, Active
  <2>4. MakesAlone(h)'
    BY <2>2 DEF MakesAlone, Making
  <2>5. InTime(h)'
    BY <1>1, <2>1, <2>2, Numbers DEF InTime
  <2> QED
    BY <2>3, <2>4, <2>5 DEF Sound
<1>3. CASE \E k \in DOMAIN Under :
             /\ Top(h) = Under[k] /\ Len(stack[h]) = 2
             /\ Tail(stack[h]) = <<k>> /\ flight[k] = h
  <2>1. PICK k \in DOMAIN Under :
             /\ Top(h) = Under[k] /\ Len(stack[h]) = 2
             /\ Tail(stack[h]) = <<k>> /\ flight[k] = h
    BY <1>3
  <2>s. pc'[h] = "call" /\ stack'[h] = <<k>>
    BY <1>1, <2>1
  <2>2. pc'[h] = "call" /\ stack'[h] = <<k>> /\ Top(h)' = k
    BY <2>s DEF Top
  <2>3. k \in Asked /\ k \notin Kept /\ k # Top(h) /\ flight'[k] = h
    BY <2>1, Kinds
  <2>4. Shape(h)'
    BY <2>2, <2>3 DEF Shape, Active
  <2>5. MakesAlone(h)' /\ InTime(h)'
    BY <2>2, <2>3 DEF MakesAlone, Making, InTime
  <2> QED
    BY <2>4, <2>5 DEF Sound
<1> QED
  BY <1>2, <1>3, StackOf DEF Sound

\* A caller whose work is over has nothing.
LEMMA Ended ==
  ASSUME NEW S \in SUBSET Caller, NEW cause, End(S, cause), NEW h \in S
  PROVE  Sound(h)'
<1>1. pc'[h] \in {"done", "idle"} /\ stack'[h] = <<>>
  BY DEF End
<1> QED
  BY <1>1 DEF Sound, Shape, MakesAlone, InTime, Making, Active

\* A caller that turns to the next value of its path has yet to look for it.
LEMMA Turned ==
  ASSUME TypeOK, NEW g \in Caller, NEW path \in Seq(Asked), path # <<>>, Turn(g, path)
  PROVE  Sound(g)' /\ Tail(path) \in Seq(Asked)
<1>1. Head(path) \in Asked /\ Tail(path) \in Seq(Asked)
  BY HeadTailProperties
<1>2. pc'[g] = "look" /\ stack'[g] = <<Head(path)>>
  BY DEF Turn, TypeOK
<1> QED
  BY <1>1, <1>2 DEF Sound, Shape, MakesAlone, InTime, Making, Active

-----------------------------------------------------------------------------
\* What the callers keep is well typed.
CallsType ==
  /\ pc \in [Caller -> {"idle", "look", "join", "wait", "call", "answered", "hung",
                        "use", "done"}]
  /\ todo \in [Caller -> Seq(Asked)]
  /\ stack \in [Caller -> Seq(Key)] /\ \A g \in Caller : Len(stack[g]) <= 2
  /\ age \in [Caller -> Ages] /\ clock \in [Caller -> 0..Timeout]

\* So is the rest, but for what is cached.
RestType ==
  /\ flight \in [Key -> {Nobody} \cup Caller]
  /\ gone \subseteq Caller
  /\ pass \in BOOLEAN
  /\ phase \in {"up", "shutdown", "drain", "exited"} /\ left \in 0..Grace
  /\ blamed \subseteq Caller
  /\ faults \in 0..MaxFaults /\ hangs \in 0..MaxHangs

\* A step keeps FleetInv if it leaves the caches alone and the callers sound.
LEMMA Reassembled ==
  ASSUME FleetInv, UNCHANGED <<cache, built>>, CallsType', RestType',
         \A h \in Caller : Sound(h)'
  PROVE  FleetInv'
<1>1. TypeOK'
  BY DEF FleetInv, TypeOK, CallsType, RestType
<1>2. MadeInv' /\ CacheInv'
  BY DEF FleetInv, MadeInv, CacheInv
<1> QED
  BY <1>1, <1>2 DEF FleetInv

\* Sound callers have well-typed stacks.
LEMMA StacksTyped ==
  ASSUME \A h \in Caller : Sound(h)'
  PROVE  \A h \in Caller : stack'[h] \in Seq(Key) /\ Len(stack'[h]) <= 2
<1> SUFFICES ASSUME NEW h \in Caller PROVE stack'[h] \in Seq(Key) /\ Len(stack'[h]) <= 2
  OBVIOUS
<1>1. \/ stack'[h] = <<>> \/ \E k \in Asked : stack'[h] = <<k>>
      \/ \E k \in DOMAIN Under : stack'[h] = <<Under[k], k>>
  BY DEF Sound, Shape
<1> QED
  BY <1>1, StackType

\* The types after callers are served,
LEMMA ServeType ==
  ASSUME TypeOK, NEW S, NEW a \in Ages, Serve(S, a), \A h \in Caller : Sound(h)'
  PROVE  CallsType'
<1>1. \A h \in Caller : stack'[h] \in Seq(Key) /\ Len(stack'[h]) <= 2
  BY StacksTyped
<1>2. stack' \in [Caller -> Seq(Key)]
  BY <1>1 DEF Serve
<1>3. /\ pc' \in [Caller -> {"idle", "look", "join", "wait", "call", "answered", "hung",
                            "use", "done"}]
      /\ todo' \in [Caller -> Seq(Asked)]
  BY DEF Serve, TypeOK
<1>4. age' \in [Caller -> Ages] /\ clock' \in [Caller -> 0..Timeout]
  BY Numbers DEF Serve, TypeOK
<1> QED
  BY <1>1, <1>2, <1>3, <1>4 DEF CallsType

\* after their work is over,
LEMMA EndType ==
  ASSUME TypeOK, NEW S, NEW cause, End(S, cause), \A h \in Caller : Sound(h)'
  PROVE  CallsType' /\ gone' \subseteq Caller
<1>1. \A h \in Caller : stack'[h] \in Seq(Key) /\ Len(stack'[h]) <= 2
  BY StacksTyped
<1>2. stack' \in [Caller -> Seq(Key)]
  BY <1>1 DEF End
<1>3. /\ pc' \in [Caller -> {"idle", "look", "join", "wait", "call", "answered", "hung",
                            "use", "done"}]
      /\ todo' \in [Caller -> Seq(Asked)]
  BY DEF End, TypeOK
<1>4. age' \in [Caller -> Ages] /\ clock' \in [Caller -> 0..Timeout]
  BY Numbers DEF End, TypeOK
<1>5. gone' \subseteq Caller
  BY DEF End, TypeOK
<1> QED
  BY <1>1, <1>2, <1>3, <1>4, <1>5 DEF CallsType

\* and after one turns to the next value.
LEMMA TurnType ==
  ASSUME TypeOK, NEW g \in Caller, NEW path \in Seq(Asked), path # <<>>, Turn(g, path),
         \A h \in Caller : Sound(h)'
  PROVE  CallsType'
<1>1. \A h \in Caller : stack'[h] \in Seq(Key) /\ Len(stack'[h]) <= 2
  BY StacksTyped
<1>2. stack' \in [Caller -> Seq(Key)]
  BY <1>1 DEF Turn, TypeOK
<1>3. /\ pc' \in [Caller -> {"idle", "look", "join", "wait", "call", "answered", "hung",
                            "use", "done"}]
      /\ todo' \in [Caller -> Seq(Asked)]
  BY Turned DEF Turn, TypeOK
<1>4. age' \in [Caller -> Ages] /\ clock' \in [Caller -> 0..Timeout]
  BY Numbers DEF Turn, TypeOK
<1> QED
  BY <1>1, <1>2, <1>3, <1>4 DEF CallsType

\* The types after a step that moves one caller and no more.
LEMMA MoveType ==
  ASSUME TypeOK, NEW g \in Caller,
         NEW l \in {"look", "join", "wait", "call", "answered", "hung"},
         pc' = [pc EXCEPT ![g] = l], UNCHANGED <<todo, stack, clock>>,
         UNCHANGED age \/ age' = [age EXCEPT ![g] = 0]
  PROVE  /\ CallsType' /\ pc'[g] = l
         /\ \A h \in Caller : h # g => pc'[h] = pc[h] /\ age'[h] = age[h]
<1>1. /\ pc' \in [Caller -> {"idle", "look", "join", "wait", "call", "answered", "hung",
                            "use", "done"}]
      /\ pc'[g] = l /\ \A h \in Caller : h # g => pc'[h] = pc[h]
  BY DEF TypeOK
<1>2. age' \in [Caller -> Ages] /\ \A h \in Caller : h # g => age'[h] = age[h]
  <2>1. age \in [Caller -> Ages] /\ 0 \in Ages
    BY Numbers DEF TypeOK
  <2>2. CASE age' = age
    BY <2>1, <2>2
  <2>3. CASE age' = [age EXCEPT ![g] = 0]
    BY <2>1, <2>3
  <2> QED
    BY <2>2, <2>3
<1>3. /\ todo' \in [Caller -> Seq(Asked)] /\ clock' \in [Caller -> 0..Timeout]
      /\ stack' \in [Caller -> Seq(Key)] /\ \A h \in Caller : Len(stack'[h]) <= 2
  BY DEF TypeOK
<1> QED
  BY <1>1, <1>2, <1>3, Zenon DEF CallsType

-----------------------------------------------------------------------------
\* The rest after a step that leaves the process alone.
LEMMA RestKept ==
  ASSUME TypeOK, UNCHANGED <<pass, phase, left>>,
         flight' \in [Key -> {Nobody} \cup Caller], gone' \subseteq Caller,
         blamed' \subseteq Caller, faults' \in 0..MaxFaults, hangs' \in 0..MaxHangs
  PROVE  RestType'
<1>1. pass' \in BOOLEAN
  BY Zenon DEF TypeOK
<1>2. phase' \in {"up", "shutdown", "drain", "exited"} /\ left' \in 0..Grace
  BY DEF TypeOK
<1> QED
  BY <1>1, <1>2, Zenon DEF RestType

\* A fresh entry can be given to a caller.
LEMMA Handed ==
  ASSUME TypeOK, CacheInv, NEW k \in Key, Fresh(k)
  PROVE  /\ cache[k].age \in Ages
         /\ k \in Token => cache[k].age < Life - Margin \/ cache[k].age <= Timeout
         /\ k \in Probe => cache[k].age < TTL + Timeout
<1>1. cache[k] \in [age : Ages, held : Ages] /\ Usable(k, cache[k])
  BY DEF Fresh, TypeOK, CacheInv
<1>2. PICK a \in Ages, b \in Ages : a = cache[k].age /\ b = cache[k].held
  BY <1>1
<1>3. /\ k \in Token => a < Life - Margin \/ a <= Timeout
      /\ k \in Probe => a <= Timeout + b /\ b < TTL
  BY <1>1, <1>2 DEF Usable
<1>4. a \in Nat /\ b \in Nat
  BY Numbers
<1>5. k \in Probe => a < TTL + Timeout
  BY <1>3, <1>4, Numbers
<1> QED
  BY <1>2, <1>3, <1>5

\* A caller that finds the value goes on with it.
LEMMA ServedFromCache ==
  ASSUME FleetInv, NEW g \in Caller, Active(g), Top(g) \in Key, Fresh(Top(g)),
         Serve({g}, cache[Top(g)].age),
         UNCHANGED <<cache, flight, gone, pass, phase, left, built, blamed, faults, hangs>>
  PROVE  FleetInv'
<1>t. TypeOK /\ CacheInv /\ \A h \in Caller : Sound(h)
  BY DEF FleetInv
<1>0. PICK a : a = cache[Top(g)].age
  OBVIOUS
<1>1. /\ a \in Ages /\ Serve({g}, a)
      /\ Top(g) \in Token => a < Life - Margin \/ a <= Timeout
      /\ Top(g) \in Probe => a < TTL + Timeout
  BY <1>t, <1>0, Handed
<1>2. PICK S \in SUBSET Caller : S = {g}
  OBVIOUS
<1>3. Serve(S, a) /\ g \in S
  BY <1>1, <1>2
<1>4. \A k \in DOMAIN Under : flight[k] = g => flight'[k] = g \/ k = Top(g)
  OBVIOUS
<1>5. Sound(g)'
  BY <1>t, <1>1, <1>3, <1>4, Served, Zenon
<1>6. ASSUME NEW h \in Caller, h # g PROVE Sound(h)'
  <2>1. pc'[h] = pc[h] /\ stack'[h] = stack[h] /\ age'[h] = age[h] /\ clock'[h] = clock[h]
    BY <1>1, <1>6 DEF Serve
  <2> QED
    BY <1>t, <2>1, Untouched
<1>7. \A h \in Caller : Sound(h)'
  BY <1>5, <1>6
<1>8. CallsType'
  BY <1>t, <1>1, <1>3, <1>7, ServeType, Zenon
<1>9. RestType'
  BY <1>t, RestKept DEF TypeOK
<1> QED
  BY <1>7, <1>8, <1>9, Reassembled, Zenon

\* A look into the map serves the caller or sends it on.
LEMMA LookStep ==
  ASSUME FleetInv, NEW g \in Caller, Look(g)
  PROVE  FleetInv'
<1>t. TypeOK /\ \A h \in Caller : Sound(h)
  BY DEF FleetInv
<1>1. UNCHANGED <<cache, flight, gone, pass, phase, left, built, blamed, faults, hangs>>
  BY DEF Look, process, history
<1>2. RestType'
  BY <1>t, <1>1, RestKept DEF TypeOK
<1>3. Active(g) /\ Top(g) \in Key
  <2>1. Active(g)
    BY DEF Look, Active
  <2> QED
    BY <1>t, <2>1, StackOf, Kinds DEF Sound
<1>4. CASE Fresh(Top(g)) /\ Serve({g}, cache[Top(g)].age)
  BY <1>1, <1>3, <1>4, ServedFromCache, Zenon
<1>5. CASE /\ ~Fresh(Top(g))
           /\ pc' = [pc EXCEPT ![g] = IF Top(g) \in Installation THEN "call" ELSE "join"]
           /\ UNCHANGED <<todo, stack, age, clock>>
  <2>0. PICK l \in {"call", "join"} :
           pc' = [pc EXCEPT ![g] = l] /\ (l = "call" <=> Top(g) \in Installation)
    BY <1>5
  <2>1. /\ CallsType' /\ pc'[g] = l
        /\ \A h \in Caller : h # g => pc'[h] = pc[h] /\ age'[h] = age[h]
    BY <1>t, <1>5, <2>0, MoveType
  <2>2. Sound(g)'
    <3>1. Shape(g)'
      BY <1>t, <1>1, <1>3, <1>5, <2>0, <2>1, StackOf, Kinds DEF Shape, Active, Sound
    <3>2. MakesAlone(g)'
      BY <1>1, <1>5, <2>0, <2>1, Kinds DEF MakesAlone, Making, Top, Fresh
    <3>3. InTime(g)'
      BY <2>0, <2>1 DEF InTime
    <3> QED
      BY <3>1, <3>2, <3>3 DEF Sound
  <2>3. ASSUME NEW h \in Caller, h # g PROVE Sound(h)'
    BY <1>t, <1>1, <1>5, <2>1, <2>3, Untouched
  <2> QED
    BY <1>1, <1>2, <2>1, <2>2, <2>3, Reassembled
<1> QED
  BY <1>4, <1>5 DEF Look

\* Who joins a flight waits, finds the value after all, or has the flight.
LEMMA JoinStep ==
  ASSUME FleetInv, NEW g \in Caller, Join(g)
  PROVE  FleetInv'
<1>t. TypeOK /\ \A h \in Caller : Sound(h)
  BY DEF FleetInv
<1>1. /\ UNCHANGED <<cache, gone, pass, phase, left, built, blamed, faults, hangs>>
      /\ pc[g] = "join" /\ Active(g)
  BY DEF Join, process, history, Active
<1>2. \/ \E k \in Asked : stack[g] = <<k>> /\ Top(g) = k
      \/ \E j \in DOMAIN Under :
           /\ stack[g] = <<Under[j], j>> /\ Top(g) = Under[j] /\ flight[j] = g
           /\ Under[j] \notin Installation
  BY <1>t, <1>1, StackOf DEF Sound
<1>3. Top(g) \in Key /\ Top(g) \in Asked
  BY <1>2, Kinds
<1>4. CASE /\ pc' = [pc EXCEPT ![g] = "wait"]
           /\ UNCHANGED <<flight, todo, stack, age, clock>>
  <2>1. /\ CallsType' /\ pc'[g] = "wait"
        /\ \A h \in Caller : h # g => pc'[h] = pc[h] /\ age'[h] = age[h]
    BY <1>t, <1>4, MoveType
  <2>2. RestType'
    BY <1>t, <1>1, <1>4, RestKept DEF TypeOK
  <2>3. Sound(g)'
    <3>1. Shape(g)'
      BY <1>2, <1>4, <2>1 DEF Shape, Active
    <3> QED
      BY <2>1, <3>1 DEF Sound, MakesAlone, Making, InTime
  <2>4. ASSUME NEW h \in Caller, h # g PROVE Sound(h)'
    BY <1>t, <1>1, <1>4, <2>1, <2>4, Untouched
  <2> QED
    BY <1>1, <2>1, <2>2, <2>3, <2>4, Reassembled
<1>5. CASE Found(g) /\ Serve({g}, cache[Top(g)].age) /\ UNCHANGED flight
  <2>1. Fresh(Top(g))
    BY <1>5 DEF Found
  <2> QED
    BY <1>1, <1>3, <1>5, <2>1, ServedFromCache, Zenon
<1>6. CASE /\ flight[Top(g)] = Nobody /\ ~Found(g)
           /\ flight' = [flight EXCEPT ![Top(g)] = g]
           /\ pc' = [pc EXCEPT ![g] = IF Top(g) \in DOMAIN Under THEN "look" ELSE "call"]
           /\ stack' = IF Top(g) \in DOMAIN Under
                       THEN [stack EXCEPT ![g] = <<Under[Top(g)]>> \o @] ELSE stack
           /\ UNCHANGED <<todo, age, clock>>
  <2>1. /\ flight'[Top(g)] = g /\ \A k \in Key : k # Top(g) => flight'[k] = flight[k]
        /\ flight' \in [Key -> {Nobody} \cup Caller]
    BY <1>t, <1>3, <1>6 DEF TypeOK
  <2>2. RestType'
    BY <1>t, <1>1, <2>1, RestKept DEF TypeOK
  <2>3. ASSUME NEW h \in Caller, h # g PROVE Sound(h)'
    <3>1. pc'[h] = pc[h] /\ stack'[h] = stack[h] /\ age'[h] = age[h] /\ clock'[h] = clock[h]
      BY <1>t, <1>6, <2>3 DEF TypeOK
    <3>2. ASSUME NEW k \in Asked, flight[k] = h PROVE flight'[k] = h
      BY <1>6, <2>1, <3>2, Kinds, FleetAssumption
    <3> QED
      BY <1>t, <1>1, <3>1, <3>2, Untouched
  <2>4. CASE Top(g) \in DOMAIN Under
    <3>1. PICK k \in DOMAIN Under : stack[g] = <<k>> /\ Top(g) = k
      BY <1>2, <2>4, Kinds
    <3>2. /\ pc'[g] = "look" /\ stack'[g] = <<Under[k]>> \o <<k>>
      BY <1>t, <1>6, <2>4, <3>1 DEF TypeOK
    <3>3. stack'[g] = <<Under[k], k>>
      BY <3>2, InFront
    <3>4. Sound(g)'
      BY <2>1, <3>1, <3>2, <3>3 DEF Sound, Shape, Active, MakesAlone, Making, InTime
    <3>5. \A h \in Caller : Sound(h)'
      BY <2>3, <3>4
    <3>6. \A h \in Caller : stack'[h] \in Seq(Key) /\ Len(stack'[h]) <= 2
      BY <3>5, StacksTyped
    <3>7. stack' \in [Caller -> Seq(Key)]
      BY <1>t, <1>6, <2>4, <3>6 DEF TypeOK
    <3>8. /\ pc' \in [Caller -> {"idle", "look", "join", "wait", "call", "answered", "hung",
                                "use", "done"}]
          /\ todo' \in [Caller -> Seq(Asked)]
          /\ age' \in [Caller -> Ages] /\ clock' \in [Caller -> 0..Timeout]
      BY <1>t, <1>6 DEF TypeOK
    <3>9. CallsType'
      BY <3>6, <3>7, <3>8 DEF CallsType
    <3> QED
      BY <1>1, <2>2, <3>5, <3>9, Reassembled
  <2>5. CASE Top(g) \notin DOMAIN Under
    <3>1. pc' = [pc EXCEPT ![g] = "call"] /\ UNCHANGED <<todo, stack, age, clock>>
      BY <1>6, <2>5
    <3>2. CallsType' /\ pc'[g] = "call"
      BY <1>t, <3>1, MoveType
    <3>3. Shape(g)'
      BY <1>2, <2>1, <2>5, <3>1, <3>2, Kinds DEF Shape, Active
    <3>4. MakesAlone(g)'
      BY <1>1, <1>6, <2>1, <3>1 DEF MakesAlone, Top, Found, Fresh
    <3>5. Sound(g)'
      BY <3>2, <3>3, <3>4 DEF Sound, InTime
    <3>6. \A h \in Caller : Sound(h)'
      BY <2>3, <3>5
    <3> QED
      BY <1>1, <2>2, <3>2, <3>6, Reassembled
  <2> QED
    BY <2>4, <2>5
<1> QED
  BY <1>4, <1>5, <1>6 DEF Join

\* An answer on its way, or a construction that hangs, leaves its caller the maker.
LEMMA MakerStep ==
  ASSUME FleetInv, NEW g \in Caller, Answer(g) \/ Hang(g)
  PROVE  FleetInv'
<1>t. TypeOK /\ \A h \in Caller : Sound(h)
  BY DEF FleetInv
<1>0. PICK l \in {"answered", "hung"} : /\ pc' = [pc EXCEPT ![g] = l]
                                        /\ l = "hung" => Top(g) \in Client
                                        /\ l = "answered" => age' = [age EXCEPT ![g] = 0]
  BY DEF Answer, Hang
<1>1. /\ UNCHANGED <<cache, flight, todo, stack, clock, gone, pass, phase, left, built, blamed,
                     faults>>
      /\ pc[g] = "call" /\ Active(g)
      /\ UNCHANGED age \/ age' = [age EXCEPT ![g] = 0]
  BY DEF Answer, Hang, process, history, Active
<1>2. hangs' \in 0..MaxHangs
  BY <1>t, Numbers DEF Answer, Hang, TypeOK
<1>3. RestType'
  BY <1>t, <1>1, <1>2, RestKept DEF TypeOK
<1>4. /\ CallsType' /\ pc'[g] = l
      /\ \A h \in Caller : h # g => pc'[h] = pc[h] /\ age'[h] = age[h]
  BY <1>t, <1>0, <1>1, MoveType
<1>5. Sound(g)'
  <2>1. Shape(g)'
    <3>1. \/ \E k \in Asked : stack[g] = <<k>> /\ Top(g) = k
          \/ \E k \in DOMAIN Under :
              /\ stack[g] = <<Under[k], k>> /\ Top(g) = Under[k] /\ flight[k] = g
      BY <1>t, <1>1, StackOf DEF Sound
    <3>2. l = "hung" => Top(g) \notin Installation
      BY <1>0, FleetAssumption
    <3> QED
      BY <1>1, <1>4, <3>1, <3>2 DEF Shape, Active
  <2>2. MakesAlone(g)'
    BY <1>t, <1>1, <1>4 DEF Sound, MakesAlone, Making, Top
  <2>3. InTime(g)'
    <3>1. l = "answered" => age'[g] = 0 /\ clock'[g] \in 0..Timeout
      BY <1>t, <1>0, <1>1 DEF TypeOK
    <3> QED
      BY <1>4, <3>1, Numbers DEF InTime
  <2> QED
    BY <2>1, <2>2, <2>3 DEF Sound
<1>6. ASSUME NEW h \in Caller, h # g PROVE Sound(h)'
  BY <1>t, <1>1, <1>4, <1>6, Untouched
<1> QED
  BY <1>1, <1>3, <1>4, <1>5, <1>6, Reassembled

\* A caller that turns to a value leaves the others alone.
LEMMA TurnStep ==
  ASSUME FleetInv, NEW g \in Caller, NEW path \in Seq(Asked), path # <<>>, Turn(g, path),
         UNCHANGED <<cache, flight, gone, pass, phase, left, built, blamed, faults, hangs>>
  PROVE  FleetInv'
<1>t. TypeOK /\ \A h \in Caller : Sound(h)
  BY DEF FleetInv
<1>1. Sound(g)'
  BY <1>t, Turned
<1>2. ASSUME NEW h \in Caller, h # g PROVE Sound(h)'
  <2>1. pc'[h] = pc[h] /\ stack'[h] = stack[h] /\ age'[h] = age[h] /\ clock'[h] = clock[h]
    BY <1>t, <1>2 DEF Turn, TypeOK
  <2> QED
    BY <1>t, <2>1, Untouched
<1>3. \A h \in Caller : Sound(h)'
  BY <1>1, <1>2
<1>4. CallsType'
  BY <1>t, <1>3, TurnType
<1>5. RestType'
  BY <1>t, RestKept DEF TypeOK
<1> QED
  BY <1>3, <1>4, <1>5, Reassembled

\* Callers whose work ends take no flight with them but their own.
LEMMA EndStep ==
  ASSUME FleetInv, NEW S \in SUBSET Caller, NEW cause \in {Nobody} \cup Caller, End(S, cause),
         UNCHANGED <<cache, pass, phase, left, built, hangs>>, faults' \in 0..MaxFaults,
         flight' \in [Key -> {Nobody} \cup Caller],
         \A h \in Caller \ S : \A k \in Asked : flight[k] = h => flight'[k] = h
  PROVE  FleetInv'
<1>t. TypeOK /\ \A h \in Caller : Sound(h)
  BY DEF FleetInv
<1>1. ASSUME NEW h \in S PROVE Sound(h)'
  BY <1>1, Ended
<1>2. ASSUME NEW h \in Caller \ S PROVE Sound(h)'
  <2>1. pc'[h] = pc[h] /\ stack'[h] = stack[h] /\ age'[h] = age[h] /\ clock'[h] = clock[h]
    BY <1>2 DEF End
  <2> QED
    BY <1>t, <1>2, <2>1, Untouched
<1>3. \A h \in Caller : Sound(h)'
  BY <1>1, <1>2
<1>4. CallsType' /\ gone' \subseteq Caller
  BY <1>t, <1>3, EndType
<1>5. blamed' \subseteq Caller
  BY <1>t DEF End, TypeOK
<1>6. hangs' \in 0..MaxHangs
  BY <1>t DEF TypeOK
<1>7. RestType'
  BY <1>t, <1>4, <1>5, <1>6, RestKept
<1> QED
  BY <1>3, <1>4, <1>7, Reassembled

\* What the value was wanted for is done, or fails.
LEMMA UseStep ==
  ASSUME FleetInv, NEW g \in Caller, Use(g) \/ UseFails(g)
  PROVE  FleetInv'
<1>t. TypeOK
  BY DEF FleetInv
<1>1. UNCHANGED <<cache, flight, pass, phase, left, built, hangs>>
  BY DEF Use, UseFails, process
<1>2. CASE Use(g) /\ todo[g] # <<>>
  <2>1. /\ Turn(g, todo[g]) /\ UNCHANGED <<gone, blamed, faults>>
        /\ todo[g] \in Seq(Asked)
    BY <1>t, <1>2 DEF Use, TypeOK
  <2>2. PICK path \in Seq(Asked) : path = todo[g]
    BY <2>1
  <2>3. Turn(g, path) /\ path # <<>>
    BY <1>2, <2>1, <2>2
  <2> QED
    BY <1>1, <2>1, <2>3, TurnStep, Zenon
<1>3. CASE \E cause \in {Nobody} \cup Caller : End({g}, cause)
  <2>1. PICK cause \in {Nobody} \cup Caller : End({g}, cause)
    BY <1>3
  <2>2. faults' \in 0..MaxFaults
    BY <1>t, Numbers DEF Use, UseFails, Fault, TypeOK
  <2>3. PICK S \in SUBSET Caller : S = {g}
    OBVIOUS
  <2>4. End(S, cause)
    BY <2>1, <2>3
  <2>5. flight' \in [Key -> {Nobody} \cup Caller]
    BY <1>t, <1>1 DEF TypeOK
  <2>6. \A h \in Caller \ S : \A k \in Asked : flight[k] = h => flight'[k] = h
    BY <1>1
  <2> QED
    BY <1>1, <2>2, <2>4, <2>5, <2>6, EndStep, Zenon
<1> QED
  BY <1>2, <1>3 DEF Use, UseFails

\* A flight that fails ends all whose work rests on it, and no other.
LEMMA FailStep ==
  ASSUME FleetInv, NEW g \in Caller, CallFails(g)
  PROVE  FleetInv'
<1>t. TypeOK /\ \A h \in Caller : Sound(h)
  BY DEF FleetInv
<1>1. /\ UNCHANGED <<cache, pass, phase, left, built, hangs>> /\ Making(g) /\ Active(g)
      /\ End(Struck(g), Nobody)
      /\ flight' = [k \in Key |-> IF k \in Outer(g) \cup {Top(g)} THEN Nobody ELSE flight[k]]
  BY DEF CallFails, process, Fail, Making, Active
<1>2. faults' \in 0..MaxFaults
  BY <1>t, Numbers DEF CallFails, Fault, TypeOK
<1>3. PICK S \in SUBSET Caller : S = Struck(g)
  BY DEF Struck, Sharers
<1>4. End(S, Nobody) /\ Nobody \in {Nobody} \cup Caller
  BY <1>1, <1>3
<1>5. flight' \in [Key -> {Nobody} \cup Caller]
  BY <1>t, <1>1 DEF TypeOK
<1>6. ASSUME NEW h \in Caller \ S, NEW k \in Asked, flight[k] = h PROVE flight'[k] = h
  <2>1. k # Top(g)
    <3>1. g \in S
      BY <1>3 DEF Struck, Sharers
    <3> QED
      BY <1>t, <1>1, <1>6, <3>1 DEF Sound, MakesAlone
  <2>2. k \notin Outer(g)
    <3> SUFFICES ASSUME k \in Outer(g) PROVE FALSE
      OBVIOUS
    <3>1. PICK s \in Sharers(g) : Len(stack[s]) = 2 /\ stack[s][2] = k
      BY DEF Outer
    <3>2. s \in Caller /\ s \in S /\ Active(s)
      BY <1>1, <1>3, <3>1 DEF Sharers, Struck, Active
    <3>3. flight[k] = s
      BY <1>t, <3>1, <3>2, StackOf DEF Sound
    <3> QED
      BY <1>6, <3>2, <3>3
  <2> QED
    BY <1>1, <1>6, <2>1, <2>2, Kinds
<1> QED
  BY <1>1, <1>2, <1>4, <1>5, <1>6, EndStep, Zenon

\* A worker takes a unit, or the API a request.
LEMMA StartStep ==
  ASSUME FleetInv, NEW g \in Caller, (g \in Unit /\ Dispatch(g)) \/ (g \in Viewer /\ Request(g))
  PROVE  FleetInv'
<1>1. PICK path \in Paths[g] : Turn(g, path)
  BY DEF Dispatch, Request
<1>2. path \in Seq(Asked) /\ path # <<>>
  BY <1>1, FleetAssumption
<1>3. UNCHANGED <<cache, flight, gone, pass, phase, left, built, blamed, faults, hangs>>
  BY DEF Dispatch, Request, process, history
<1> QED
  BY <1>1, <1>2, <1>3, TurnStep, Zenon

\* At the end of a pass its units are idle again.
LEMMA EndPassStep ==
  ASSUME FleetInv, EndPass
  PROVE  FleetInv'
<1>t. TypeOK /\ \A h \in Caller : Sound(h)
  BY DEF FleetInv
<1>1. UNCHANGED <<cache, flight, todo, stack, age, clock, phase, left, built, blamed, faults,
                  hangs>>
  BY DEF EndPass, history
<1>2. ASSUME NEW h \in Caller PROVE Sound(h)'
  <2>1. CASE h \in Unit
    <3>1. pc[h] = "done" /\ pc'[h] = "idle"
      BY <2>1 DEF EndPass
    <3>2. stack[h] = <<>>
      BY <1>t, <3>1 DEF Sound, Shape, Active
    <3> QED
      BY <1>1, <3>1, <3>2 DEF Sound, Shape, MakesAlone, Making, InTime, Active
  <2>2. CASE h \notin Unit
    <3>1. pc'[h] = pc[h]
      BY <2>2 DEF EndPass
    <3> QED
      BY <1>t, <1>1, <3>1, Untouched
  <2> QED
    BY <2>1, <2>2
<1>3. pc' \in [Caller -> {"idle", "look", "join", "wait", "call", "answered", "hung",
                          "use", "done"}]
  BY <1>t DEF EndPass, TypeOK
<1>4. CallsType'
  BY <1>t, <1>1, <1>3 DEF TypeOK, CallsType
<1>5. pass' \in BOOLEAN
  BY DEF EndPass
<1>6. gone' \subseteq Caller
  BY <1>t DEF EndPass, TypeOK
<1>7. /\ flight' \in [Key -> {Nobody} \cup Caller]
      /\ phase' \in {"up", "shutdown", "drain", "exited"} /\ left' \in 0..Grace
      /\ blamed' \subseteq Caller /\ faults' \in 0..MaxFaults /\ hangs' \in 0..MaxHangs
  BY <1>t, <1>1 DEF TypeOK
<1>8. RestType'
  BY <1>5, <1>6, <1>7, Zenon DEF RestType
<1> QED
  BY <1>1, <1>2, <1>4, <1>8, Reassembled

\* A pass that begins or loses its term, a caller that hangs up and the steps
\* of the shutdown touch no call.
LEMMA QuietStep ==
  ASSUME FleetInv,
         \/ StartPass \/ LoseTerm \/ Signal \/ ShutdownEnds \/ DrainEnds \/ UNCHANGED vars
         \/ \E v \in Viewer : Disconnect(v)
  PROVE  FleetInv'
<1>t. TypeOK /\ \A h \in Caller : Sound(h)
  BY DEF FleetInv
<1>1. UNCHANGED <<cache, flight, pc, todo, stack, age, clock, built, blamed, faults, hangs>>
  BY DEF StartPass, LoseTerm, Signal, ShutdownEnds, DrainEnds, Disconnect, vars, calls, history
<1>2. ASSUME NEW h \in Caller PROVE Sound(h)'
  BY <1>t, <1>1, Untouched
<1>3. CallsType'
  BY <1>t, <1>1 DEF TypeOK, CallsType
<1>4. pass' \in BOOLEAN
  <2>1. pass' = pass \/ pass' = TRUE
    BY Zenon DEF StartPass, LoseTerm, Signal, ShutdownEnds, DrainEnds, Disconnect, vars, process
  <2> QED
    BY <1>t, <2>1, Zenon DEF TypeOK
<1>5. gone' \subseteq Caller
  <2>1. gone \subseteq Caller /\ Unit \subseteq Caller /\ Viewer \subseteq Caller
    BY <1>t DEF TypeOK, Caller
  <2> QED
    BY <2>1 DEF StartPass, LoseTerm, Signal, ShutdownEnds, DrainEnds, Disconnect, vars
<1>6. phase' \in {"up", "shutdown", "drain", "exited"} /\ left' \in 0..Grace
  BY <1>t, Numbers
     DEF TypeOK, StartPass, LoseTerm, Signal, ShutdownEnds, DrainEnds, Disconnect, vars, process
<1>7. /\ flight' \in [Key -> {Nobody} \cup Caller]
      /\ blamed' \subseteq Caller /\ faults' \in 0..MaxFaults /\ hangs' \in 0..MaxHangs
  BY <1>t, <1>1 DEF TypeOK
<1>8. RestType'
  BY <1>4, <1>5, <1>6, <1>7, Zenon DEF RestType
<1> QED
  BY <1>1, <1>2, <1>3, <1>8, Reassembled

\* An answer that is kept serves those who wait for it; nobody else makes it.
LEMMA StoreStep ==
  ASSUME FleetInv, NEW g \in Caller, Store(g)
  PROVE  FleetInv'
<1>t. TypeOK /\ MadeInv /\ CacheInv /\ \A h \in Caller : Sound(h)
  BY DEF FleetInv
<1>0. PICK k, a : k = Top(g) /\ a = IF k \in Kept THEN 0 ELSE age[g]
  OBVIOUS
<1>1. /\ UNCHANGED <<blamed, gone, pass, phase, left, faults, hangs>>
      /\ pc[g] = "answered" /\ Making(g) /\ Active(g)
      /\ cache' = [cache EXCEPT ![k] = [age |-> a, held |-> 0]]
      /\ flight' = [flight EXCEPT ![k] = Nobody]
      /\ Serve(Sharers(g), cache'[k].age)
      /\ built' = IF k \in Kept THEN [built EXCEPT ![k] = @ + 1] ELSE built
  BY <1>0 DEF Store, process, Making, Active
<1>2. k \in Key
  BY <1>t, <1>0, <1>1, StackOf, Kinds DEF Sound
<1>3. a \in Ages /\ a <= Timeout /\ 0 \in Ages
  <2>1. age[g] <= clock[g] /\ age[g] \in Ages /\ clock[g] \in 0..Timeout
    BY <1>t, <1>1 DEF Sound, InTime, TypeOK
  <2>2. age[g] \in Nat
    BY <2>1, Numbers
  <2>3. clock[g] \in Nat /\ clock[g] <= Timeout
    BY <2>1
  <2>4. age[g] <= Timeout
    BY <2>1, <2>2, <2>3, Numbers
  <2> QED
    BY <1>0, <2>1, <2>4, Numbers
<1>4. /\ cache'[k] = [age |-> a, held |-> 0] /\ cache'[k].age = a /\ cache'[k].held = 0
      /\ \A j \in Key : j # k => cache'[j] = cache[j]
      /\ flight'[k] = Nobody /\ \A j \in Key : j # k => flight'[j] = flight[j]
  BY <1>t, <1>1, <1>2 DEF TypeOK
<1>5. /\ cache' \in [Key -> {Nothing} \cup [age : Ages, held : Ages]]
      /\ flight' \in [Key -> {Nobody} \cup Caller]
      /\ cache'[k] # Nothing
  <2>1. [age |-> a, held |-> 0] \in [age : Ages, held : Ages]
    BY <1>3
  <2>2. cache'[k] # Nothing
    BY <1>4, <2>1, FleetAssumption
  <2>3. cache' \in [Key -> {Nothing} \cup [age : Ages, held : Ages]]
    BY <1>t, <1>1, <2>1 DEF TypeOK
  <2>4. flight' \in [Key -> {Nobody} \cup Caller]
    BY <1>t, <1>1 DEF TypeOK
  <2> QED
    BY <2>2, <2>3, <2>4
<1>6. PICK S \in SUBSET Caller : S = Sharers(g)
  BY DEF Sharers
<1>7. Serve(S, a)
  BY <1>1, <1>4, <1>6
<1>8. k \in Asked => flight[k] = g
  BY <1>t, <1>0, <1>1 DEF Sound, MakesAlone
<1>9. ASSUME NEW h \in S PROVE Sound(h)'
  <2>1. h \in Caller /\ Top(h) = k /\ Active(h)
    BY <1>0, <1>1, <1>6, <1>9 DEF Sharers, Active
  <2>2. \A j \in DOMAIN Under : flight[j] = h => flight'[j] = h \/ j = Top(h)
    BY <1>4, <2>1, Kinds
  <2>3. /\ Top(h) \in Token => a < Life - Margin \/ a <= Timeout
        /\ Top(h) \in Probe => a < TTL + Timeout
    BY <1>3, Numbers
  <2> QED
    BY <1>t, <1>3, <1>7, <1>9, <2>1, <2>2, <2>3, Served, Zenon
<1>10. ASSUME NEW h \in Caller \ S PROVE Sound(h)'
  <2>1. pc'[h] = pc[h] /\ stack'[h] = stack[h] /\ age'[h] = age[h] /\ clock'[h] = clock[h]
    BY <1>7, <1>10 DEF Serve
  <2>2. h # g
    BY <1>6, <1>10 DEF Sharers
  <2>3. ASSUME NEW j \in Asked, flight[j] = h PROVE flight'[j] = h
    BY <1>4, <1>8, <2>2, <2>3, Kinds
  <2>4. Making(h) /\ Top(h) \in Kept => cache'[Top(h)] = cache[Top(h)]
    BY <1>t, <1>0, <1>1, <1>4, <2>2, OneMaker, Kinds
  <2> QED
    BY <1>t, <1>10, <2>1, <2>3, <2>4, Untouched
<1>11. \A h \in Caller : Sound(h)'
  BY <1>9, <1>10
<1>12. CallsType'
  BY <1>t, <1>3, <1>7, <1>11, ServeType, Zenon
<1>13. RestType'
  BY <1>t, <1>1, <1>5, RestKept DEF TypeOK
<1>14. built' \in [Kept -> Nat] /\ MadeInv'
  <2>1. CASE k \in Kept
    <3>1. cache[k] = Nothing
      BY <1>t, <1>0, <1>1, <2>1 DEF Sound, MakesAlone
    <3>2. built[k] = 0
      BY <1>t, <2>1, <3>1 DEF MadeInv
    <3>3. /\ built' \in [Kept -> Nat] /\ built'[k] = 1
          /\ \A j \in Kept : j # k => built'[j] = built[j]
      BY <1>t, <1>1, <2>1, <3>2 DEF TypeOK
    <3> QED
      BY <1>t, <1>4, <1>5, <3>3, Kinds DEF MadeInv
  <2>2. CASE k \notin Kept
    BY <1>t, <1>1, <1>4, <2>2, Kinds DEF MadeInv, TypeOK
  <2> QED
    BY <2>1, <2>2
<1>15. CacheInv'
  <2>1. Usable(k, cache'[k])
    BY <1>3, <1>4, Numbers DEF Usable
  <2> QED
    BY <1>t, <1>4, <2>1 DEF CacheInv, Usable
<1>16. TypeOK'
  BY <1>5, <1>12, <1>13, <1>14, Zenon DEF TypeOK, CallsType, RestType
<1> QED
  BY <1>11, <1>14, <1>15, <1>16, Zenon DEF FleetInv

\* A moment later a value is a moment older, or as old as matters.
LEMMA OlderAge ==
  ASSUME NEW a \in Ages
  PROVE  /\ Older(a) \in Ages /\ a <= Older(a) /\ Older(a) <= a + 1
         /\ a < TTL => Older(a) = a + 1
  BY FleetAssumption DEF Older, Ages

\* Time passes: calls near their deadlines, values near their limits.
LEMMA TickStep ==
  ASSUME FleetInv, Tick
  PROVE  FleetInv'
<1>t. TypeOK /\ MadeInv /\ CacheInv /\ \A h \in Caller : Sound(h)
  BY DEF FleetInv
<1>1. UNCHANGED <<flight, pc, todo, stack, gone, pass, phase, built, blamed, faults, hangs>>
  BY DEF Tick, history
<1>2. ASSUME NEW k \in Key
      PROVE  /\ cache'[k] \in {Nothing} \cup [age : Ages, held : Ages]
             /\ cache'[k] # Nothing => Usable(k, cache'[k])
             /\ k \in Kept => cache'[k] = cache[k]
  <2>1. CASE k \in Kept \/ ~Fresh(k)
    <3>1. cache'[k] = cache[k]
      BY <2>1 DEF Tick
    <3> QED
      BY <1>t, <3>1 DEF TypeOK, CacheInv
  <2>2. CASE k \notin Kept /\ Fresh(k)
    <3>1. cache'[k] = Aged(k, cache[k])
      BY <2>2 DEF Tick
    <3>2. cache[k] \in [age : Ages, held : Ages] /\ Usable(k, cache[k])
      BY <1>t, <2>2 DEF TypeOK, CacheInv, Fresh
    <3>3. PICK a \in Ages, b \in Ages : a = cache[k].age /\ b = cache[k].held
      BY <3>2
    <3>4. PICK c, d : c = Older(a) /\ d = IF k \in Probe THEN Older(b) ELSE 0
      OBVIOUS
    <3>5. c \in Ages /\ d \in Ages
      BY <3>4, OlderAge, Numbers
    <3>6. \/ cache'[k] = Nothing
          \/ cache'[k] = [age |-> c, held |-> d] /\ Good(k, [age |-> c, held |-> d])
      BY <3>1, <3>3, <3>4 DEF Aged
    <3>7. CASE cache'[k] = [age |-> c, held |-> d] /\ Good(k, [age |-> c, held |-> d])
      <4>1. /\ k \in Token => c < Life - Margin
            /\ k \in Probe => d < TTL
        BY <3>7 DEF Good
      <4>2. k \in Probe => c <= Timeout + d
        <5> SUFFICES ASSUME k \in Probe PROVE c <= Timeout + d
          OBVIOUS
        <5>1. a <= Timeout + b /\ b < TTL
          BY <3>2, <3>3 DEF Usable
        <5>2. c <= a + 1 /\ d = b + 1
          BY <3>4, <5>1, OlderAge
        <5>3. a \in Nat /\ b \in Nat /\ c \in Nat
          BY <3>5, Numbers
        <5> QED
          BY <5>1, <5>2, <5>3, Numbers
      <4>3. Usable(k, cache'[k])
        BY <3>7, <4>1, <4>2 DEF Usable
      <4> QED
        BY <2>2, <3>5, <3>7, <4>3
    <3> QED
      BY <2>2, <3>6, <3>7
  <2> QED
    BY <2>1, <2>2
<1>3. cache' \in [Key -> {Nothing} \cup [age : Ages, held : Ages]] /\ CacheInv' /\ MadeInv'
  <2>1. cache' \in [Key -> {Nothing} \cup [age : Ages, held : Ages]]
    BY <1>2 DEF Tick
  <2>2. CacheInv'
    BY <1>2 DEF CacheInv, Usable
  <2>3. MadeInv'
    BY <1>t, <1>1, <1>2, Kinds DEF MadeInv
  <2> QED
    BY <2>1, <2>2, <2>3
<1>4. ASSUME NEW h \in Caller
      PROVE  /\ clock[h] \in Nat /\ clock'[h] \in 0..Timeout
             /\ clock'[h] = IF Timed(h) THEN clock[h] + 1 ELSE clock[h]
             /\ age[h] \in Nat /\ age'[h] \in Ages /\ age'[h] \in Nat
             /\ age'[h] <= age[h] + 1
             /\ ~(pc[h] = "use" /\ Top(h) \in Probe)
  <2>1. /\ clock[h] \in 0..Timeout /\ age[h] \in Ages
        /\ clock'[h] = IF Timed(h) THEN clock[h] + 1 ELSE clock[h]
        /\ age'[h] = IF pc[h] \in {"answered", "use"} /\ Top(h) \notin Kept
                     THEN Older(age[h]) ELSE age[h]
        /\ Timed(h) => clock[h] < Patience(h)
    BY <1>t DEF Tick, TypeOK
  <2>2. age'[h] \in Ages /\ age'[h] <= age[h] + 1
    <3>1. age[h] \in Nat
      BY <2>1, Numbers
    <3> QED
      BY <2>1, <3>1, OlderAge
  <2>3. clock[h] \in Nat /\ clock'[h] \in 0..Timeout
    BY <2>1, Numbers DEF Patience
  <2>4. ~(pc[h] = "use" /\ Top(h) \in Probe)
    BY <2>1, <2>3 DEF Patience, Timed
  <2> QED
    BY <2>1, <2>2, <2>3, <2>4, Numbers
<1>5. ASSUME NEW h \in Caller PROVE Sound(h)'
  <2>1. Shape(h)'
    BY <1>t, <1>1 DEF Sound, Shape, Active
  <2>2. MakesAlone(h)'
    BY <1>t, <1>1, <1>2, Kinds DEF Sound, MakesAlone, Making, Top
  <2>3. InTime(h)'
    <3>1. pc'[h] = pc[h] /\ Top(h)' = Top(h)
      BY <1>1 DEF Top
    <3>2. InTime(h)
      BY <1>t DEF Sound
    <3>3. CASE pc[h] = "answered"
      BY <1>4, <3>1, <3>2, <3>3 DEF InTime, Timed
    <3>4. CASE pc[h] = "use"
      BY <1>4, <3>1, <3>2, <3>4, Numbers DEF InTime, Timed
    <3>5. CASE pc[h] \notin {"answered", "use"}
      BY <3>1, <3>5 DEF InTime
    <3> QED
      BY <3>3, <3>4, <3>5
  <2> QED
    BY <2>1, <2>2, <2>3 DEF Sound
<1>6. /\ pc' \in [Caller -> {"idle", "look", "join", "wait", "call", "answered", "hung",
                            "use", "done"}]
      /\ todo' \in [Caller -> Seq(Asked)]
      /\ stack' \in [Caller -> Seq(Key)] /\ \A h \in Caller : Len(stack'[h]) <= 2
      /\ flight' \in [Key -> {Nobody} \cup Caller]
      /\ gone' \subseteq Caller /\ phase' \in {"up", "shutdown", "drain", "exited"}
      /\ built' \in [Kept -> Nat] /\ blamed' \subseteq Caller
      /\ faults' \in 0..MaxFaults /\ hangs' \in 0..MaxHangs
  BY <1>t, <1>1 DEF TypeOK
<1>7. age' \in [Caller -> Ages] /\ clock' \in [Caller -> 0..Timeout]
  BY <1>4 DEF Tick
<1>8. left' \in 0..Grace
  BY <1>t, Numbers DEF Tick, TypeOK
<1>9. pass' \in BOOLEAN
  BY <1>t, <1>1, Zenon DEF TypeOK
<1>10. TypeOK'
  BY <1>3, <1>6, <1>7, <1>8, <1>9, Zenon DEF TypeOK
<1> QED
  BY <1>3, <1>5, <1>10, Zenon DEF FleetInv

\* FleetInv holds before anything is asked for.
LEMMA FleetInvInit == Init => FleetInv
<1> SUFFICES ASSUME Init PROVE FleetInv
  OBVIOUS
<1>1. TypeOK
  <2>1. /\ cache \in [Key -> {Nothing} \cup [age : Ages, held : Ages]]
        /\ flight \in [Key -> {Nobody} \cup Caller]
        /\ pc \in [Caller -> {"idle", "look", "join", "wait", "call", "answered", "hung",
                              "use", "done"}]
    BY DEF Init
  <2>2. /\ todo \in [Caller -> Seq(Asked)]
        /\ stack \in [Caller -> Seq(Key)] /\ \A g \in Caller : Len(stack[g]) <= 2
    <3>1. \A g \in Caller : todo[g] = <<>> /\ stack[g] = <<>>
      BY DEF Init
    <3>2. <<>> \in Seq(Asked) /\ <<>> \in Seq(Key) /\ Len(<<>>) <= 2
      OBVIOUS
    <3> QED
      BY <3>1, <3>2 DEF Init
  <2>3. age \in [Caller -> Ages] /\ clock \in [Caller -> 0..Timeout]
    BY Numbers DEF Init
  <2>4. /\ gone \subseteq Caller /\ pass \in BOOLEAN /\ blamed \subseteq Caller
        /\ phase \in {"up", "shutdown", "drain", "exited"}
    BY DEF Init
  <2>5. /\ left \in 0..Grace /\ faults \in 0..MaxFaults /\ hangs \in 0..MaxHangs
        /\ built \in [Kept -> Nat]
    BY Numbers DEF Init
  <2> QED
    BY <2>1, <2>2, <2>3, <2>4, <2>5, Zenon DEF TypeOK
<1>2. MadeInv /\ CacheInv
  BY Kinds DEF Init, MadeInv, CacheInv
<1>3. \A g \in Caller : Sound(g)
  BY DEF Init, Sound, Shape, MakesAlone, Making, InTime, Active
<1> QED
  BY <1>1, <1>2, <1>3 DEF FleetInv

\* Every step keeps FleetInv.
LEMMA FleetInvNext == FleetInv /\ [Next]_vars => FleetInv'
<1> SUFFICES ASSUME FleetInv, [Next]_vars PROVE FleetInv'
  OBVIOUS
<1>1. ASSUME NEW g \in Caller, Work(g) \/ CallFails(g) \/ Hang(g) \/ UseFails(g) PROVE FleetInv'
  BY <1>1, LookStep, JoinStep, MakerStep, StoreStep, UseStep, FailStep DEF Work
<1>2. ASSUME NEW u \in Unit, Dispatch(u) PROVE FleetInv'
  BY <1>2, StartStep DEF Caller
<1>3. ASSUME NEW v \in Viewer, Request(v) PROVE FleetInv'
  BY <1>3, StartStep DEF Caller
<1>4. CASE \/ StartPass \/ LoseTerm \/ Signal \/ ShutdownEnds \/ DrainEnds \/ UNCHANGED vars
           \/ \E v \in Viewer : Disconnect(v)
  BY <1>4, QuietStep
<1>5. CASE EndPass
  BY <1>5, EndPassStep
<1>6. CASE Tick
  BY <1>6, TickStep
<1> QED
  BY <1>1, <1>2, <1>3, <1>4, <1>5, <1>6 DEF Next

-----------------------------------------------------------------------------
\* Whoever makes a shared value has its flight, keeps it once, and holds
\* nothing older than its limit.
THEOREM FleetInvariant == Spec => []FleetInv
  BY FleetInvInit, FleetInvNext, PTL DEF Spec

\* The state of the process, its callers and its caches is well typed.
THEOREM FleetTypeCorrect == Spec => []TypeOK
<1>1. FleetInv => TypeOK
  BY DEF FleetInv
<1> QED
  BY <1>1, FleetInvariant, PTL

\* However many callers meet in its first use, a client is constructed once
\* and an installation looked up once (singleflight and the second look of
\* client(), the flight of the token around installationID).
THEOREM BuildSafety == Spec => []BuiltOnce
<1>1. FleetInv => BuiltOnce
  BY DEF FleetInv, MadeInv, BuiltOnce
<1> QED
  BY <1>1, FleetInvariant, PTL

\* Whatever the lifetimes, a margin of one call keeps expired tokens out of
\* requests, and no decision rests on a check older than its TTL and one call.
THEOREM AgeSafety == Spec => []UsedInTime
<1>1. FleetInv => UsedInTime
  <2> SUFFICES ASSUME FleetInv, NEW g \in Caller, pc[g] = "use"
               PROVE  /\ Top(g) \in Token => age[g] < Life
                      /\ Top(g) \in Probe => age[g] < TTL + Timeout
    BY DEF UsedInTime
  <2>1. InTime(g) /\ age[g] \in Ages /\ clock[g] \in 0..Timeout
    BY DEF FleetInv, Sound, TypeOK
  <2>2. age[g] \in Nat
    BY <2>1, Numbers
  <2>3. clock[g] \in Nat /\ clock[g] <= Timeout
    BY <2>1
  <2> QED
    BY <2>1, <2>2, <2>3, Numbers DEF InTime
<1> QED
  BY <1>1, FleetInvariant, PTL

\* Nobody fails by the cancellation of another caller's context: a shared
\* call is made without one, so only its own can end a caller's work.
THEOREM BlameSafety == Spec => []BlameIsOwn
<1>1. Init => BlameIsOwn
  BY DEF Init, BlameIsOwn
<1>2. ASSUME BlameIsOwn, [Next]_vars PROVE BlameIsOwn'
  <2>1. ASSUME NEW g \in Caller, NEW S, End(S, Nobody) \/ (S = {g} /\ End(S, g)) PROVE blamed' = {}
    BY <1>2, <2>1 DEF End, BlameIsOwn
  <2>2. ASSUME NEW g \in Caller, Work(g) \/ CallFails(g) \/ Hang(g) \/ UseFails(g)
        PROVE  blamed' = {}
    <3>1. CASE Look(g) \/ Join(g) \/ Answer(g) \/ Store(g) \/ Hang(g)
      BY <1>2, <3>1 DEF Look, Join, Answer, Store, Hang, history, BlameIsOwn
    <3>2. CASE Use(g)
      BY <1>2, <2>1, <3>2 DEF Use, BlameIsOwn
    <3>3. CASE CallFails(g)
      BY <2>1, <3>3 DEF CallFails, Fail
    <3>4. CASE UseFails(g)
      BY <2>1, <3>4 DEF UseFails
    <3> QED
      BY <2>2, <3>1, <3>2, <3>3, <3>4 DEF Work
  <2>3. CASE \/ \E u \in Unit : Dispatch(u)
             \/ \E v \in Viewer : Request(v) \/ Disconnect(v)
             \/ StartPass \/ EndPass \/ LoseTerm \/ Signal \/ ShutdownEnds \/ DrainEnds \/ Tick
             \/ UNCHANGED vars
    <3>1. blamed' = blamed
      BY <2>3 DEF Dispatch, Request, Disconnect, StartPass, EndPass, LoseTerm, Signal,
                  ShutdownEnds, DrainEnds, Tick, vars, history
    <3> QED
      BY <1>2, <3>1 DEF BlameIsOwn
  <2> QED
    BY <1>2, <2>2, <2>3 DEF Next, BlameIsOwn
<1> QED
  BY <1>1, <1>2, PTL DEF Spec
=============================================================================
