--------------------------- MODULE WrappersProofs ----------------------------
(***************************************************************************)
(* Errors, scans and devices of the C++ and the Java wrapper, for any      *)
(* number of threads.                                                      *)
(*                                                                         *)
(* What objects there are follows from the methods alone (Base), whatever  *)
(* the client does.  That each error is destructed once needs more: in     *)
(* Java the slot of a thread keeps the pointer to an error that has been   *)
(* destructed, and nothing but the client's never calling again keeps it   *)
(* from being taken for a new one.  In C++ nothing has to be assumed.      *)
(***************************************************************************)
EXTENDS Wrappers, Integers, TLAPS, FiniteSetTheorems

\* Is there no stale slot?
Careful == binding = "cpp" \/ ~GoesOn

\* Who constructs is alone, and who calls a method has an object.
Owner ==
  /\ \A t \in Threads :
       pc[t] # "idle" => object = IF method[t] = "construct" THEN "building" ELSE "ready"
  /\ \A t, u \in Threads :
       pc[t] # "idle" /\ method[t] = "construct" /\ pc[u] # "idle" => t = u

\* libsweep reports an error or returns what it was asked for.
Answered ==
  \A t \in Threads :
    /\ pc[t] = "check" => /\ slot[t] = Null => ~failed[t]
                          /\ ~failed[t] => (returned[t] <=> method[t] # "other")
    /\ pc[t] = "copy" => returned[t] /\ method[t] = "get_scan"

One(b) == IF b THEN 1 ELSE 0
Ready == object = "ready"
Wrapped == Cardinality(Holding("construct")) + One(Ready)
Fetched == Cardinality(Holding("get_scan"))

Counted == IF binding = "cpp" THEN devices = Wrapped /\ scans = Fetched
           ELSE devices >= Wrapped /\ scans >= Fetched

Base == TypeOK /\ Owner /\ Answered /\ Counted

\* The slot of a thread between calls, and in one.
Slots ==
  \A t \in Threads :
    /\ pc[t] = "inside" => slot[t] = Null
    /\ binding = "java" => IF raised[t] THEN pc[t] = "idle" ELSE pc[t] = "idle" => slot[t] = Null
    /\ pc[t] = "check" /\ failed[t] => slot[t] # Null
    /\ pc[t] = "check" /\ ~failed[t] => slot[t] = Null
    /\ pc[t] \in {"message", "throw"} => failed[t] /\ slot[t] # Null
    /\ pc[t] = "copy" => ~failed[t] /\ slot[t] = Null

\* The errors there are: one for each thread that has to destruct one.
Owes(t) == failed[t] /\ pc[t] \in {"check", "message"}
Owed ==
  /\ live = {slot[t] : t \in {u \in Threads : Owes(u)}}
  /\ \A t, u \in Threads : Owes(t) /\ Owes(u) /\ slot[t] = slot[u] => t = u

IInv == Base /\ (Careful => Slots /\ Owed)

-----------------------------------------------------------------------------
\* Does thread t have an object of libsweep, from method m?
Holds(t, m) == method[t] = m /\ returned[t] /\ pc[t] \notin {"idle", "inside"}

Alone(t) == \A u \in Threads \ {t} : pc'[u] = pc[u] /\ method'[u] = method[u] /\ returned'[u] = returned[u]

LEMMA HoldingIsFinite == \A m : IsFiniteSet(Holding(m)) /\ Cardinality(Holding(m)) \in Nat
BY WrapperAssumption, FS_Subset, FS_CardinalityType DEF Holding

\* A step of a thread changes what that thread holds, and nothing else.
LEMMA HoldingMoves ==
  ASSUME NEW t \in Threads, Alone(t), NEW m
  PROVE  Cardinality(Holding(m))' = Cardinality(Holding(m)) + One(Holds(t, m))' - One(Holds(t, m))
<1>1. IsFiniteSet(Holding(m)) /\ Cardinality(Holding(m)) \in Nat
  BY HoldingIsFinite
<1>2. \A u \in Threads : u \in Holding(m) <=> Holds(u, m)
  BY DEF Holding, Holds
<1>3. Holding(m)' = IF Holds(t, m)' THEN Holding(m) \cup {t} ELSE Holding(m) \ {t}
  BY DEF Holding, Holds, Alone
<1>4. /\ Cardinality(Holding(m) \cup {t}) = Cardinality(Holding(m)) + 1 - One(Holds(t, m))
      /\ Cardinality(Holding(m) \ {t}) = Cardinality(Holding(m)) - One(Holds(t, m))
  <2>1. /\ Cardinality(Holding(m) \cup {t}) = (IF t \in Holding(m) THEN Cardinality(Holding(m))
                                             ELSE Cardinality(Holding(m)) + 1)
        /\ Cardinality(Holding(m) \ {t}) = (IF t \in Holding(m) THEN Cardinality(Holding(m)) - 1
                                           ELSE Cardinality(Holding(m)))
    BY <1>1, FS_AddElement, FS_RemoveElement
  <2>2. QED
    BY <1>1, <1>2, <2>1 DEF One
<1>5. One(Holds(t, m))' = IF Holds(t, m)' THEN 1 ELSE 0
  BY DEF One
<1>6. Holding(m) \subseteq Threads /\ One(Holds(t, m)) \in Int
  BY DEF Holding, One
<1>7. QED
  BY <1>1, <1>3, <1>4, <1>5, <1>6

\* In C++ objects come and go with what is held; in Java they may stay.
Gain(t, m) == One(Holds(t, m))' - One(Holds(t, m))

LEMMA CountKept ==
  ASSUME Base, NEW t \in Threads, Alone(t), binding' = binding,
         NEW d \in Int, NEW s \in Int, devices' = devices + d, scans' = scans + s,
         d >= Gain(t, "construct") + One(Ready)' - One(Ready),
         s >= Gain(t, "get_scan"),
         binding = "cpp" => /\ d = Gain(t, "construct") + One(Ready)' - One(Ready)
                            /\ s = Gain(t, "get_scan")
  PROVE  Counted' /\ devices' \in Nat /\ scans' \in Nat
<1> DEFINE c == Cardinality(Holding("construct"))
           g == Cardinality(Holding("get_scan"))
<1>1. c \in Nat /\ g \in Nat /\ c' \in Nat /\ g' \in Nat
  <2>1. c \in Nat /\ g \in Nat
    BY HoldingIsFinite
  <2>2. c' \in Nat /\ g' \in Nat
    <3>1. (\A m : IsFiniteSet(Holding(m)) /\ Cardinality(Holding(m)) \in Nat)'
      BY HoldingIsFinite, PTL
    <3>2. QED
      BY <3>1
  <2>3. QED
    BY <2>1, <2>2
<1>2. c' = c + Gain(t, "construct") /\ g' = g + Gain(t, "get_scan")
  <2>1. /\ c' = c + One(Holds(t, "construct"))' - One(Holds(t, "construct"))
        /\ g' = g + One(Holds(t, "get_scan"))' - One(Holds(t, "get_scan"))
    BY HoldingMoves
  <2>2. \A m : One(Holds(t, m)) \in Int /\ One(Holds(t, m))' \in Int
    BY DEF One
  <2>3. QED
    BY <1>1, <2>1, <2>2 DEF Gain
<1>3. /\ devices \in Nat /\ scans \in Nat
      /\ \A m : Gain(t, m) \in Int
      /\ One(Ready) \in Nat /\ One(Ready)' \in Nat
  BY DEF Base, TypeOK, Gain, One
<1>4. /\ devices >= c + One(Ready) /\ scans >= g
      /\ binding = "cpp" => devices = c + One(Ready) /\ scans = g
  BY <1>1, <1>3 DEF Base, Counted, Wrapped, Fetched
<1> HIDE DEF c, g
<1>5. /\ devices' >= c' + One(Ready)' /\ scans' >= g'
      /\ binding' = "cpp" => devices' = c' + One(Ready)' /\ scans' = g'
  BY <1>1, <1>2, <1>3, <1>4
<1>6. Counted'
  BY <1>5 DEF Counted, Wrapped, Fetched, c, g
<1>7. QED
  BY <1>1, <1>3, <1>5, <1>6

-----------------------------------------------------------------------------
PCs == {"idle", "inside", "check", "message", "throw", "copy"}
Methods == {"construct", "get_scan", "other"}

\* One step of a method.
Works(t) ==
  /\ binding' = binding /\ Alone(t)
  /\ \E here \in PCs : pc' = [pc EXCEPT ![t] = here]

LEMMA EnterWorks ==
  ASSUME Base, NEW t \in Threads, Construct(t) \/ Method(t)
  PROVE  Base' /\ Works(t)
<1>1. PICK m \in Methods :
        /\ Enter(t, m)
        /\ \/ m = "construct" /\ object = "none" /\ object' = "building"
           \/ m # "construct" /\ object = "ready" /\ object' = "ready"
  BY DEF Construct, Method, Methods
<1>2. /\ pc[t] = "idle" /\ pc' = [pc EXCEPT ![t] = "inside"]
      /\ method' = [method EXCEPT ![t] = m] /\ returned' = [returned EXCEPT ![t] = FALSE]
      /\ slot' \in {slot, [slot EXCEPT ![t] = Null]}
      /\ UNCHANGED <<binding, devices, scans, created, live, failed, raised>>
  BY <1>1 DEF Enter, ErrorArgument, library
<1>3. /\ pc \in [Threads -> PCs] /\ method \in [Threads -> Methods]
      /\ returned \in [Threads -> BOOLEAN] /\ slot \in [Threads -> 0 .. created]
      /\ devices \in Nat /\ scans \in Nat /\ created \in 0 .. MaxErrors
  BY DEF Base, TypeOK, PCs, Methods
<1>4. Works(t) /\ Alone(t)
  BY <1>2, <1>3 DEF Works, Alone, PCs
<1>5. pc'[t] = "inside" /\ method'[t] = m
  BY <1>2, <1>3
<1>6. Counted' /\ devices' \in Nat /\ scans' \in Nat
  <2>1. Gain(t, "construct") = 0 /\ Gain(t, "get_scan") = 0
    BY <1>2, <1>5 DEF Gain, One, Holds
  <2>2. One(Ready)' = One(Ready)
    BY <1>1 DEF One, Ready
  <2>3. One(Ready) \in Int /\ devices' = devices + 0 /\ scans' = scans + 0
    BY <1>2, <1>3 DEF One
  <2>4. 0 >= 0 /\ 0 \in Int /\ 0 + One(Ready) - One(Ready) = 0
    BY <2>3
  <2>5. QED
    BY <1>2, <1>4, <2>1, <2>2, <2>3, <2>4, CountKept
<1>7. TypeOK'
  <2>1. slot' \in [Threads -> 0 .. created] /\ 0 \in 0 .. created
    BY <1>2, <1>3, WrapperAssumption DEF Null
  <2>2. QED
    BY <1>1, <1>2, <1>3, <1>6, <2>1 DEF Base, TypeOK, PCs, Methods
<1>8. Owner'
  <2>1. \A u \in Threads \ {t} : /\ pc'[u] = pc[u] /\ method'[u] = method[u]
                                 /\ pc[u] # "idle" => m # "construct" /\ method[u] # "construct"
    BY <1>1, <1>4 DEF Alone, Base, Owner
  <2>2. QED
    BY <1>1, <1>5, <2>1 DEF Base, Owner
<1>9. Answered'
  <2>1. \A u \in Threads \ {t} : slot'[u] = slot[u]
    BY <1>2, <1>3
  <2>2. QED
    BY <1>2, <1>4, <1>5, <2>1 DEF Alone, Base, Answered
<1>10. QED
  BY <1>4, <1>6, <1>7, <1>8, <1>9 DEF Base

LEMMA LibraryWorks ==
  ASSUME Base, NEW t \in Threads, LibraryCall(t)
  PROVE  Base' /\ Works(t)
<1>1. PICK object_ \in BOOLEAN, error \in BOOLEAN :
        /\ Returns(t, object_, error)
        /\ ~error => (object_ <=> method[t] # "other")
  BY DEF LibraryCall
<1>2. /\ pc[t] = "inside" /\ pc' = [pc EXCEPT ![t] = "check"]
      /\ returned' = [returned EXCEPT ![t] = object_] /\ failed' = [failed EXCEPT ![t] = error]
      /\ devices' = devices + One(object_ /\ method[t] = "construct")
      /\ scans' = scans + One(object_ /\ method[t] = "get_scan")
      /\ UNCHANGED <<binding, object, method, raised>>
  BY <1>1 DEF Returns, One
<1>3. \/ /\ error /\ created < MaxErrors
         /\ created' = created + 1 /\ live' = live \cup {created + 1}
         /\ slot' = [slot EXCEPT ![t] = created + 1]
      \/ ~error /\ UNCHANGED <<created, live, slot>>
  BY <1>1 DEF Returns
<1>4. /\ pc \in [Threads -> PCs] /\ method \in [Threads -> Methods]
      /\ returned \in [Threads -> BOOLEAN] /\ failed \in [Threads -> BOOLEAN]
      /\ slot \in [Threads -> 0 .. created]
      /\ devices \in Nat /\ scans \in Nat /\ created \in 0 .. MaxErrors /\ live \subseteq 1 .. created
      /\ MaxErrors \in Nat
  BY WrapperAssumption DEF Base, TypeOK, PCs, Methods
<1>5. Works(t) /\ Alone(t)
  BY <1>2, <1>4 DEF Works, Alone, PCs
<1>6. pc'[t] = "check" /\ method'[t] = method[t] /\ returned'[t] = object_ /\ failed'[t] = error
  BY <1>2, <1>4
<1>7. Counted' /\ devices' \in Nat /\ scans' \in Nat
  <2>1. \A m : Gain(t, m) = One(object_ /\ method[t] = m)
    BY <1>2, <1>6 DEF Gain, One, Holds
  <2>2. One(Ready)' = One(Ready) /\ One(Ready) \in Int
    BY <1>2 DEF One, Ready
  <2>3. \A b : One(b) \in Int
    BY DEF One
  <2> DEFINE d == One(object_ /\ method[t] = "construct")
             s == One(object_ /\ method[t] = "get_scan")
  <2>4. d \in Int /\ s \in Int /\ d = d + One(Ready)' - One(Ready)
    BY <2>2, <2>3
  <2>5. /\ d = Gain(t, "construct") /\ s = Gain(t, "get_scan")
        /\ devices' = devices + d /\ scans' = scans + s
    BY <1>2, <2>1
  <2> HIDE DEF d, s
  <2>6. QED
    BY <1>2, <1>5, <2>4, <2>5, CountKept
<1>8. TypeOK'
  <2>1. slot' \in [Threads -> 0 .. created'] /\ live' \subseteq 1 .. created' /\ created' \in 0 .. MaxErrors
    <3>1. CASE error
      <4>1. created' = created + 1 /\ created + 1 \in 0 .. MaxErrors
        BY <1>3, <1>4, <3>1
      <4>2. slot' \in [Threads -> 0 .. created']
        BY <1>3, <1>4, <3>1, <4>1
      <4>3. live' \subseteq 1 .. created'
        <5>1. \A e \in 1 .. created : e \in 1 .. created + 1
          BY <1>4
        <5>2. created + 1 \in 1 .. created + 1
          BY <1>4
        <5>3. QED
          BY <1>3, <1>4, <3>1, <4>1, <5>1, <5>2
      <4>4. QED
        BY <4>1, <4>2, <4>3
    <3>2. CASE ~error
      BY <1>3, <1>4, <3>2
    <3>3. QED
      BY <3>1, <3>2
  <2>2. QED
    BY <1>2, <1>4, <1>7, <2>1 DEF Base, TypeOK, PCs, Methods
<1>9. Owner'
  <2>1. pc'[t] # "idle" /\ pc[t] # "idle" /\ \A u \in Threads \ {t} : pc'[u] = pc[u]
    BY <1>2, <1>5, <1>6 DEF Alone
  <2>2. UNCHANGED <<method, object>>
    BY <1>2
  <2>3. QED
    BY <2>1, <2>2 DEF Base, Owner
<1>10. Answered'
  <2>1. \A u \in Threads \ {t} : slot'[u] = slot[u] /\ failed'[u] = failed[u]
    BY <1>2, <1>3, <1>4
  <2>2. slot'[t] = Null => ~error
    BY <1>3, <1>4 DEF Null
  <2>3. QED
    BY <1>1, <1>5, <1>6, <2>1, <2>2 DEF Alone, Base, Answered
<1>11. QED
  BY <1>5, <1>7, <1>8, <1>9, <1>10 DEF Base

LEMMA NoErrorWorks ==
  ASSUME Base, NEW t \in Threads, NoError(t)
  PROVE  Base' /\ Works(t)
<1> DEFINE there == IF method[t] = "get_scan" THEN "copy" ELSE "idle"
<1>1. /\ pc[t] = "check" /\ slot[t] = Null /\ pc' = [pc EXCEPT ![t] = there]
      /\ object' = (IF method[t] = "construct" THEN "ready" ELSE object)
      /\ UNCHANGED <<binding, devices, scans, created, live, method, returned, failed, slot, raised>>
  BY DEF NoError, Goto, library, local
<1>2. /\ pc \in [Threads -> PCs] /\ method \in [Threads -> Methods] /\ there \in PCs
      /\ devices \in Nat /\ scans \in Nat
  BY DEF Base, TypeOK, PCs, Methods
<1>3. Works(t) /\ Alone(t) /\ pc'[t] = there
  BY <1>1, <1>2 DEF Works, Alone
<1>4. ~failed[t] /\ (returned[t] <=> method[t] # "other")
  BY <1>1 DEF Base, Answered
<1>5. object = IF method[t] = "construct" THEN "building" ELSE "ready"
  BY <1>1 DEF Base, Owner
<1>6. Counted' /\ devices' \in Nat /\ scans' \in Nat
  <2>1. Gain(t, "get_scan") = 0
    BY <1>1, <1>3, <1>4 DEF Gain, One, Holds
  <2>2. Gain(t, "construct") = 0 - One(method[t] = "construct")
    BY <1>1, <1>3, <1>4 DEF Gain, One, Holds
  <2>3. One(Ready)' = One(Ready) + One(method[t] = "construct")
    BY <1>1, <1>5 DEF One, Ready
  <2>4. One(Ready) \in Int /\ One(method[t] = "construct") \in Int
    BY DEF One
  <2>5. Gain(t, "construct") + One(Ready)' - One(Ready) = 0 /\ 0 \in Int
    BY <2>2, <2>3, <2>4
  <2>6. devices' = devices + 0 /\ scans' = scans + 0
    BY <1>1, <1>2
  <2>7. 0 >= 0
    OBVIOUS
  <2>8. QED
    BY <1>1, <1>3, <2>1, <2>5, <2>6, <2>7, CountKept
<1>7. TypeOK'
  BY <1>1, <1>2, <1>5, <1>6 DEF Base, TypeOK, PCs, Methods
<1>8. Owner'
  <2>1. \A u \in Threads \ {t} : pc'[u] = pc[u] /\ (method[t] = "construct" => pc[u] = "idle")
    BY <1>1, <1>3 DEF Alone, Base, Owner
  <2>2. QED
    BY <1>1, <1>3, <1>5, <2>1 DEF Base, Owner
<1>9. Answered'
  BY <1>1, <1>3, <1>4 DEF Alone, Base, Answered
<1>10. QED
  BY <1>3, <1>6, <1>7, <1>8, <1>9 DEF Base

LEMMA ErrorWorks ==
  ASSUME Base, NEW t \in Threads, Message(t) \/ DestructError(t)
  PROVE  Base' /\ Works(t)
<1>1. PICK there \in {"message", "throw"} :
        /\ pc[t] \in {"check", "message"} /\ pc' = [pc EXCEPT ![t] = there]
        /\ live' \subseteq live
        /\ UNCHANGED <<binding, object, devices, scans, created, method, returned, failed, slot, raised>>
  BY DEF Message, DestructError, Goto, library, local
<1>2. pc \in [Threads -> PCs] /\ devices \in Nat /\ scans \in Nat
  BY DEF Base, TypeOK, PCs
<1>3. Works(t) /\ Alone(t) /\ pc'[t] = there
  BY <1>1, <1>2 DEF Works, Alone, PCs
<1>4. Counted' /\ devices' \in Nat /\ scans' \in Nat
  <2>1. \A m : Gain(t, m) = 0
    BY <1>1, <1>3 DEF Gain, One, Holds
  <2>2. One(Ready)' = One(Ready) /\ One(Ready) \in Int
    BY <1>1 DEF One, Ready
  <2>3. 0 + One(Ready)' - One(Ready) = 0 /\ 0 \in Int /\ 0 >= 0
    BY <2>2
  <2>4. devices' = devices + 0 /\ scans' = scans + 0
    BY <1>1, <1>2
  <2>5. QED
    BY <1>1, <1>3, <2>1, <2>3, <2>4, CountKept
<1>5. TypeOK'
  BY <1>1, <1>2, <1>4 DEF Base, TypeOK, PCs
<1>6. Owner'
  BY <1>1, <1>3 DEF Alone, Base, Owner
<1>7. Answered'
  BY <1>1, <1>3 DEF Alone, Base, Answered
<1>8. QED
  BY <1>3, <1>4, <1>5, <1>6, <1>7 DEF Base

LEMMA ThrowWorks ==
  ASSUME Base, NEW t \in Threads, Throw(t)
  PROVE  Base' /\ Works(t)
<1>1. /\ pc[t] = "throw" /\ pc' = [pc EXCEPT ![t] = "idle"]
      /\ raised' = [raised EXCEPT ![t] = TRUE]
      /\ object' = (IF method[t] = "construct" THEN "none" ELSE object)
      /\ devices' = devices - One(Unwinds(t, "construct"))
      /\ scans' = scans - One(Unwinds(t, "get_scan"))
      /\ UNCHANGED <<binding, created, live, method, returned, failed, slot>>
  BY DEF Throw, Goto, One
<1>2. /\ pc \in [Threads -> PCs] /\ method \in [Threads -> Methods] /\ devices \in Nat /\ scans \in Nat
      /\ raised \in [Threads -> BOOLEAN]
  BY DEF Base, TypeOK, PCs, Methods
<1>3. Works(t) /\ Alone(t) /\ pc'[t] = "idle"
  BY <1>1, <1>2 DEF Works, Alone, PCs
<1>4. object = IF method[t] = "construct" THEN "building" ELSE "ready"
  BY <1>1 DEF Base, Owner
<1>5. Counted' /\ devices' \in Nat /\ scans' \in Nat
  <2> DEFINE d == 0 - One(Unwinds(t, "construct"))
             s == 0 - One(Unwinds(t, "get_scan"))
  <2>1. \A m : /\ Gain(t, m) = 0 - One(method[t] = m /\ returned[t])
               /\ One(Unwinds(t, m)) \in {0, 1} /\ One(method[t] = m /\ returned[t]) \in {0, 1}
               /\ One(Unwinds(t, m)) <= One(method[t] = m /\ returned[t])
               /\ binding = "cpp" => One(Unwinds(t, m)) = One(method[t] = m /\ returned[t])
    BY <1>1, <1>3 DEF Gain, One, Holds, Unwinds
  <2>2. One(Ready)' = One(Ready) /\ One(Ready) \in Int
    BY <1>1, <1>4 DEF One, Ready
  <2>3. d \in Int /\ s \in Int /\ devices' = devices + d /\ scans' = scans + s
    BY <1>1, <1>2, <2>1
  <2>4. /\ d >= Gain(t, "construct") + One(Ready)' - One(Ready) /\ s >= Gain(t, "get_scan")
        /\ binding = "cpp" => /\ d = Gain(t, "construct") + One(Ready)' - One(Ready)
                              /\ s = Gain(t, "get_scan")
    BY <2>1, <2>2
  <2> HIDE DEF d, s
  <2>5. QED
    BY <1>1, <1>3, <2>3, <2>4, CountKept
<1>6. TypeOK'
  BY <1>1, <1>2, <1>5 DEF Base, TypeOK, PCs
<1>7. Owner'
  <2>1. \A u \in Threads \ {t} : pc'[u] = pc[u] /\ (method[t] = "construct" => pc[u] = "idle")
    BY <1>1, <1>3 DEF Alone, Base, Owner
  <2>2. QED
    BY <1>1, <1>3, <2>1 DEF Base, Owner
<1>8. Answered'
  BY <1>1, <1>3 DEF Alone, Base, Answered
<1>9. QED
  BY <1>3, <1>5, <1>6, <1>7, <1>8 DEF Base

LEMMA CopyWorks ==
  ASSUME Base, NEW t \in Threads, CopySamples(t)
  PROVE  Base' /\ Works(t)
<1>1. /\ pc[t] = "copy" /\ pc' = [pc EXCEPT ![t] = "idle"]
      /\ scans' = scans - One(binding = "cpp")
      /\ UNCHANGED <<binding, object, devices, created, live, method, returned, failed, slot, raised>>
  BY DEF CopySamples, Goto, One, local
<1>2. pc \in [Threads -> PCs] /\ devices \in Nat /\ scans \in Nat
  BY DEF Base, TypeOK, PCs
<1>3. Works(t) /\ Alone(t) /\ pc'[t] = "idle"
  BY <1>1, <1>2 DEF Works, Alone, PCs
<1>4. returned[t] /\ method[t] = "get_scan"
  BY <1>1 DEF Base, Answered
<1>5. Counted' /\ devices' \in Nat /\ scans' \in Nat
  <2> DEFINE s == 0 - One(binding = "cpp")
  <2>1. /\ Gain(t, "construct") = 0 /\ Gain(t, "get_scan") = 0 - 1
        /\ One(binding = "cpp") \in {0, 1} /\ (binding = "cpp" => One(binding = "cpp") = 1)
    BY <1>1, <1>3, <1>4 DEF Gain, One, Holds
  <2>2. One(Ready)' = One(Ready) /\ One(Ready) \in Int
    BY <1>1 DEF One, Ready
  <2>3. s \in Int /\ devices' = devices + 0 /\ scans' = scans + s
    BY <1>1, <1>2, <2>1
  <2>4. /\ 0 = Gain(t, "construct") + One(Ready)' - One(Ready) /\ s >= Gain(t, "get_scan")
        /\ binding = "cpp" => s = Gain(t, "get_scan")
    BY <2>1, <2>2
  <2>5. 0 \in Int /\ 0 >= 0
    OBVIOUS
  <2> HIDE DEF s
  <2>6. QED
    BY <1>1, <1>3, <2>3, <2>4, <2>5, CountKept
<1>6. TypeOK'
  BY <1>1, <1>2, <1>5 DEF Base, TypeOK, PCs
<1>7. Owner'
  BY <1>1, <1>3 DEF Alone, Base, Owner
<1>8. Answered'
  BY <1>1, <1>3 DEF Alone, Base, Answered
<1>9. QED
  BY <1>3, <1>5, <1>6, <1>7, <1>8 DEF Base

LEMMA CloseKeepsBase ==
  ASSUME Base, NEW t \in Threads, Close(t)
  PROVE  Base'
<1>1. /\ object = "ready" /\ object' = "none" /\ devices' = devices - 1
      /\ \A u \in Threads : pc[u] = "idle"
      /\ UNCHANGED <<binding, scans, created, live, pc, method, returned, failed, slot, raised>>
  BY DEF Close, local
<1>2. devices \in Nat /\ scans \in Nat
  BY DEF Base, TypeOK
<1>3. Counted' /\ devices' \in Nat /\ scans' \in Nat
  <2>1. Alone(t) /\ \A m : Gain(t, m) = 0
    BY <1>1 DEF Alone, Gain, One, Holds
  <2>2. One(Ready)' = 0 /\ One(Ready) = 1
    BY <1>1 DEF One, Ready
  <2>3. /\ -1 \in Int /\ 0 \in Int /\ -1 = 0 + 0 - 1 /\ -1 >= -1 /\ 0 >= 0
        /\ devices' = devices + (-1) /\ scans' = scans + 0
    BY <1>1, <1>2
  <2>4. Gain(t, "construct") + One(Ready)' - One(Ready) = -1
    BY <2>1, <2>2
  <2>5. Gain(t, "get_scan") = 0
    BY <2>1
  <2>6. QED
    BY <1>1, <2>1, <2>3, <2>4, <2>5, CountKept
<1>4. TypeOK'
  BY <1>1, <1>3 DEF Base, TypeOK
<1>5. Owner' /\ Answered'
  BY <1>1 DEF Base, Owner, Answered
<1>6. QED
  BY <1>3, <1>4, <1>5 DEF Base

LEMMA BaseKept == Base /\ [Next]_vars => Base' /\ binding' = binding
<1> SUFFICES ASSUME Base, [Next]_vars PROVE Base' /\ binding' = binding
  OBVIOUS
<1>1. CASE UNCHANGED vars
  BY <1>1 DEF vars, library, local, Base, TypeOK, Owner, Answered, Counted, Wrapped, Fetched, Ready,
              Holding
<1>2. ASSUME NEW t \in Threads,
             \/ Construct(t) \/ Method(t) \/ LibraryCall(t) \/ NoError(t) \/ Message(t)
             \/ DestructError(t) \/ Throw(t) \/ CopySamples(t)
      PROVE  Base' /\ binding' = binding
  <2>1. Base' /\ Works(t)
    BY <1>2, EnterWorks, LibraryWorks, NoErrorWorks, ErrorWorks, ThrowWorks, CopyWorks
  <2>2. QED
    BY <2>1 DEF Works
<1>3. ASSUME NEW t \in Threads, Close(t) PROVE Base' /\ binding' = binding
  BY <1>3, CloseKeepsBase DEF Close
<1>4. QED
  BY <1>1, <1>2, <1>3 DEF Next

-----------------------------------------------------------------------------
\* Who owes what stays as it is.
LEMMA OwedSame ==
  ASSUME Owed, live' = live, \A u \in Threads : Owes(u)' = Owes(u) /\ (Owes(u) => slot'[u] = slot[u])
  PROVE  Owed'
<1>1. {u \in Threads : Owes(u)}' = {u \in Threads : Owes(u)}
  OBVIOUS
<1>2. {slot[t] : t \in {u \in Threads : Owes(u)}}' = {slot[t] : t \in {u \in Threads : Owes(u)}}
  BY <1>1
<1>3. QED
  BY <1>1, <1>2 DEF Owed

LEMMA SlotsKept ==
  ASSUME Base, Careful, Slots, Owed, [Next]_vars
  PROVE  Slots' /\ Owed'
<1>1. /\ pc \in [Threads -> PCs] /\ failed \in [Threads -> BOOLEAN] /\ raised \in [Threads -> BOOLEAN]
      /\ slot \in [Threads -> 0 .. created] /\ created \in Nat /\ binding \in {"cpp", "java"}
  BY WrapperAssumption DEF Base, TypeOK, PCs
<1>2. ASSUME NEW t \in Threads, Construct(t) \/ Method(t) PROVE Slots' /\ Owed'
  <2>1. PICK m : Enter(t, m)
    BY <1>2 DEF Construct, Method
  <2>2. /\ pc[t] = "idle" /\ pc' = [pc EXCEPT ![t] = "inside"]
        /\ binding = "java" /\ raised[t] => GoesOn
        /\ slot' = (IF binding = "cpp" THEN [slot EXCEPT ![t] = Null] ELSE slot)
        /\ UNCHANGED <<binding, live, failed, raised>>
    BY <2>1 DEF Enter, ErrorArgument, library
  <2>3. slot'[t] = Null /\ (binding = "java" => ~raised[t])
    BY <1>1, <2>2 DEF Careful, Slots
  <2>4. pc'[t] = "inside" /\ \A u \in Threads \ {t} : pc'[u] = pc[u] /\ slot'[u] = slot[u]
    BY <1>1, <2>2
  <2>5. Slots'
    BY <1>1, <2>2, <2>3, <2>4 DEF Slots
  <2>6. \A u \in Threads : Owes(u)' = Owes(u) /\ (Owes(u) => slot'[u] = slot[u])
    BY <2>2, <2>4 DEF Owes
  <2>7. QED
    BY <2>2, <2>5, <2>6, OwedSame
<1>3. ASSUME NEW t \in Threads, LibraryCall(t) PROVE Slots' /\ Owed'
  <2>1. PICK object_, error \in BOOLEAN : Returns(t, object_, error)
    BY <1>3 DEF LibraryCall
  <2>2. /\ pc[t] = "inside" /\ pc' = [pc EXCEPT ![t] = "check"]
        /\ failed' = [failed EXCEPT ![t] = error]
        /\ UNCHANGED <<binding, raised>>
    BY <2>1 DEF Returns
  <2>3. \/ error /\ live' = live \cup {created + 1} /\ slot' = [slot EXCEPT ![t] = created + 1]
        \/ ~error /\ live' = live /\ slot' = slot
    BY <2>1 DEF Returns
  <2>4. /\ pc'[t] = "check" /\ failed'[t] = error
        /\ slot'[t] = (IF error THEN created + 1 ELSE Null)
        /\ \A u \in Threads \ {t} : pc'[u] = pc[u] /\ failed'[u] = failed[u] /\ slot'[u] = slot[u]
    BY <1>1, <2>2, <2>3 DEF Slots
  <2>5. Slots'
    <3>1. created + 1 # Null
      BY <1>1 DEF Null
    <3>2. binding = "java" => ~raised[t]
      BY <2>2 DEF Slots
    <3>3. QED
      BY <2>2, <2>4, <3>1, <3>2 DEF Slots
  <2>6. CASE error
    <3>1. ~Owes(t) /\ Owes(t)' /\ \A u \in Threads \ {t} : Owes(u)' = Owes(u)
      BY <2>2, <2>4, <2>6 DEF Owes
    <3>2. slot'[t] = created + 1 /\ live' = live \cup {created + 1}
      BY <2>3, <2>4, <2>6
    <3>3. \A u \in Threads : slot[u] # created + 1
      BY <1>1
    <3>4. live' = {slot[u] : u \in {u \in Threads : Owes(u)}}'
      <4>1. {u \in Threads : Owes(u)}' = {u \in Threads : Owes(u)} \cup {t}
        BY <3>1
      <4>2. live = {slot[u] : u \in {u \in Threads : Owes(u)}}
        BY DEF Owed
      <4>3. QED
        BY <2>4, <3>1, <3>2, <4>1, <4>2
    <3>5. ASSUME NEW u \in Threads, NEW v \in Threads, Owes(u)', Owes(v)', slot'[u] = slot'[v]
          PROVE  u = v
      BY <2>4, <3>1, <3>2, <3>3, <3>5 DEF Owed
    <3>6. QED
      BY <2>5, <3>4, <3>5 DEF Owed
  <2>7. CASE ~error
    <3>1. \A u \in Threads : Owes(u)' = Owes(u) /\ (Owes(u) => slot'[u] = slot[u])
      BY <2>2, <2>4, <2>7 DEF Owes
    <3>2. QED
      BY <2>3, <2>5, <2>7, <3>1, OwedSame
  <2>8. QED
    BY <2>6, <2>7
<1>4. ASSUME NEW t \in Threads, NoError(t) \/ CopySamples(t) PROVE Slots' /\ Owed'
  <2>1. PICK there \in {"copy", "idle"} :
          /\ pc' = [pc EXCEPT ![t] = there]
          /\ \/ pc[t] = "check" /\ slot[t] = Null
             \/ pc[t] = "copy" /\ there = "idle"
          /\ UNCHANGED <<binding, live, failed, raised, slot>>
    BY <1>4 DEF NoError, CopySamples, Goto, library, local
  <2>2. slot[t] = Null /\ ~failed[t] /\ (binding = "java" => ~raised[t])
    BY <2>1 DEF Slots, Base, Answered
  <2>3. pc'[t] = there /\ \A u \in Threads \ {t} : pc'[u] = pc[u]
    BY <1>1, <2>1
  <2>4. Slots'
    BY <2>1, <2>2, <2>3 DEF Slots
  <2>5. \A u \in Threads : Owes(u)' = Owes(u) /\ (Owes(u) => slot'[u] = slot[u])
    BY <2>1, <2>2, <2>3 DEF Owes
  <2>6. QED
    BY <2>1, <2>4, <2>5, OwedSame
<1>5. ASSUME NEW t \in Threads, Message(t) PROVE Slots' /\ Owed'
  <2>1. /\ pc[t] = "check" /\ slot[t] # Null /\ pc' = [pc EXCEPT ![t] = "message"]
        /\ UNCHANGED <<binding, live, failed, raised, slot>>
    BY <1>5 DEF Message, Goto, library, local
  <2>2. failed[t]
    BY <1>1, <2>1 DEF Slots
  <2>3. pc'[t] = "message" /\ \A u \in Threads \ {t} : pc'[u] = pc[u]
    BY <1>1, <2>1
  <2>4. Slots'
    BY <2>1, <2>2, <2>3 DEF Slots
  <2>5. \A u \in Threads : Owes(u)' = Owes(u) /\ (Owes(u) => slot'[u] = slot[u])
    BY <2>1, <2>2, <2>3 DEF Owes
  <2>6. QED
    BY <2>1, <2>4, <2>5, OwedSame
<1>6. ASSUME NEW t \in Threads, DestructError(t) PROVE Slots' /\ Owed'
  <2>1. /\ pc[t] = "message" /\ pc' = [pc EXCEPT ![t] = "throw"]
        /\ live' = live \ {slot[t]}
        /\ UNCHANGED <<binding, failed, raised, slot>>
    BY <1>6 DEF DestructError, Goto, local
  <2>2. failed[t] /\ slot[t] # Null
    BY <1>1, <2>1 DEF Slots
  <2>3. pc'[t] = "throw" /\ \A u \in Threads \ {t} : pc'[u] = pc[u]
    BY <1>1, <2>1
  <2>4. Slots'
    BY <2>1, <2>2, <2>3 DEF Slots
  <2>5. Owes(t) /\ ~Owes(t)' /\ \A u \in Threads \ {t} : Owes(u)' = Owes(u)
    BY <2>1, <2>2, <2>3 DEF Owes
  <2>6. live' = {slot[u] : u \in {u \in Threads : Owes(u)}}'
    <3>1. {u \in Threads : Owes(u)}' = {u \in Threads : Owes(u)} \ {t}
      BY <2>5
    <3>2. \A u \in Threads : Owes(u) /\ u # t => slot[u] # slot[t]
      BY <2>5 DEF Owed
    <3>3. live = {slot[u] : u \in {u \in Threads : Owes(u)}}
      BY DEF Owed
    <3>4. QED
      BY <2>1, <3>1, <3>2, <3>3
  <2>7. QED
    BY <2>1, <2>4, <2>5, <2>6 DEF Owed
<1>7. ASSUME NEW t \in Threads, Throw(t) PROVE Slots' /\ Owed'
  <2>1. /\ pc[t] = "throw" /\ pc' = [pc EXCEPT ![t] = "idle"]
        /\ raised' = [raised EXCEPT ![t] = TRUE]
        /\ UNCHANGED <<binding, live, failed, slot>>
    BY <1>7 DEF Throw, Goto
  <2>2. /\ pc'[t] = "idle" /\ raised'[t]
        /\ \A u \in Threads \ {t} : pc'[u] = pc[u] /\ raised'[u] = raised[u]
    BY <1>1, <2>1
  <2>3. Slots'
    BY <2>1, <2>2 DEF Slots
  <2>4. \A u \in Threads : Owes(u)' = Owes(u) /\ (Owes(u) => slot'[u] = slot[u])
    BY <2>1, <2>2 DEF Owes
  <2>5. QED
    BY <2>1, <2>3, <2>4, OwedSame
<1>8. CASE (\E t \in Threads : Close(t)) \/ UNCHANGED vars
  <2>1. UNCHANGED <<binding, live, pc, failed, raised, slot>>
    BY <1>8 DEF Close, vars, library, local
  <2>2. Slots'
    BY <2>1 DEF Slots
  <2>3. \A u \in Threads : Owes(u)' = Owes(u) /\ (Owes(u) => slot'[u] = slot[u])
    BY <2>1 DEF Owes
  <2>4. QED
    BY <2>1, <2>2, <2>3, OwedSame
<1>9. QED
  BY <1>2, <1>3, <1>4, <1>5, <1>6, <1>7, <1>8 DEF Next

-----------------------------------------------------------------------------
LEMMA InitIInv == Init => IInv
<1> SUFFICES ASSUME Init PROVE IInv
  OBVIOUS
<1>1. /\ binding \in {"cpp", "java"} /\ object = "none" /\ devices = 0 /\ scans = 0
      /\ created = 0 /\ live = {}
      /\ pc = [t \in Threads |-> "idle"] /\ method = [t \in Threads |-> "other"]
      /\ returned = [t \in Threads |-> FALSE] /\ failed = [t \in Threads |-> FALSE]
      /\ slot = [t \in Threads |-> Null] /\ raised = [t \in Threads |-> FALSE]
  BY DEF Init
<1>2. TypeOK
  BY <1>1, WrapperAssumption DEF TypeOK, Null
<1>3. Owner /\ Answered /\ Slots
  BY <1>1 DEF Owner, Answered, Slots
<1>4. Counted
  <2>1. \A m : Holding(m) = {}
    BY <1>1 DEF Holding
  <2>2. Wrapped = 0 /\ Fetched = 0
    BY <1>1, <2>1, FS_EmptySet DEF Wrapped, Fetched, Ready, One
  <2>3. QED
    BY <1>1, <2>2 DEF Counted
<1>5. Owed
  BY <1>1 DEF Owed, Owes
<1>6. QED
  BY <1>2, <1>3, <1>4, <1>5 DEF IInv, Base

LEMMA Inductive == IInv /\ [Next]_vars => IInv'
<1> SUFFICES ASSUME IInv, [Next]_vars PROVE IInv'
  OBVIOUS
<1>1. Base' /\ binding' = binding
  BY BaseKept DEF IInv
<1>2. ASSUME Careful PROVE Slots' /\ Owed'
  BY <1>2, SlotsKept DEF IInv
<1>3. Careful' => Careful
  BY <1>1 DEF Careful
<1>4. QED
  BY <1>1, <1>2, <1>3 DEF IInv

LEMMA InvAlways == Spec => []IInv
BY InitIInv, Inductive, PTL DEF Spec

\* Every variable keeps its shape, whatever the client does: no wrapper destructs
\* more devices or scans than it was given.
THEOREM TypeCorrect == Spec => []TypeOK
<1>1. IInv => TypeOK
  BY DEF IInv, Base
<1>2. QED
  BY <1>1, InvAlways, PTL

\* In C++, and in Java as long as no thread goes on after an exception, a method
\* takes the message of an error that exists, and that no other thread destructs.
THEOREM ErrorsAreLive == Spec => [](Careful => ErrorsLive)
<1>1. IInv => (Careful => ErrorsLive)
  <2> SUFFICES ASSUME IInv, Careful, NEW t \in Threads, pc[t] \in {"check", "message"}, slot[t] # Null
               PROVE  /\ slot[t] \in live
                      /\ \A u \in Threads : u # t /\ pc[u] \in {"check", "message"} => slot[u] # slot[t]
    BY DEF ErrorsLive
  <2>1. failed \in [Threads -> BOOLEAN] /\ Slots /\ Owed
    BY DEF IInv, Base, TypeOK
  <2>2. \A u \in Threads : pc[u] \in {"check", "message"} /\ slot[u] # Null => Owes(u)
    BY <2>1 DEF Slots, Owes
  <2>3. QED
    BY <2>1, <2>2 DEF Owed
<1>2. QED
  BY <1>1, InvAlways, PTL

\* A method throws if this call of libsweep has failed, and only then.
THEOREM WhatFailedIsThrown == Spec => [](Careful => ThrowsWhatFailed)
<1>1. IInv => (Careful => ThrowsWhatFailed)
  BY DEF IInv, Base, Answered, Slots, ThrowsWhatFailed
<1>2. QED
  BY <1>1, InvAlways, PTL

\* No error is left behind, and in C++ no scan and no device.
THEOREM NothingIsLeftBehind == Spec => [](Careful => NothingLeftBehind)
<1>1. IInv => (Careful => NothingLeftBehind)
  <2> SUFFICES ASSUME IInv, Careful PROVE NothingLeftBehind
    OBVIOUS
  <2>1. live = {slot[t] : t \in {u \in Threads : failed[u] /\ pc[u] \in {"check", "message"}}}
    BY DEF IInv, Owed, Owes
  <2>2. Counted
    BY DEF IInv, Base
  <2>3. QED
    BY <2>1, <2>2 DEF NothingLeftBehind, Counted, Wrapped, Fetched, Ready, One
<1>2. QED
  BY <1>1, InvAlways, PTL
==============================================================================
