---------------------------- MODULE GepaRunProofs ----------------------------
(***************************************************************************)
(* Proofs about GepaRun, for every number of rows, generations, proposals, *)
(* rollouts and crashes: the durable cursor is sound after every write of   *)
(* a tick, so the run machine restored with it agrees with its phase, and a *)
(* run that completes deploys a candidate all of whose heldout rows have    *)
(* their frames.                                                            *)
(*                                                                          *)
(* A handler returns the writes of its tick.  Sound(ws) says that each of   *)
(* them keeps the invariant whatever the process died before; there is one  *)
(* lemma per handler.  The handlers are built from loops over sequences: a  *)
(* loop is unrolled into a function of how far it has come, once per loop.  *)
(***************************************************************************)
EXTENDS GepaRun, TLAPS, FiniteSetTheorems, WellFoundedInduction, SequenceTheorems

-----------------------------------------------------------------------------
(* Loops over a sequence *)

LEMMA LeastOf == ASSUME NEW B, B \subseteq Nat, B # {}
                 PROVE  \E n \in B : \A m \in B : n <= m
  <1>1. PICK n \in B : \A m \in B : ~(<<m, n>> \in OpToRel(<, Nat))
    BY NatLessThanWellFounded, WFMin
  <1>2. \A m \in B : <<m, n>> \in OpToRel(<, Nat) <=> m < n
    BY DEF OpToRel
  <1>3. n \in Nat /\ \A m \in B : m \in Nat /\ ~(m < n)
    BY <1>1, <1>2
  <1>4. \A a, b \in Nat : ~(a < b) => b <= a
    OBVIOUS
  <1> QED BY <1>3, <1>4

LEMMA UpTo == ASSUME NEW G, NEW b \in Nat, 0 \in G,
                     \A n \in 1 .. b : n - 1 \in G => n \in G
              PROVE  \A n \in 0 .. b : n \in G
  <1> DEFINE B == {n \in 0 .. b : n \notin G}
  <1> SUFFICES ASSUME B # {} PROVE FALSE
    OBVIOUS
  <1>1. B \subseteq Nat
    OBVIOUS
  <1>2. PICK n \in B : \A m \in B : n <= m
    <2> HIDE DEF B
    <2> QED BY <1>1, LeastOf
  <1>3. n \in 1 .. b /\ n - 1 \in 0 .. b /\ ~(n <= n - 1)
    BY <1>2
  <1>4. n - 1 \in G
    BY <1>2, <1>3
  <1> QED BY <1>2, <1>3, <1>4

\* The function Keep computes.
IsKept(f, s, S, b) ==
    f = [n \in 0 .. b |-> IF n = 0 THEN <<>>
                          ELSE IF s[n] \in S THEN Append(f[n - 1], s[n]) ELSE f[n - 1]]

LEMMA KeptExists == ASSUME NEW s, NEW S, NEW b \in Nat
                    PROVE  \E f : IsKept(f, s, S, b)
  <1> DEFINE G == {n \in Nat : \E f : IsKept(f, s, S, n)}
  <1>1. 0 \in G
    <2> DEFINE k == [n \in 0 .. 0 |-> <<>>]
    <2>1. k = [n \in 0 .. 0 |-> IF n = 0 THEN <<>>
                          ELSE IF s[n] \in S THEN Append(k[n - 1], s[n]) ELSE k[n - 1]]
      OBVIOUS
    <2> HIDE DEF k
    <2> QED BY <2>1 DEF IsKept
  <1>2. \A n \in 1 .. b : n - 1 \in G => n \in G
    <2> SUFFICES ASSUME NEW n \in 1 .. b, n - 1 \in G PROVE n \in G
      OBVIOUS
    <2>1. PICK k : IsKept(k, s, S, n - 1)
      OBVIOUS
    <2> DEFINE last == IF s[n] \in S THEN Append(k[n - 1], s[n]) ELSE k[n - 1]
               m == [i \in 0 .. n |-> IF i = n THEN last ELSE k[i]]
    <2>2. \A i \in 0 .. (n - 1) :
             k[i] = IF i = 0 THEN <<>>
                    ELSE IF s[i] \in S THEN Append(k[i - 1], s[i]) ELSE k[i - 1]
      BY <2>1 DEF IsKept
    <2>3. \A i \in 0 .. n : /\ i = n => m[i] = last
                            /\ i # n => i \in 0 .. (n - 1) /\ m[i] = k[i]
                            /\ i # 0 => i - 1 \in 0 .. n /\ m[i - 1] = k[i - 1]
      OBVIOUS
    <2>4. m = [i \in 0 .. n |-> m[i]]
      OBVIOUS
    <2> HIDE DEF m
    <2>5. ASSUME NEW i \in 0 .. n
          PROVE  m[i] = IF i = 0 THEN <<>>
                        ELSE IF s[i] \in S THEN Append(m[i - 1], s[i]) ELSE m[i - 1]
      <3>1. CASE i = n
        BY <2>3, <3>1
      <3>2. CASE i # n
        <4>1. i \in 0 .. (n - 1) /\ m[i] = k[i]
          BY <2>3, <3>2
        <4>2. i # 0 => m[i - 1] = k[i - 1]
          BY <2>3
        <4> HIDE DEF last
        <4> QED BY <2>2, <4>1, <4>2
      <3> QED BY <3>1, <3>2
    <2> HIDE DEF last
    <2>6. m = [i \in 0 .. n |-> IF i = 0 THEN <<>>
                        ELSE IF s[i] \in S THEN Append(m[i - 1], s[i]) ELSE m[i - 1]]
      BY <2>4, <2>5
    <2>7. IsKept(m, s, S, n)
      BY ONLY <2>6 DEF IsKept
    <2>8. n \in Nat
      OBVIOUS
    <2> QED BY <2>7, <2>8
  <1> HIDE DEF G
  <1>3. \A n \in 0 .. b : n \in G
    BY <1>1, <1>2, UpTo
  <1>4. b \in G
    BY <1>3
  <1> QED BY <1>4 DEF G

\* What Keep leaves is in S and was in the sequence.
LEMMA KeptElements ==
    ASSUME NEW s, Len(s) \in Nat, NEW S
    PROVE  Keep(s, S) \in Seq({x \in S : \E i \in 1 .. Len(s) : x = s[i]})
  <1> DEFINE f == CHOOSE f : IsKept(f, s, S, Len(s))
             T == {x \in S : \E i \in 1 .. Len(s) : x = s[i]}
             G == {n \in Nat : f[n] \in Seq(T)}
  <1>1. Keep(s, S) = f[Len(s)]
    BY DEF Keep, IsKept
  <1>2. IsKept(f, s, S, Len(s))
    BY KeptExists
  <1> HIDE DEF f
  <1>3. \A n \in 0 .. Len(s) :
          f[n] = IF n = 0 THEN <<>>
                 ELSE IF s[n] \in S THEN Append(f[n - 1], s[n]) ELSE f[n - 1]
    BY <1>2 DEF IsKept
  <1>4. 0 \in G
    <2>1. f[0] = <<>>
      BY <1>3
    <2> HIDE DEF T
    <2>2. <<>> \in Seq(T)
      OBVIOUS
    <2> QED BY <2>1, <2>2
  <1>5. \A n \in 1 .. Len(s) : n - 1 \in G => n \in G
    <2> SUFFICES ASSUME NEW n \in 1 .. Len(s), n - 1 \in G PROVE n \in G
      OBVIOUS
    <2>1. n \in 0 .. Len(s) /\ n # 0 /\ n \in Nat /\ f[n - 1] \in Seq(T)
      OBVIOUS
    <2>2. CASE s[n] \in S
      <3>1. s[n] \in T
        BY <2>2
      <3>2. f[n] = Append(f[n - 1], s[n])
        BY <1>3, <2>1, <2>2
      <3> HIDE DEF T
      <3>3. Append(f[n - 1], s[n]) \in Seq(T)
        BY <2>1, <3>1
      <3> QED BY <2>1, <3>2, <3>3
    <2>3. CASE s[n] \notin S
      BY <1>3, <2>1, <2>3
    <2> QED BY <2>2, <2>3
  <1> HIDE DEF G
  <1>6. \A n \in 0 .. Len(s) : n \in G
    BY <1>4, <1>5, UpTo
  <1>7. f[Len(s)] \in Seq(T)
    BY <1>6 DEF G
  <1> QED BY <1>1, <1>7

LEMMA KeptIn == ASSUME NEW s, Len(s) \in Nat, NEW S
                PROVE  /\ Keep(s, S) \in Seq(S)
                       /\ Range(Keep(s, S)) \subseteq S
                       /\ \A i \in DOMAIN Keep(s, S) : \E j \in 1 .. Len(s) : Keep(s, S)[i] = s[j]
  <1> DEFINE T == {x \in S : \E i \in 1 .. Len(s) : x = s[i]}
  <1>1. Keep(s, S) \in Seq(T)
    BY KeptElements
  <1>2. T \subseteq S /\ \A x \in T : \E j \in 1 .. Len(s) : x = s[j]
    OBVIOUS
  <1> HIDE DEF T
  <1>3. \A i \in DOMAIN Keep(s, S) : Keep(s, S)[i] \in T
    BY <1>1
  <1>4. Keep(s, S) \in Seq(S)
    BY <1>1, <1>2
  <1> QED BY <1>2, <1>3, <1>4 DEF Range

\* A sequence, whatever it is a sequence of.
Plain(s) == s \in Seq(Range(s))

\* Keep drops nothing that is in S.
LEMMA KeptAll ==
    ASSUME NEW s, Len(s) \in Nat, NEW S, NEW m \in 1 .. Len(s), s[m] \in S
    PROVE  \E i \in DOMAIN Keep(s, S) : Keep(s, S)[i] = s[m]
  <1> DEFINE f == CHOOSE f : IsKept(f, s, S, Len(s))
             Has(t) == t \in Seq(S) /\ \E i \in DOMAIN t : t[i] = s[m]
             G == {n \in Nat : f[n] \in Seq(S) /\ (n >= m => Has(f[n]))}
  <1>1. Keep(s, S) = f[Len(s)]
    BY DEF Keep, IsKept
  <1>2. IsKept(f, s, S, Len(s))
    BY KeptExists
  <1> HIDE DEF f
  <1>3. \A n \in 0 .. Len(s) :
          f[n] = IF n = 0 THEN <<>>
                 ELSE IF s[n] \in S THEN Append(f[n - 1], s[n]) ELSE f[n - 1]
    BY <1>2 DEF IsKept
  <1>4. 0 \in G
    <2>1. f[0] = <<>> /\ ~(0 >= m)
      BY <1>3
    <2>2. <<>> \in Seq(S) /\ 0 \in Nat
      OBVIOUS
    <2> HIDE DEF Has
    <2>3. f[0] \in Seq(S) /\ ~(0 >= m)
      BY ONLY <2>1, <2>2
    <2> QED BY <2>2, <2>3
  <1>5. \A n \in 1 .. Len(s) : n - 1 \in G => n \in G
    <2> SUFFICES ASSUME NEW n \in 1 .. Len(s), n - 1 \in G PROVE n \in G
      OBVIOUS
    <2>1. n \in 0 .. Len(s) /\ n # 0 /\ n \in Nat /\ f[n - 1] \in Seq(S)
          /\ (n >= m /\ n # m => Has(f[n - 1]))
      OBVIOUS
    <2>2. CASE s[n] \in S
      <3> DEFINE u == f[n - 1]
                 v == Append(u, s[n])
      <3>1. f[n] = v /\ u \in Seq(S)
        BY <1>3, <2>1, <2>2
      <3> HIDE DEF u
      <3>2. v \in Seq(S) /\ Len(v) = Len(u) + 1 /\ v[Len(u) + 1] = s[n]
            /\ \A i \in 1 .. Len(u) : v[i] = u[i]
        BY <3>1, <2>2
      <3>3. DOMAIN u = 1 .. Len(u) /\ DOMAIN v = 1 .. Len(u) + 1 /\ Len(u) \in Nat
        BY <3>1, <3>2
      <3> HIDE DEF v
      <3>4. CASE n = m
        BY <2>1, <3>1, <3>2, <3>3, <3>4
      <3>5. CASE n # m
        <4>1. n >= m => \E i \in DOMAIN u : u[i] = s[m]
          BY <2>1, <3>5 DEF u
        <4>2. n >= m => \E i \in DOMAIN v : v[i] = s[m]
          BY <4>1, <3>2, <3>3
        <4> QED BY <2>1, <3>1, <3>2, <4>2
      <3> QED BY <3>4, <3>5
    <2>3. CASE s[n] \notin S
      <3>1. f[n] = f[n - 1] /\ n # m
        BY <1>3, <2>1, <2>3
      <3> HIDE DEF Has
      <3> QED BY <2>1, <3>1
    <2> QED BY <2>2, <2>3
  <1> HIDE DEF G
  <1>6. \A n \in 0 .. Len(s) : n \in G
    BY <1>4, <1>5, UpTo
  <1>7. Has(f[Len(s)])
    BY <1>6 DEF G
  <1> QED BY <1>1, <1>7

\* What is in S and what is not make up the sequence.
LEMMA KeptSplit ==
    ASSUME NEW s, Plain(s), NEW S, S \subseteq Range(s)
    PROVE  LET t == Keep(s, S) \o Keep(s, Range(s) \ S)
           IN  t \in Seq(Range(s)) /\ Len(t) = Len(s)
  <1> DEFINE D == Range(s)
             O == D \ S
             f == CHOOSE f : IsKept(f, s, S, Len(s))
             g == CHOOSE g : IsKept(g, s, O, Len(s))
             Two(u, v, n) == u \in Seq(D) /\ v \in Seq(D) /\ Len(u) + Len(v) = n
             G == {n \in Nat : Two(f[n], g[n], n)}
  <1>1. Len(s) \in Nat /\ \A n \in 1 .. Len(s) : s[n] \in D
    BY DEF Plain
  <1>2. Keep(s, S) = f[Len(s)] /\ Keep(s, O) = g[Len(s)]
    BY DEF Keep, IsKept
  <1> HIDE DEF D
  <1>3. \A n \in 1 .. Len(s) : s[n] \in O <=> s[n] \notin S
    BY <1>1
  <1> HIDE DEF O
  <1>4. IsKept(f, s, S, Len(s)) /\ IsKept(g, s, O, Len(s))
    BY <1>1, KeptExists
  <1> HIDE DEF f, g
  <1>5. \A n \in 0 .. Len(s) :
          /\ f[n] = IF n = 0 THEN <<>>
                    ELSE IF s[n] \in S THEN Append(f[n - 1], s[n]) ELSE f[n - 1]
          /\ g[n] = IF n = 0 THEN <<>>
                    ELSE IF s[n] \in O THEN Append(g[n - 1], s[n]) ELSE g[n - 1]
    BY <1>4 DEF IsKept
  <1>6. 0 \in G
    <2>1. f[0] = <<>> /\ g[0] = <<>>
      BY <1>1, <1>5
    <2>2. Two(<<>>, <<>>, 0)
      OBVIOUS
    <2> HIDE DEF Two
    <2> QED BY <2>1, <2>2
  <1>7. \A n \in 1 .. Len(s) : n - 1 \in G => n \in G
    <2> SUFFICES ASSUME NEW n \in 1 .. Len(s), n - 1 \in G PROVE n \in G
      OBVIOUS
    <2> DEFINE u == f[n - 1]
               v == g[n - 1]
               x == s[n]
    <2>1. n \in 0 .. Len(s) /\ n # 0 /\ n \in Nat
      BY <1>1
    <2>4. Two(u, v, n - 1)
      <3> HIDE DEF Two
      <3> QED OBVIOUS
    <2>5. x \in D
      BY <1>1
    <2>2. \/ f[n] = Append(u, x) /\ g[n] = v
          \/ f[n] = u /\ g[n] = Append(v, x)
      BY <1>3, <1>5, <2>1
    <2> HIDE DEF u, v, x
    <2>3. /\ Append(u, x) \in Seq(D) /\ Len(Append(u, x)) = Len(u) + 1 /\ Len(u) \in Nat
          /\ Append(v, x) \in Seq(D) /\ Len(Append(v, x)) = Len(v) + 1 /\ Len(v) \in Nat
      BY <2>4, <2>5
    <2>7. Two(Append(u, x), v, n) /\ Two(u, Append(v, x), n)
      BY <2>1, <2>3, <2>4
    <2>6. Two(f[n], g[n], n)
      <3> HIDE DEF Two
      <3> QED BY <2>2, <2>7
    <2> HIDE DEF Two
    <2> QED BY <2>1, <2>6
  <1> HIDE DEF G
  <1>8. \A n \in 0 .. Len(s) : n \in G
    BY <1>1, <1>6, <1>7, UpTo
  <1>9. Keep(s, S) \in Seq(D) /\ Keep(s, O) \in Seq(D) /\ Len(Keep(s, S)) + Len(Keep(s, O)) = Len(s)
    <2>1. Len(s) \in G
      BY <1>1, <1>8
    <2> HIDE DEF Two
    <2>2. Two(f[Len(s)], g[Len(s)], Len(s))
      BY <2>1 DEF G
    <2> QED BY <1>2, <2>2 DEF Two
  <1> DEFINE a == Keep(s, S)
             b == Keep(s, O)
  <1> HIDE DEF a, b
  <1>10. a \o b \in Seq(D) /\ Len(a \o b) = Len(s)
    BY <1>9 DEF a, b
  <1> QED BY <1>10 DEF a, b, O, D

LEMMA MaxOfTwo == ASSUME NEW a \in Nat, NEW b \in Nat
                  PROVE  /\ Max({a, b}) \in Nat
                         /\ a <= Max({a, b}) /\ b <= Max({a, b})
  <1>1. \E x \in {a, b} : \A y \in {a, b} : x >= y
    <2>1. CASE a >= b BY <2>1
    <2>2. CASE ~(a >= b) BY <2>2
    <2> QED BY <2>1, <2>2
  <1> QED BY <1>1 DEF Max

LEMMA PlainIsSequence == ASSUME NEW S, NEW s \in Seq(S)
                         PROVE  Plain(s) /\ Range(s) \subseteq S
  BY DEF Range, Plain

LEMMA PlainParts == ASSUME NEW s, Plain(s)
                    PROVE  /\ Len(s) \in Nat /\ DOMAIN s = 1 .. Len(s)
                           /\ \A i \in 1 .. Len(s) : s[i] \in Range(s)
  BY DEF Plain, Range

LEMMA PlainOne == ASSUME NEW e PROVE Plain(<<e>>) /\ Len(<<e>>) = 1 /\ <<e>>[1] = e
                                     /\ DOMAIN <<e>> = {1}
  <1>1. <<e>> \in Seq({e}) /\ Len(<<e>>) = 1 /\ <<e>>[1] = e
    OBVIOUS
  <1>2. DOMAIN <<e>> = {1}
    BY <1>1
  <1> QED BY <1>1, <1>2, PlainIsSequence

LEMMA KeptAmong == ASSUME NEW D, NEW s \in Seq(D), NEW S PROVE Keep(s, S) \in Seq(D)
  <1>1. Len(s) \in Nat /\ \A i \in 1 .. Len(s) : s[i] \in D
    OBVIOUS
  <1> DEFINE k == Keep(s, S)
  <1>2. k \in Seq(S) /\ \A i \in DOMAIN k : \E j \in 1 .. Len(s) : k[i] = s[j]
    BY <1>1, KeptIn
  <1> HIDE DEF k
  <1>3. k \in [1 .. Len(k) -> S] /\ Len(k) \in Nat /\ DOMAIN k = 1 .. Len(k)
    BY <1>2
  <1>4. \A i \in 1 .. Len(k) : k[i] \in D
    BY <1>1, <1>2, <1>3
  <1>5. k \in [1 .. Len(k) -> D]
    BY <1>3, <1>4
  <1>6. k \in Seq(D)
    BY <1>3, <1>5
  <1> QED BY <1>6 DEF k

\* One turn of a loop of the run, the loops by the name of what they do.
Turn(loop, a, e) ==
    CASE loop = "Write" -> Write(a, e)
      [] loop = "FinalizeMinibatch" -> FinalizeMinibatch(a, e)
      [] loop = "FinalizeFullTrain" -> FinalizeFullTrain(a, e)
      [] loop = "FinalizeHeldout" -> FinalizeHeldout(a, e)
      [] loop = "MoreAsks" -> MoreAsks(a, e)
      [] loop = "Deferred" -> Deferred(a, e)
      [] loop = "AdmitProposal" -> AdmitProposal(a, e)
      [] loop = "FailRow" -> FailRow(a, e)
      [] loop = "LaterOrBetter" -> LaterOrBetter(a, e)
      [] loop = "HeldoutLeader" -> HeldoutLeader(a, e)

\* The loop over s from base, turn by turn.
IsLoop(f, loop, base, s, b) ==
    f = [n \in 0 .. b |-> IF n = 0 THEN base ELSE Turn(loop, f[n - 1], s[n])]

LEMMA LoopExists == ASSUME NEW loop, NEW base, NEW s, NEW b \in Nat
                      PROVE  \E f : IsLoop(f, loop, base, s, b)
  <1> DEFINE G == {n \in Nat : \E f : IsLoop(f, loop, base, s, n)}
  <1>1. 0 \in G
    <2> DEFINE k == [n \in 0 .. 0 |-> base]
    <2>1. k = [n \in 0 .. 0 |-> IF n = 0 THEN base ELSE Turn(loop, k[n - 1], s[n])]
      OBVIOUS
    <2> HIDE DEF k
    <2> QED BY <2>1 DEF IsLoop
  <1>2. \A n \in 1 .. b : n - 1 \in G => n \in G
    <2> SUFFICES ASSUME NEW n \in 1 .. b, n - 1 \in G PROVE n \in G
      OBVIOUS
    <2>1. PICK k : IsLoop(k, loop, base, s, n - 1)
      OBVIOUS
    <2> DEFINE last == Turn(loop, k[n - 1], s[n])
               m == [i \in 0 .. n |-> IF i = n THEN last ELSE k[i]]
    <2>2. \A i \in 0 .. (n - 1) : k[i] = IF i = 0 THEN base ELSE Turn(loop, k[i - 1], s[i])
      BY <2>1 DEF IsLoop
    <2>3. \A i \in 0 .. n : /\ i = n => m[i] = last
                            /\ i # n => i \in 0 .. (n - 1) /\ m[i] = k[i]
                            /\ i # 0 => i - 1 \in 0 .. n /\ m[i - 1] = k[i - 1]
      OBVIOUS
    <2>4. m = [i \in 0 .. n |-> m[i]]
      OBVIOUS
    <2> HIDE DEF m
    <2>5. ASSUME NEW i \in 0 .. n
          PROVE  m[i] = IF i = 0 THEN base ELSE Turn(loop, m[i - 1], s[i])
      <3>1. CASE i = n
        BY <2>3, <3>1
      <3>2. CASE i # n
        <4>1. i \in 0 .. (n - 1) /\ m[i] = k[i]
          BY <2>3, <3>2
        <4>2. i # 0 => m[i - 1] = k[i - 1]
          BY <2>3
        <4> HIDE DEF last
        <4> QED BY <2>2, <4>1, <4>2
      <3> QED BY <3>1, <3>2
    <2> HIDE DEF last
    <2>6. m = [i \in 0 .. n |-> IF i = 0 THEN base ELSE Turn(loop, m[i - 1], s[i])]
      BY <2>4, <2>5
    <2> QED BY <2>6 DEF IsLoop
  <1> HIDE DEF G
  <1>3. b \in G
    BY <1>1, <1>2, UpTo
  <1> QED BY <1>3 DEF G

\* The writes of a tick, turn by turn.
IsWriteLoop(f, base, s, b) ==
    f = [n \in 0 .. b |-> IF n = 0 THEN base ELSE Write(f[n - 1], s[n])]

LEMMA WriteLoopExists == ASSUME NEW base, NEW s, NEW b \in Nat
                      PROVE  \E f : IsWriteLoop(f, base, s, b)
  <1>1. PICK f : IsLoop(f, "Write", base, s, b)
    BY LoopExists
  <1>2. \A a, e : Turn("Write", a, e) = Write(a, e)
    BY DEF Turn
  <1>3. f = [n \in 0 .. b |-> IF n = 0 THEN base ELSE Write(f[n - 1], s[n])]
    BY <1>1, <1>2 DEF IsLoop
  <1> QED BY <1>3 DEF IsWriteLoop

WriteLoopResult(base, s) == (CHOOSE f : IsWriteLoop(f, base, s, Len(s)))[Len(s)]

LEMMA WriteLoopTurns ==
    ASSUME NEW base, NEW s, Len(s) \in Nat
    PROVE  \E f : /\ f[0] = base /\ WriteLoopResult(base, s) = f[Len(s)]
                  /\ \A n \in 1 .. Len(s) : f[n] = Write(f[n - 1], s[n])
  <1> DEFINE f == CHOOSE f : IsWriteLoop(f, base, s, Len(s))
  <1>1. WriteLoopResult(base, s) = f[Len(s)]
    BY DEF WriteLoopResult
  <1>2. IsWriteLoop(f, base, s, Len(s))
    BY WriteLoopExists
  <1> HIDE DEF f
  <1>3. \A n \in 0 .. Len(s) : f[n] = IF n = 0 THEN base ELSE Write(f[n - 1], s[n])
    BY <1>2 DEF IsWriteLoop
  <1>4. f[0] = base /\ \A n \in 1 .. Len(s) : f[n] = Write(f[n - 1], s[n])
    BY <1>3
  <1> QED BY <1>1, <1>4

\* The loop over a minibatch group, turn by turn.
IsMinibatchLoop(f, base, s, b) ==
    f = [n \in 0 .. b |-> IF n = 0 THEN base ELSE FinalizeMinibatch(f[n - 1], s[n])]

LEMMA MinibatchLoopExists == ASSUME NEW base, NEW s, NEW b \in Nat
                      PROVE  \E f : IsMinibatchLoop(f, base, s, b)
  <1>1. PICK f : IsLoop(f, "FinalizeMinibatch", base, s, b)
    BY LoopExists
  <1>2. \A a, e : Turn("FinalizeMinibatch", a, e) = FinalizeMinibatch(a, e)
    BY DEF Turn
  <1>3. f = [n \in 0 .. b |-> IF n = 0 THEN base ELSE FinalizeMinibatch(f[n - 1], s[n])]
    BY <1>1, <1>2 DEF IsLoop
  <1> QED BY <1>3 DEF IsMinibatchLoop

MinibatchLoopResult(base, s) == (CHOOSE f : IsMinibatchLoop(f, base, s, Len(s)))[Len(s)]

LEMMA MinibatchLoopTurns ==
    ASSUME NEW base, NEW s, Len(s) \in Nat
    PROVE  \E f : /\ f[0] = base /\ MinibatchLoopResult(base, s) = f[Len(s)]
                  /\ \A n \in 1 .. Len(s) : f[n] = FinalizeMinibatch(f[n - 1], s[n])
  <1> DEFINE f == CHOOSE f : IsMinibatchLoop(f, base, s, Len(s))
  <1>1. MinibatchLoopResult(base, s) = f[Len(s)]
    BY DEF MinibatchLoopResult
  <1>2. IsMinibatchLoop(f, base, s, Len(s))
    BY MinibatchLoopExists
  <1> HIDE DEF f
  <1>3. \A n \in 0 .. Len(s) : f[n] = IF n = 0 THEN base ELSE FinalizeMinibatch(f[n - 1], s[n])
    BY <1>2 DEF IsMinibatchLoop
  <1>4. f[0] = base /\ \A n \in 1 .. Len(s) : f[n] = FinalizeMinibatch(f[n - 1], s[n])
    BY <1>3
  <1> QED BY <1>1, <1>4

\* The loop over a full-train group, turn by turn.
IsFullTrainLoop(f, base, s, b) ==
    f = [n \in 0 .. b |-> IF n = 0 THEN base ELSE FinalizeFullTrain(f[n - 1], s[n])]

LEMMA FullTrainLoopExists == ASSUME NEW base, NEW s, NEW b \in Nat
                      PROVE  \E f : IsFullTrainLoop(f, base, s, b)
  <1>1. PICK f : IsLoop(f, "FinalizeFullTrain", base, s, b)
    BY LoopExists
  <1>2. \A a, e : Turn("FinalizeFullTrain", a, e) = FinalizeFullTrain(a, e)
    BY DEF Turn
  <1>3. f = [n \in 0 .. b |-> IF n = 0 THEN base ELSE FinalizeFullTrain(f[n - 1], s[n])]
    BY <1>1, <1>2 DEF IsLoop
  <1> QED BY <1>3 DEF IsFullTrainLoop

FullTrainLoopResult(base, s) == (CHOOSE f : IsFullTrainLoop(f, base, s, Len(s)))[Len(s)]

LEMMA FullTrainLoopTurns ==
    ASSUME NEW base, NEW s, Len(s) \in Nat
    PROVE  \E f : /\ f[0] = base /\ FullTrainLoopResult(base, s) = f[Len(s)]
                  /\ \A n \in 1 .. Len(s) : f[n] = FinalizeFullTrain(f[n - 1], s[n])
  <1> DEFINE f == CHOOSE f : IsFullTrainLoop(f, base, s, Len(s))
  <1>1. FullTrainLoopResult(base, s) = f[Len(s)]
    BY DEF FullTrainLoopResult
  <1>2. IsFullTrainLoop(f, base, s, Len(s))
    BY FullTrainLoopExists
  <1> HIDE DEF f
  <1>3. \A n \in 0 .. Len(s) : f[n] = IF n = 0 THEN base ELSE FinalizeFullTrain(f[n - 1], s[n])
    BY <1>2 DEF IsFullTrainLoop
  <1>4. f[0] = base /\ \A n \in 1 .. Len(s) : f[n] = FinalizeFullTrain(f[n - 1], s[n])
    BY <1>3
  <1> QED BY <1>1, <1>4

\* The loop over a heldout group, turn by turn.
IsHeldoutLoop(f, base, s, b) ==
    f = [n \in 0 .. b |-> IF n = 0 THEN base ELSE FinalizeHeldout(f[n - 1], s[n])]

LEMMA HeldoutLoopExists == ASSUME NEW base, NEW s, NEW b \in Nat
                      PROVE  \E f : IsHeldoutLoop(f, base, s, b)
  <1>1. PICK f : IsLoop(f, "FinalizeHeldout", base, s, b)
    BY LoopExists
  <1>2. \A a, e : Turn("FinalizeHeldout", a, e) = FinalizeHeldout(a, e)
    BY DEF Turn
  <1>3. f = [n \in 0 .. b |-> IF n = 0 THEN base ELSE FinalizeHeldout(f[n - 1], s[n])]
    BY <1>1, <1>2 DEF IsLoop
  <1> QED BY <1>3 DEF IsHeldoutLoop

HeldoutLoopResult(base, s) == (CHOOSE f : IsHeldoutLoop(f, base, s, Len(s)))[Len(s)]

LEMMA HeldoutLoopTurns ==
    ASSUME NEW base, NEW s, Len(s) \in Nat
    PROVE  \E f : /\ f[0] = base /\ HeldoutLoopResult(base, s) = f[Len(s)]
                  /\ \A n \in 1 .. Len(s) : f[n] = FinalizeHeldout(f[n - 1], s[n])
  <1> DEFINE f == CHOOSE f : IsHeldoutLoop(f, base, s, Len(s))
  <1>1. HeldoutLoopResult(base, s) = f[Len(s)]
    BY DEF HeldoutLoopResult
  <1>2. IsHeldoutLoop(f, base, s, Len(s))
    BY HeldoutLoopExists
  <1> HIDE DEF f
  <1>3. \A n \in 0 .. Len(s) : f[n] = IF n = 0 THEN base ELSE FinalizeHeldout(f[n - 1], s[n])
    BY <1>2 DEF IsHeldoutLoop
  <1>4. f[0] = base /\ \A n \in 1 .. Len(s) : f[n] = FinalizeHeldout(f[n - 1], s[n])
    BY <1>3
  <1> QED BY <1>1, <1>4

\* The rows a group has left, turn by turn.
IsAskLoop(f, base, s, b) ==
    f = [n \in 0 .. b |-> IF n = 0 THEN base ELSE MoreAsks(f[n - 1], s[n])]

LEMMA AskLoopExists == ASSUME NEW base, NEW s, NEW b \in Nat
                      PROVE  \E f : IsAskLoop(f, base, s, b)
  <1>1. PICK f : IsLoop(f, "MoreAsks", base, s, b)
    BY LoopExists
  <1>2. \A a, e : Turn("MoreAsks", a, e) = MoreAsks(a, e)
    BY DEF Turn
  <1>3. f = [n \in 0 .. b |-> IF n = 0 THEN base ELSE MoreAsks(f[n - 1], s[n])]
    BY <1>1, <1>2 DEF IsLoop
  <1> QED BY <1>3 DEF IsAskLoop

AskLoopResult(base, s) == (CHOOSE f : IsAskLoop(f, base, s, Len(s)))[Len(s)]

LEMMA AskLoopTurns ==
    ASSUME NEW base, NEW s, Len(s) \in Nat
    PROVE  \E f : /\ f[0] = base /\ AskLoopResult(base, s) = f[Len(s)]
                  /\ \A n \in 1 .. Len(s) : f[n] = MoreAsks(f[n - 1], s[n])
  <1> DEFINE f == CHOOSE f : IsAskLoop(f, base, s, Len(s))
  <1>1. AskLoopResult(base, s) = f[Len(s)]
    BY DEF AskLoopResult
  <1>2. IsAskLoop(f, base, s, Len(s))
    BY AskLoopExists
  <1> HIDE DEF f
  <1>3. \A n \in 0 .. Len(s) : f[n] = IF n = 0 THEN base ELSE MoreAsks(f[n - 1], s[n])
    BY <1>2 DEF IsAskLoop
  <1>4. f[0] = base /\ \A n \in 1 .. Len(s) : f[n] = MoreAsks(f[n - 1], s[n])
    BY <1>3
  <1> QED BY <1>1, <1>4

\* The loop over the deferred candidates, turn by turn.
IsDeferral(f, base, s, b) ==
    f = [n \in 0 .. b |-> IF n = 0 THEN base ELSE Deferred(f[n - 1], s[n])]

LEMMA DeferralExists == ASSUME NEW base, NEW s, NEW b \in Nat
                      PROVE  \E f : IsDeferral(f, base, s, b)
  <1>1. PICK f : IsLoop(f, "Deferred", base, s, b)
    BY LoopExists
  <1>2. \A a, e : Turn("Deferred", a, e) = Deferred(a, e)
    BY DEF Turn
  <1>3. f = [n \in 0 .. b |-> IF n = 0 THEN base ELSE Deferred(f[n - 1], s[n])]
    BY <1>1, <1>2 DEF IsLoop
  <1> QED BY <1>3 DEF IsDeferral

DeferralResult(base, s) == (CHOOSE f : IsDeferral(f, base, s, Len(s)))[Len(s)]

LEMMA DeferralTurns ==
    ASSUME NEW base, NEW s, Len(s) \in Nat
    PROVE  \E f : /\ f[0] = base /\ DeferralResult(base, s) = f[Len(s)]
                  /\ \A n \in 1 .. Len(s) : f[n] = Deferred(f[n - 1], s[n])
  <1> DEFINE f == CHOOSE f : IsDeferral(f, base, s, Len(s))
  <1>1. DeferralResult(base, s) = f[Len(s)]
    BY DEF DeferralResult
  <1>2. IsDeferral(f, base, s, Len(s))
    BY DeferralExists
  <1> HIDE DEF f
  <1>3. \A n \in 0 .. Len(s) : f[n] = IF n = 0 THEN base ELSE Deferred(f[n - 1], s[n])
    BY <1>2 DEF IsDeferral
  <1>4. f[0] = base /\ \A n \in 1 .. Len(s) : f[n] = Deferred(f[n - 1], s[n])
    BY <1>3
  <1> QED BY <1>1, <1>4

\* The loop over the proposals, turn by turn.
IsAdmissionLoop(f, base, s, b) ==
    f = [n \in 0 .. b |-> IF n = 0 THEN base ELSE AdmitProposal(f[n - 1], s[n])]

LEMMA AdmissionLoopExists == ASSUME NEW base, NEW s, NEW b \in Nat
                      PROVE  \E f : IsAdmissionLoop(f, base, s, b)
  <1>1. PICK f : IsLoop(f, "AdmitProposal", base, s, b)
    BY LoopExists
  <1>2. \A a, e : Turn("AdmitProposal", a, e) = AdmitProposal(a, e)
    BY DEF Turn
  <1>3. f = [n \in 0 .. b |-> IF n = 0 THEN base ELSE AdmitProposal(f[n - 1], s[n])]
    BY <1>1, <1>2 DEF IsLoop
  <1> QED BY <1>3 DEF IsAdmissionLoop

AdmissionLoopResult(base, s) == (CHOOSE f : IsAdmissionLoop(f, base, s, Len(s)))[Len(s)]

LEMMA AdmissionLoopTurns ==
    ASSUME NEW base, NEW s, Len(s) \in Nat
    PROVE  \E f : /\ f[0] = base /\ AdmissionLoopResult(base, s) = f[Len(s)]
                  /\ \A n \in 1 .. Len(s) : f[n] = AdmitProposal(f[n - 1], s[n])
  <1> DEFINE f == CHOOSE f : IsAdmissionLoop(f, base, s, Len(s))
  <1>1. AdmissionLoopResult(base, s) = f[Len(s)]
    BY DEF AdmissionLoopResult
  <1>2. IsAdmissionLoop(f, base, s, Len(s))
    BY AdmissionLoopExists
  <1> HIDE DEF f
  <1>3. \A n \in 0 .. Len(s) : f[n] = IF n = 0 THEN base ELSE AdmitProposal(f[n - 1], s[n])
    BY <1>2 DEF IsAdmissionLoop
  <1>4. f[0] = base /\ \A n \in 1 .. Len(s) : f[n] = AdmitProposal(f[n - 1], s[n])
    BY <1>3
  <1> QED BY <1>1, <1>4

\* The rows of a failed batch, turn by turn.
IsFailRows(f, base, s, b) ==
    f = [n \in 0 .. b |-> IF n = 0 THEN base ELSE FailRow(f[n - 1], s[n])]

LEMMA FailRowsExists == ASSUME NEW base, NEW s, NEW b \in Nat
                      PROVE  \E f : IsFailRows(f, base, s, b)
  <1>1. PICK f : IsLoop(f, "FailRow", base, s, b)
    BY LoopExists
  <1>2. \A a, e : Turn("FailRow", a, e) = FailRow(a, e)
    BY DEF Turn
  <1>3. f = [n \in 0 .. b |-> IF n = 0 THEN base ELSE FailRow(f[n - 1], s[n])]
    BY <1>1, <1>2 DEF IsLoop
  <1> QED BY <1>3 DEF IsFailRows

FailRowsResult(base, s) == (CHOOSE f : IsFailRows(f, base, s, Len(s)))[Len(s)]

LEMMA FailRowsTurns ==
    ASSUME NEW base, NEW s, Len(s) \in Nat
    PROVE  \E f : /\ f[0] = base /\ FailRowsResult(base, s) = f[Len(s)]
                  /\ \A n \in 1 .. Len(s) : f[n] = FailRow(f[n - 1], s[n])
  <1> DEFINE f == CHOOSE f : IsFailRows(f, base, s, Len(s))
  <1>1. FailRowsResult(base, s) = f[Len(s)]
    BY DEF FailRowsResult
  <1>2. IsFailRows(f, base, s, Len(s))
    BY FailRowsExists
  <1> HIDE DEF f
  <1>3. \A n \in 0 .. Len(s) : f[n] = IF n = 0 THEN base ELSE FailRow(f[n - 1], s[n])
    BY <1>2 DEF IsFailRows
  <1>4. f[0] = base /\ \A n \in 1 .. Len(s) : f[n] = FailRow(f[n - 1], s[n])
    BY <1>3
  <1> QED BY <1>1, <1>4

\* The scan for the best on train rows, turn by turn.
IsTrainScan(f, base, s, b) ==
    f = [n \in 0 .. b |-> IF n = 0 THEN base ELSE LaterOrBetter(f[n - 1], s[n])]

LEMMA TrainScanExists == ASSUME NEW base, NEW s, NEW b \in Nat
                      PROVE  \E f : IsTrainScan(f, base, s, b)
  <1>1. PICK f : IsLoop(f, "LaterOrBetter", base, s, b)
    BY LoopExists
  <1>2. \A a, e : Turn("LaterOrBetter", a, e) = LaterOrBetter(a, e)
    BY DEF Turn
  <1>3. f = [n \in 0 .. b |-> IF n = 0 THEN base ELSE LaterOrBetter(f[n - 1], s[n])]
    BY <1>1, <1>2 DEF IsLoop
  <1> QED BY <1>3 DEF IsTrainScan

TrainScanResult(base, s) == (CHOOSE f : IsTrainScan(f, base, s, Len(s)))[Len(s)]

LEMMA TrainScanTurns ==
    ASSUME NEW base, NEW s, Len(s) \in Nat
    PROVE  \E f : /\ f[0] = base /\ TrainScanResult(base, s) = f[Len(s)]
                  /\ \A n \in 1 .. Len(s) : f[n] = LaterOrBetter(f[n - 1], s[n])
  <1> DEFINE f == CHOOSE f : IsTrainScan(f, base, s, Len(s))
  <1>1. TrainScanResult(base, s) = f[Len(s)]
    BY DEF TrainScanResult
  <1>2. IsTrainScan(f, base, s, Len(s))
    BY TrainScanExists
  <1> HIDE DEF f
  <1>3. \A n \in 0 .. Len(s) : f[n] = IF n = 0 THEN base ELSE LaterOrBetter(f[n - 1], s[n])
    BY <1>2 DEF IsTrainScan
  <1>4. f[0] = base /\ \A n \in 1 .. Len(s) : f[n] = LaterOrBetter(f[n - 1], s[n])
    BY <1>3
  <1> QED BY <1>1, <1>4

\* The scan for the winner on heldout rows, turn by turn.
IsHeldoutScan(f, base, s, b) ==
    f = [n \in 0 .. b |-> IF n = 0 THEN base ELSE HeldoutLeader(f[n - 1], s[n])]

LEMMA HeldoutScanExists == ASSUME NEW base, NEW s, NEW b \in Nat
                      PROVE  \E f : IsHeldoutScan(f, base, s, b)
  <1>1. PICK f : IsLoop(f, "HeldoutLeader", base, s, b)
    BY LoopExists
  <1>2. \A a, e : Turn("HeldoutLeader", a, e) = HeldoutLeader(a, e)
    BY DEF Turn
  <1>3. f = [n \in 0 .. b |-> IF n = 0 THEN base ELSE HeldoutLeader(f[n - 1], s[n])]
    BY <1>1, <1>2 DEF IsLoop
  <1> QED BY <1>3 DEF IsHeldoutScan

HeldoutScanResult(base, s) == (CHOOSE f : IsHeldoutScan(f, base, s, Len(s)))[Len(s)]

LEMMA HeldoutScanTurns ==
    ASSUME NEW base, NEW s, Len(s) \in Nat
    PROVE  \E f : /\ f[0] = base /\ HeldoutScanResult(base, s) = f[Len(s)]
                  /\ \A n \in 1 .. Len(s) : f[n] = HeldoutLeader(f[n - 1], s[n])
  <1> DEFINE f == CHOOSE f : IsHeldoutScan(f, base, s, Len(s))
  <1>1. HeldoutScanResult(base, s) = f[Len(s)]
    BY DEF HeldoutScanResult
  <1>2. IsHeldoutScan(f, base, s, Len(s))
    BY HeldoutScanExists
  <1> HIDE DEF f
  <1>3. \A n \in 0 .. Len(s) : f[n] = IF n = 0 THEN base ELSE HeldoutLeader(f[n - 1], s[n])
    BY <1>2 DEF IsHeldoutScan
  <1>4. f[0] = base /\ \A n \in 1 .. Len(s) : f[n] = HeldoutLeader(f[n - 1], s[n])
    BY <1>3
  <1> QED BY <1>1, <1>4

-----------------------------------------------------------------------------
(* Sums of rewards *)

\* SumOver, of the frames fr.
SumUp(fr, x, stage, rows) == FoldSet(LAMBDA r, n : n + fr[<<x, stage, r>>], 0, rows)

First(s) == CHOOSE r \in s : TRUE

\* f sums the rewards of every set of at most k of the rows.
IsSum(f, fr, x, stage, rows, k) ==
    f = [s \in {t \in SUBSET rows : Cardinality(t) <= k} |->
            IF s = {} THEN 0 ELSE f[s \ {First(s)}] + fr[<<x, stage, First(s)>>]]

LEMMA SubsetParts ==
    ASSUME NEW rows, IsFiniteSet(rows), NEW s \in SUBSET rows
    PROVE  /\ Cardinality(s) \in Nat /\ Cardinality(s) <= Cardinality(rows)
           /\ Cardinality(s) = 0 <=> s = {}
           /\ s # {} => /\ First(s) \in s /\ s \ {First(s)} \in SUBSET rows
                        /\ Cardinality(s \ {First(s)}) = Cardinality(s) - 1
  <1>1. IsFiniteSet(s) /\ Cardinality(s) \in Nat /\ Cardinality(s) <= Cardinality(rows)
        /\ (Cardinality(s) = 0 <=> s = {})
    BY FS_Subset, FS_CardinalityType, FS_EmptySet
  <1>2. s # {} => First(s) \in s
    BY DEF First
  <1>3. s # {} => Cardinality(s \ {First(s)}) = Cardinality(s) - 1
    BY <1>1, <1>2, FS_RemoveElement
  <1> QED BY <1>1, <1>2, <1>3

LEMMA SumExists ==
    ASSUME NEW fr, NEW x, NEW stage, NEW rows, IsFiniteSet(rows), NEW b \in Nat
    PROVE  \E f : IsSum(f, fr, x, stage, rows, b)
  <1> DEFINE G == {k \in Nat : \E f : IsSum(f, fr, x, stage, rows, k)}
             Upto(k) == {t \in SUBSET rows : Cardinality(t) <= k}
             With(f, s) == IF s = {} THEN 0 ELSE f[s \ {First(s)}] + fr[<<x, stage, First(s)>>]
  <1>1. 0 \in G
    <2> DEFINE f == [s \in Upto(0) |-> 0]
    <2>1. ASSUME NEW s \in Upto(0) PROVE s = {}
      <3>1. Cardinality(s) \in Nat /\ (Cardinality(s) = 0 => s = {}) /\ Cardinality(s) <= 0
        BY SubsetParts
      <3> QED BY <3>1
    <2>2. f = [s \in Upto(0) |-> With(f, s)]
      BY <2>1
    <2> HIDE DEF f
    <2>3. IsSum(f, fr, x, stage, rows, 0)
      BY <2>2 DEF IsSum
    <2> QED BY <2>3
  <1>2. \A n \in 1 .. b : n - 1 \in G => n \in G
    <2> SUFFICES ASSUME NEW n \in 1 .. b, n - 1 \in G PROVE n \in G
      OBVIOUS
    <2>1. PICK f : IsSum(f, fr, x, stage, rows, n - 1)
      OBVIOUS
    <2>2. \A s \in Upto(n - 1) : f[s] = With(f, s)
      BY <2>1 DEF IsSum
    <2> DEFINE h == [s \in Upto(n) |-> With(f, s)]
    <2>3. ASSUME NEW s \in Upto(n), s # {} PROVE f[s \ {First(s)}] = h[s \ {First(s)}]
      <3> DEFINE r == s \ {First(s)}
      <3>1. r \in SUBSET rows /\ Cardinality(r) = Cardinality(s) - 1 /\ Cardinality(s) \in Nat
        BY <2>3, SubsetParts
      <3> HIDE DEF r
      <3>2. r \in Upto(n - 1) /\ r \in Upto(n)
        BY <3>1
      <3>3. h[r] = f[r]
        BY <2>2, <3>2
      <3> QED BY <3>3 DEF r
    <2>4. h = [s \in Upto(n) |-> With(h, s)]
      BY <2>3
    <2> HIDE DEF h
    <2>5. IsSum(h, fr, x, stage, rows, n)
      BY <2>4 DEF IsSum
    <2>6. n \in Nat
      OBVIOUS
    <2> QED BY <2>5, <2>6
  <1> HIDE DEF G
  <1>3. b \in G
    BY <1>1, <1>2, UpTo
  <1> QED BY <1>3 DEF G

Adds(f, fr, x, stage, rows) ==
    \A s \in SUBSET rows :
        f[s] = IF s = {} THEN 0 ELSE f[s \ {First(s)}] + fr[<<x, stage, First(s)>>]

LEMMA SumTurns ==
    ASSUME NEW fr, NEW x, NEW stage, NEW rows, IsFiniteSet(rows)
    PROVE  \E f : SumUp(fr, x, stage, rows) = f[rows] /\ Adds(f, fr, x, stage, rows)
  <1> DEFINE P(f) == f = [s \in SUBSET rows |->
                             IF s = {} THEN 0 ELSE f[s \ {First(s)}] + fr[<<x, stage, First(s)>>]]
             f == CHOOSE f : P(f)
  <1>1. SumUp(fr, x, stage, rows) = f[rows]
    BY DEF SumUp, FoldSet, MapThenFoldSet, First
  <1>2. \E g : P(g)
    <2>1. Cardinality(rows) \in Nat
      BY FS_CardinalityType
    <2>2. PICK g : IsSum(g, fr, x, stage, rows, Cardinality(rows))
      BY <2>1, SumExists
    <2>3. {t \in SUBSET rows : Cardinality(t) <= Cardinality(rows)} = SUBSET rows
      BY SubsetParts
    <2>4. P(g)
      BY <2>2, <2>3 DEF IsSum
    <2> HIDE DEF P
    <2> QED BY <2>4
  <1>3. P(f)
    <2> HIDE DEF P
    <2> QED BY <1>2
  <1> HIDE DEF f
  <1>4. Adds(f, fr, x, stage, rows)
    BY <1>3 DEF Adds
  <1> QED BY <1>1, <1>4

\* A sum of integers is one, and depends on the rewards of its rows alone.
LEMMA SumParts ==
    ASSUME NEW fr, NEW gr, NEW x, NEW stage, NEW rows, IsFiniteSet(rows),
           \A r \in rows : fr[<<x, stage, r>>] \in Int /\ gr[<<x, stage, r>>] = fr[<<x, stage, r>>]
    PROVE  /\ SumUp(fr, x, stage, rows) \in Int
           /\ SumUp(gr, x, stage, rows) = SumUp(fr, x, stage, rows)
  <1>1. PICK f : SumUp(fr, x, stage, rows) = f[rows] /\ Adds(f, fr, x, stage, rows)
    BY SumTurns
  <1>2. PICK g : SumUp(gr, x, stage, rows) = g[rows] /\ Adds(g, gr, x, stage, rows)
    BY SumTurns
  <1> DEFINE G == {n \in Nat : \A s \in SUBSET rows :
                     Cardinality(s) = n => f[s] \in Int /\ g[s] = f[s]}
  <1>3. 0 \in G
    <2>1. \A s \in SUBSET rows : Cardinality(s) = 0 => s = {}
      BY SubsetParts
    <2>2. f[{}] = 0 /\ g[{}] = 0
      BY <1>1, <1>2 DEF Adds
    <2> QED BY <2>1, <2>2
  <1>4. ASSUME NEW n \in 1 .. Cardinality(rows), n - 1 \in G PROVE n \in G
    <2> SUFFICES ASSUME NEW s \in SUBSET rows, Cardinality(s) = n
                 PROVE  f[s] \in Int /\ g[s] = f[s]
      OBVIOUS
    <2> DEFINE r == s \ {First(s)}
    <2>1. s # {} /\ First(s) \in rows /\ r \in SUBSET rows /\ Cardinality(r) = n - 1
      BY SubsetParts
    <2>2. f[r] \in Int /\ g[r] = f[r]
      BY <1>4, <2>1
    <2>3. f[s] = f[r] + fr[<<x, stage, First(s)>>] /\ g[s] = g[r] + gr[<<x, stage, First(s)>>]
      BY <1>1, <1>2, <2>1 DEF Adds
    <2>4. fr[<<x, stage, First(s)>>] \in Int
          /\ gr[<<x, stage, First(s)>>] = fr[<<x, stage, First(s)>>]
      BY <2>1
    <2> HIDE DEF r
    <2> QED BY <2>2, <2>3, <2>4
  <1>5. Cardinality(rows) \in Nat
    BY FS_CardinalityType
  <1>6. Cardinality(rows) \in G
    <2> HIDE DEF G
    <2> QED BY <1>3, <1>4, <1>5, UpTo
  <1> QED BY <1>1, <1>2, <1>6

-----------------------------------------------------------------------------
(* The best candidate leads on the train rows *)

\* The parts of Selectable and of the comparison, of the frames fr.
TrainKey(x, r) == <<x, TrainStage(x), r>>
FullIn(fr, x)  == \A r \in Range(TrainRows) : TrainKey(x, r) \in DOMAIN fr
TotalIn(fr, x) == SumUp(fr, x, TrainStage(x), Range(TrainRows))
Leading == {"accepted", "full_train_evaluated"}
SelectableIn(fr, row, x) ==
    /\ row.train /\ \E r \in Range(TrainRows) : TrainKey(x, r) \in DOMAIN fr
    /\ x = Seed \/ row.status \in Leading

\* Whoever is selectable is the best, or has been compared with it.
Lead(fr, cand, best) ==
    \A x \in DOMAIN cand : SelectableIn(fr, cand[x], x) =>
        /\ best \in DOMAIN cand /\ cand[best].train
        /\ x = best \/ (FullIn(fr, x) /\ FullIn(fr, best) /\ TotalIn(fr, best) >= TotalIn(fr, x))

Numbers(fr) == \A f \in DOMAIN fr : fr[f] \in Int

LEMMA RowsFinite == Range(TrainRows) = 0 .. NTrain - 1 /\ IsFiniteSet(Range(TrainRows))
                    /\ Cardinality(Range(TrainRows)) = NTrain
  <1>1. NTrain \in Nat \ {0}
    BY GepaAssumption
  <1>2. ASSUME NEW r \in 0 .. NTrain - 1 PROVE r \in Range(TrainRows)
    <2>1. r + 1 \in 1 .. NTrain /\ r = (r + 1) - 1
      BY <1>1
    <2> QED BY <2>1 DEF Range, TrainRows
  <1>3. Range(TrainRows) \subseteq 0 .. NTrain - 1
    BY <1>1 DEF Range, TrainRows
  <1>4. Range(TrainRows) = 0 .. NTrain - 1
    BY <1>2, <1>3
  <1>5. 0 \in Int /\ NTrain - 1 \in Int /\ ~(0 > NTrain - 1) /\ NTrain - 1 - 0 + 1 = NTrain
    BY <1>1
  <1>6. IsFiniteSet(0 .. NTrain - 1) /\ Cardinality(0 .. NTrain - 1) = NTrain
    BY <1>5, FS_Interval
  <1> QED BY <1>4, <1>6

LEMMA TotalIsInteger == ASSUME NEW fr, Numbers(fr), NEW x, FullIn(fr, x)
                        PROVE  TotalIn(fr, x) \in Int
  BY RowsFinite, SumParts DEF Numbers, FullIn, TotalIn, TrainKey

\* Frames of candidates that are not trained, or of another stage, do not matter.
LEMMA LeadStays ==
    ASSUME NEW fr, NEW gr, NEW cand, NEW best, Lead(fr, cand, best), Numbers(fr),
           \A x \in DOMAIN cand : cand[x].train =>
             \A r \in Range(TrainRows) :
               /\ TrainKey(x, r) \in DOMAIN gr <=> TrainKey(x, r) \in DOMAIN fr
               /\ TrainKey(x, r) \in DOMAIN fr => gr[TrainKey(x, r)] = fr[TrainKey(x, r)]
    PROVE  Lead(gr, cand, best)
  <1> SUFFICES ASSUME NEW x \in DOMAIN cand, SelectableIn(gr, cand[x], x)
               PROVE  /\ best \in DOMAIN cand /\ cand[best].train
                      /\ x = best \/ (FullIn(gr, x) /\ FullIn(gr, best)
                                      /\ TotalIn(gr, best) >= TotalIn(gr, x))
    BY DEF Lead
  <1>1. SelectableIn(fr, cand[x], x) /\ cand[x].train
    BY DEF SelectableIn
  <1>2. best \in DOMAIN cand /\ cand[best].train
    BY <1>1 DEF Lead
  <1>3. ASSUME NEW y \in {x, best}, FullIn(fr, y)
        PROVE  FullIn(gr, y) /\ TotalIn(gr, y) = TotalIn(fr, y)
    <2>1. y \in DOMAIN cand /\ cand[y].train
      BY <1>1, <1>2
    <2>2. FullIn(gr, y)
      BY <2>1, <1>3 DEF FullIn
    <2>3. \A r \in Range(TrainRows) : fr[<<y, TrainStage(y), r>>] \in Int
             /\ gr[<<y, TrainStage(y), r>>] = fr[<<y, TrainStage(y), r>>]
      BY <2>1, <1>3 DEF FullIn, TrainKey, Numbers
    <2>4. IsFiniteSet(Range(TrainRows))
      BY RowsFinite
    <2>5. SumUp(gr, y, TrainStage(y), Range(TrainRows)) = SumUp(fr, y, TrainStage(y), Range(TrainRows))
      BY <2>3, <2>4, SumParts
    <2> QED BY <2>2, <2>5 DEF TotalIn
  <1> QED BY <1>1, <1>2, <1>3 DEF Lead

LEMMA LeadRejected ==
    ASSUME NEW fr, NEW cand, NEW best, Lead(fr, cand, best), NEW x \in DOMAIN cand, x # Seed,
           NEW new, DOMAIN new = DOMAIN cand, new[x].status \notin Leading, new[x].train,
           \A y \in DOMAIN cand : y # x => new[y] = cand[y]
    PROVE  Lead(fr, new, best)
  BY DEF Lead, SelectableIn

\* Who is accepted leads, and whoever was led is led still.
LEMMA LeadAccepted ==
    ASSUME NEW fr, NEW cand, NEW best, Lead(fr, cand, best), Numbers(fr), None \notin DOMAIN cand,
           NEW x \in DOMAIN cand, FullIn(fr, x), FullIn(fr, Or(best, Seed)),
           TotalIn(fr, x) >= TotalIn(fr, Or(best, Seed)),
           NEW new, DOMAIN new = DOMAIN cand, new[x].train,
           \A y \in DOMAIN cand : y # x => new[y] = cand[y]
    PROVE  Lead(fr, new, x)
  <1> SUFFICES ASSUME NEW y \in DOMAIN cand, SelectableIn(fr, new[y], y), y # x
               PROVE  FullIn(fr, y) /\ TotalIn(fr, x) >= TotalIn(fr, y)
    BY DEF Lead
  <1>1. SelectableIn(fr, cand[y], y)
    OBVIOUS
  <1>2. Or(best, Seed) = best
    BY <1>1 DEF Lead, Or
  <1>3. y = best \/ (FullIn(fr, y) /\ TotalIn(fr, best) >= TotalIn(fr, y))
    BY <1>1 DEF Lead
  <1>4. CASE y = best
    BY <1>2, <1>4
  <1>5. CASE FullIn(fr, y) /\ TotalIn(fr, best) >= TotalIn(fr, y)
    <2>1. TotalIn(fr, x) \in Int /\ TotalIn(fr, y) \in Int /\ TotalIn(fr, best) \in Int
      BY <1>2, <1>5, TotalIsInteger
    <2> QED BY <1>2, <1>5, <2>1
  <1> QED BY <1>3, <1>4, <1>5

\* A change of the table that selects nobody new.
LEMMA LeadKept ==
    ASSUME NEW fr, NEW cand, NEW best, Lead(fr, cand, best), NEW new, DOMAIN cand \subseteq DOMAIN new,
           \A x \in DOMAIN cand : /\ new[x].train = cand[x].train
                                  /\ new[x].status \in Leading => new[x].status = cand[x].status,
           \A x \in DOMAIN new \ DOMAIN cand : ~new[x].train
    PROVE  Lead(fr, new, best)
  BY DEF Lead, SelectableIn

-----------------------------------------------------------------------------
(* The inductive invariant *)

CursorFields == {"phase", "gen", "queue", "pidx", "hidx", "reg", "cand", "best", "selected",
                 "heldoutBest", "deployment", "parent", "active", "pending", "count", "run",
                 "samples"}
EvalFields   == {"cand", "rows", "scored", "failed", "offset"}
Proposed == [payload : Payloads, parent : Ids \cup {None}]
RolloutStages == Stage \ {"proposer"}
Maybe(S) == S \cup {None}

\* The candidate table: the records of the registered candidates; a heldout
\* score stands for a frame of every heldout row.
CandOK(cand, reg) ==
    /\ reg \in Seq(Ids) /\ Range(reg) = DOMAIN cand
    /\ \A x \in DOMAIN cand : cand[x] \in CandidateRow
    /\ \A x \in DOMAIN cand : cand[x].held => HasFrames(x, "heldout", HeldoutRows)

\* The incumbents are registered, and while there is none nothing is scored on heldout rows.
BestOK(cand, best, selected, heldoutBest) ==
    /\ {best, selected, heldoutBest} \subseteq Maybe(DOMAIN cand)
    /\ best = None => \A x \in DOMAIN cand : ~cand[x].held /\ (x = Seed => ~cand[x].train)

\* One evaluation of a stage: a scored row has its frame.
EvalOK(cand, stage, e) ==
    /\ DOMAIN e = EvalFields
    /\ e.cand \in DOMAIN cand /\ e.offset \in Nat /\ Plain(e.rows)
    /\ \A r \in e.scored : <<e.cand, stage, r>> \in DOMAIN frames
    /\ stage = "heldout" => e.rows = HeldoutRows
    /\ stage \in {"candidate_minibatch", "candidate_full_train"} => e.cand # Seed
    /\ stage = "candidate_minibatch" => ~cand[e.cand].train

ActiveOK(cand, best, active) ==
    /\ DOMAIN active = {"stage", "gen", "evals"}
    /\ Plain(active.evals)
    /\ \A i \in DOMAIN active.evals : EvalOK(cand, active.stage, active.evals[i])
    /\ active.stage = "heldout" => active.evals # <<>> /\ best # None
    /\ active.stage = "none" => active = NoActive
    /\ active.stage = "seed_full_train" => best = None

\* No candidate is evaluated on the train rows again.
Untrained(cand, active) ==
    active.stage = "candidate_full_train" =>
        \A i \in DOMAIN active.evals : ~cand[active.evals[i].cand].train

\* What a cursor holds, whatever its phase.
Body(c) ==
    /\ DOMAIN c = CursorFields
    /\ c.gen \in Nat /\ c.pidx \in Nat /\ c.hidx \in Nat
    /\ c.queue \in Seq(Proposed)
    /\ Seed \in DOMAIN c.cand
    /\ CandOK(c.cand, c.reg)
    /\ BestOK(c.cand, c.best, c.selected, c.heldoutBest)
    /\ ActiveOK(c.cand, c.best, c.active)
    /\ Lead(frames, c.cand, c.best) /\ Numbers(frames)

Going == {"RolloutQueueing", "RolloutRunning", "Evaluating"}

\* The phase, the stage of the active evaluation, the run machine.
Stands(phase, stage, run, hidx, best) ==
    \/ phase = "SeedFullTrain" /\ stage = "none" /\ run = "Ready" /\ best = None
    \/ phase = "SeedFullTrain" /\ stage = "seed_full_train" /\ run = "RolloutRunning"
    \/ phase = "GenerationStart" /\ stage = "none" /\ run = "Ready"
    \/ phase = "ProposerWaiting" /\ stage \in {"none", "parent_minibatch_reference"}
         /\ run = "RolloutQueueing"
    \/ phase = "ProposerWaiting" /\ stage = "proposer" /\ run = "Proposing"
    \/ phase = "CandidateMinibatch"
         /\ stage \in {"parent_minibatch_reference", "candidate_minibatch"} /\ run \in Going
    \/ phase = "CandidateFullTrain" /\ stage = "candidate_full_train" /\ run \in Going
    \/ phase = "Heldout" /\ stage = "none" /\ run = IF hidx = 0 THEN "Ready" ELSE "Evaluating"
    \/ phase = "Heldout" /\ stage = "heldout" /\ run \in {"RolloutRunning", "Evaluating"}
    \/ phase = "Finalizing" /\ stage = "none"
         /\ (run = "Evaluating" \/ (run = "Ready" /\ best = None))

\* The pending job: a batch of the active stage, or the turn of the proposer.
PendingOK(pending, stage, gen) ==
    /\ pending[1] \in RolloutStages \cup {"none", "proposer"}
    /\ pending[1] = "none" => pending = NoJob
    /\ pending[1] \in RolloutStages => pending[1] = stage /\ Plain(pending[2])
    /\ pending[1] = "proposer" <=> stage = "proposer"
    /\ stage = "proposer" => gen < MaxGenerations

EndOK(c) ==
    /\ c.phase \in Terminal /\ c.run = c.phase
    /\ c.phase = "Completed" =>
         c.deployment = c.best /\ HasFrames(c.best, "heldout", HeldoutRows)

\* A cursor on its way.
Live(c) ==
    /\ Body(c)
    /\ Stands(c.phase, c.active.stage, c.run, c.hidx, c.best)
    /\ PendingOK(c.pending, c.active.stage, c.gen)
    /\ Untrained(c.cand, c.active)

CursorOK(c) ==
    \/ c = NewCursor
    \/ DOMAIN c = CursorFields /\ EndOK(c) /\ c.pending = NoJob
    \/ Live(c)

\* The outcome of a proposer's turn, or of a batch: a number for each of its rows.
JobOK(k, j) ==
    j.status = "completed" =>
        /\ k[1] = "proposer" => j.result \in Seq(Proposed)
        /\ IsRollout(k) => j.result \in [Range(k[2]) -> Int]

GInv ==
    /\ CursorOK(cur)
    /\ \A k \in DOMAIN jobs : JobOK(k, jobs[k])
    /\ cur.pending = NoJob \/ cur.pending \in DOMAIN jobs
    /\ Numbers(frames)

-----------------------------------------------------------------------------
(* The writes of a tick, or the first of them, keep the invariant. *)

Kinds == {"cand", "round", "job", "save", "settle", "fail"}

\* A write that may be made whatever came before it.
WriteOK(w) ==
    /\ w.kind \in Kinds
    /\ w.kind = "save" => CursorOK(w.to)
    /\ w.kind = "settle" => JobOK(w.id, w.to)

\* The job a saved cursor waits for is planned before the cursor is saved.
Follows(ws, i) ==
    ws[i].kind = "save" /\ ws[i].to.pending # NoJob =>
        \/ ws[i].to.pending \in DOMAIN jobs
        \/ \E j \in 1 .. i - 1 : ws[j].kind = "job" /\ ws[j].id = ws[i].to.pending

Sound(ws) ==
    /\ Plain(ws)
    /\ \A i \in 1 .. Len(ws) : WriteOK(ws[i]) /\ Follows(ws, i)

\* What is written before the n-th write of ws.
Holds(s, ws, n) ==
    /\ DOMAIN s = {"cur", "candLog", "roundLog", "jobs", "error"}
    /\ CursorOK(s.cur)
    /\ \A k \in DOMAIN s.jobs : JobOK(k, s.jobs[k])
    /\ s.cur.pending = NoJob \/ s.cur.pending \in DOMAIN s.jobs
    /\ DOMAIN jobs \subseteq DOMAIN s.jobs
    /\ s.error = None => \A j \in 1 .. n : ws[j].kind = "job" => ws[j].id \in DOMAIN s.jobs

LEMMA WriteHolds ==
    ASSUME NEW ws, Sound(ws), NEW n \in 1 .. Len(ws), NEW s, Holds(s, ws, n - 1)
    PROVE  Holds(Write(s, ws[n]), ws, n)
  <1> DEFINE w == ws[n]
             t == Write(s, w)
  <1>1. n \in Nat /\ WriteOK(w) /\ Follows(ws, n) /\ n - 1 \in Nat
        /\ \A j \in 1 .. n : j # n => j \in 1 .. n - 1
    BY PlainParts DEF Sound
  <1>2. ASSUME s.error # None PROVE Holds(t, ws, n)
    BY <1>2 DEF Write, Holds
  <1>3. ASSUME s.error = None, w.kind \in {"cand", "round", "fail"}
        PROVE  Holds(t, ws, n)
    <2>1. /\ DOMAIN t = DOMAIN s /\ t.cur = s.cur /\ t.jobs = s.jobs
      BY <1>3 DEF Write, Holds
    <2>2. t.error = None => \A j \in 1 .. n : ws[j].kind = "job" => ws[j].id \in DOMAIN s.jobs
      BY <1>1, <1>3 DEF Holds
    <2> HIDE DEF t, w
    <2> QED BY <2>1, <2>2 DEF Holds
  <1>4. ASSUME s.error = None, w.kind = "job" PROVE Holds(t, ws, n)
    <2>1. DOMAIN t = DOMAIN s /\ t.cur = s.cur /\ t.jobs = Planned(s.jobs, w.id)
      BY <1>4 DEF Write, Holds
    <2>2. /\ DOMAIN t.jobs = DOMAIN s.jobs \cup {w.id}
          /\ \A k \in DOMAIN s.jobs : t.jobs[k] = s.jobs[k]
          /\ w.id \notin DOMAIN s.jobs => t.jobs[w.id] = QueuedJob
      <3> HIDE DEF t, w
      <3>1. CASE w.id \in DOMAIN s.jobs
        BY <2>1, <3>1 DEF Planned
      <3>2. CASE w.id \notin DOMAIN s.jobs
        BY <2>1, <3>2 DEF Planned, Put
      <3> QED BY <3>1, <3>2
    <2>3. ASSUME NEW k \in DOMAIN t.jobs PROVE JobOK(k, t.jobs[k])
      <3>1. CASE k \in DOMAIN s.jobs
        <4> HIDE DEF t
        <4> QED BY <2>2, <3>1 DEF Holds
      <3>2. CASE k \notin DOMAIN s.jobs
        <4>1. t.jobs[k] = QueuedJob
          <5> HIDE DEF t, w
          <5> QED BY <2>2, <2>3, <3>2
        <4> HIDE DEF t
        <4> QED BY <4>1 DEF JobOK, QueuedJob
      <3> QED BY <3>1, <3>2
    <2>4. \A j \in 1 .. n : ws[j].kind = "job" => ws[j].id \in DOMAIN t.jobs
      <3>1. \A j \in 1 .. n - 1 : ws[j].kind = "job" => ws[j].id \in DOMAIN s.jobs
        BY <1>4 DEF Holds
      <3>2. \A j \in 1 .. n : j = n \/ j \in 1 .. n - 1
        BY <1>1
      <3> HIDE DEF t
      <3> QED BY <2>2, <3>1, <3>2
    <2> HIDE DEF t, w
    <2> QED BY <2>1, <2>2, <2>3, <2>4 DEF Holds
  <1>5. ASSUME s.error = None, w.kind = "settle" PROVE Holds(t, ws, n)
    <2>1. DOMAIN t = DOMAIN s /\ t.cur = s.cur /\ t.jobs = [s.jobs EXCEPT ![w.id] = w.to]
      BY <1>5 DEF Write, Holds
    <2>2. DOMAIN t.jobs = DOMAIN s.jobs
      <3> HIDE DEF t
      <3> QED BY <2>1
    <2>3. \A k \in DOMAIN t.jobs : JobOK(k, t.jobs[k])
      <3>1. JobOK(w.id, w.to)
        BY <1>1, <1>5 DEF WriteOK
      <3> HIDE DEF t, w
      <3> QED BY <2>1, <2>2, <3>1 DEF Holds
    <2>4. \A j \in 1 .. n : ws[j].kind = "job" => ws[j].id \in DOMAIN s.jobs
      BY <1>1, <1>5 DEF Holds
    <2> HIDE DEF t, w
    <2> QED BY <2>1, <2>2, <2>3, <2>4 DEF Holds
  <1>6. ASSUME s.error = None, w.kind = "save" PROVE Holds(t, ws, n)
    <2>1. DOMAIN t = DOMAIN s /\ t.cur = w.to /\ t.jobs = s.jobs
      BY <1>6 DEF Write, Holds
    <2>2. CursorOK(w.to)
      BY <1>1, <1>6 DEF WriteOK
    <2>3. w.to.pending = NoJob \/ w.to.pending \in DOMAIN s.jobs
      BY <1>1, <1>6 DEF Follows, Holds
    <2>4. \A j \in 1 .. n : ws[j].kind = "job" => ws[j].id \in DOMAIN s.jobs
      BY <1>1, <1>6 DEF Holds
    <2> HIDE DEF t, w
    <2> QED BY <2>1, <2>2, <2>3, <2>4 DEF Holds
  <1>7. w.kind \in Kinds
    BY <1>1 DEF WriteOK
  <1> QED BY <1>2, <1>3, <1>4, <1>5, <1>6, <1>7 DEF Kinds

LEMMA WrittenHolds ==
    ASSUME GInv, NEW ws, Sound(ws)
    PROVE  Holds(Written(ws), ws, Len(ws))
  <1> DEFINE base == [cur |-> cur, candLog |-> candLog, roundLog |-> roundLog,
                      jobs |-> jobs, error |-> error]
  <1>1. Len(ws) \in Nat
    BY PlainParts DEF Sound
  <1>2. Holds(base, ws, 0)
    BY DEF Holds, GInv
  <1>3. Written(ws) = WriteLoopResult(base, ws)
    BY DEF Written, Fold, WriteLoopResult, IsWriteLoop
  <1> HIDE DEF base
  <1>4. PICK f : /\ f[0] = base /\ WriteLoopResult(base, ws) = f[Len(ws)]
                 /\ \A n \in 1 .. Len(ws) : f[n] = Write(f[n - 1], ws[n])
    BY ONLY <1>1, WriteLoopTurns
  <1> DEFINE G == {n \in Nat : Holds(f[n], ws, n)}
  <1>5. 0 \in G
    BY <1>2, <1>4
  <1>6. \A n \in 1 .. Len(ws) : n - 1 \in G => n \in G
    BY <1>4, WriteHolds
  <1> HIDE DEF G
  <1>7. \A n \in 0 .. Len(ws) : n \in G
    BY <1>1, <1>5, <1>6, UpTo
  <1>8. Len(ws) \in G
    BY <1>1, <1>7
  <1> QED BY <1>3, <1>4, <1>8 DEF G

LEMMA StoreHolds ==
    ASSUME GInv, NEW ws, Sound(ws), Store(ws), frames' = frames
    PROVE  GInv'
  <1> DEFINE s == Written(ws)
  <1>1. Holds(s, ws, Len(ws))
    BY WrittenHolds
  <1>2. cur' = s.cur /\ jobs' = s.jobs
    BY DEF Store
  <1> HIDE DEF s
  <1>3. CursorOK(cur') /\ (\A k \in DOMAIN jobs' : JobOK(k, jobs'[k]))
        /\ (cur'.pending = NoJob \/ cur'.pending \in DOMAIN jobs')
    BY <1>1, <1>2 DEF Holds
  <1>4. CursorOK(cur)'
    BY <1>3 DEF CursorOK, EndOK, Live, Untrained, Body, CandOK, ActiveOK, EvalOK, HasFrames
  <1> QED BY <1>3, <1>4 DEF GInv, JobOK

LEMMA SoundPrefix ==
    ASSUME NEW ws, Sound(ws), NEW n \in 0 .. Len(ws) - 1
    PROVE  Sound(SubSeq(ws, 1, n))
  <1> DEFINE p == SubSeq(ws, 1, n)
  <1>1. Len(ws) \in Nat /\ ws \in Seq(Range(ws))
    BY PlainParts DEF Sound, Plain
  <1>2. p \in Seq(Range(ws)) /\ Len(p) = n /\ \A i \in 1 .. n : p[i] = ws[i]
    BY <1>1
  <1>3. Plain(p)
    BY <1>2, PlainIsSequence
  <1> HIDE DEF p
  <1>4. \A i \in 1 .. n : i \in 1 .. Len(ws) /\ \A j \in 1 .. i - 1 : j \in 1 .. n
    BY <1>1
  <1>5. ASSUME NEW i \in 1 .. n PROVE WriteOK(p[i]) /\ Follows(p, i)
    BY <1>2, <1>4 DEF Sound, Follows
  <1> QED BY <1>2, <1>3, <1>5 DEF Sound, p

\* All the writes of a tick, or a prefix of them.
LEMMA TickHolds == ASSUME GInv, NEW ws, Sound(ws), Tick(ws) PROVE GInv'
  <1>1. frames' = frames /\ Writes(ws)
    BY DEF Tick
  <1>2. Complete(ws) \/ Dies(ws)
    BY <1>1 DEF Writes
  <1>3. CASE Complete(ws)
    BY <1>1, <1>3, StoreHolds DEF Complete
  <1>4. CASE Dies(ws)
    <2>1. PICK n \in 0 .. Len(ws) - 1 : Store(SubSeq(ws, 1, n))
      BY <1>4 DEF Dies
    <2>2. Sound(SubSeq(ws, 1, n))
      BY SoundPrefix
    <2> QED BY <1>1, <2>1, <2>2, StoreHolds
  <1> QED BY <1>2, <1>3, <1>4

\* Writes that touch neither the cursor nor the jobs.
Quiet(ws) == Plain(ws) /\ \A i \in 1 .. Len(ws) : ws[i].kind \in {"cand", "round", "fail"}

LEMMA QuietIsSound == ASSUME NEW ws, Quiet(ws) PROVE Sound(ws)
  BY DEF Quiet, Sound, WriteOK, Follows, Kinds

LEMMA QuietJoin == ASSUME NEW a, NEW b, Quiet(a), Quiet(b) PROVE Quiet(a \o b)
  <1> DEFINE S == Range(a) \cup Range(b)
             c == a \o b
  <1>1. a \in Seq(S) /\ b \in Seq(S)
    BY DEF Quiet, Plain
  <1> HIDE DEF S
  <1>2. c \in Seq(S) /\ Len(c) = Len(a) + Len(b) /\ Len(a) \in Nat /\ Len(b) \in Nat
    BY <1>1
  <1>3. ASSUME NEW i \in 1 .. Len(c) PROVE c[i].kind \in {"cand", "round", "fail"}
    <2>1. c[i] = IF i <= Len(a) THEN a[i] ELSE b[i - Len(a)]
      BY <1>1, <1>2
    <2>2. i <= Len(a) => i \in 1 .. Len(a)
      BY <1>2
    <2>3. ~(i <= Len(a)) => i - Len(a) \in 1 .. Len(b)
      BY <1>2
    <2> HIDE DEF c
    <2> QED BY <2>1, <2>2, <2>3 DEF Quiet
  <1>4. Plain(c)
    BY <1>2, PlainIsSequence
  <1> QED BY <1>3, <1>4 DEF Quiet

LEMMA SoundJoin == ASSUME NEW a, NEW b, Sound(a), Sound(b) PROVE Sound(a \o b)
  <1> DEFINE S == Range(a) \cup Range(b)
             c == a \o b
  <1>1. a \in Seq(S) /\ b \in Seq(S)
    BY DEF Sound, Plain
  <1> HIDE DEF S
  <1>2. c \in Seq(S) /\ Len(c) = Len(a) + Len(b) /\ Len(a) \in Nat /\ Len(b) \in Nat
    BY <1>1
  <1>3. /\ \A i \in 1 .. Len(a) : i \in 1 .. Len(c) /\ c[i] = a[i]
        /\ \A i \in 1 .. Len(b) : Len(a) + i \in 1 .. Len(c) /\ c[Len(a) + i] = b[i]
    BY <1>1, <1>2
  <1>4. \A i \in 1 .. Len(c) : i \in 1 .. Len(a) \/ (i - Len(a) \in 1 .. Len(b)
                                                      /\ i = Len(a) + (i - Len(a)))
    BY <1>2
  <1>5. Plain(c)
    BY <1>2, PlainIsSequence
  <1> HIDE DEF c
  <1>6. ASSUME NEW i \in 1 .. Len(a) PROVE WriteOK(c[i]) /\ Follows(c, i)
    <2>1. WriteOK(a[i]) /\ Follows(a, i) /\ c[i] = a[i]
      BY <1>3 DEF Sound
    <2>2. \A j \in 1 .. i - 1 : j \in 1 .. Len(a) /\ c[j] = a[j]
      BY <1>2, <1>3
    <2> QED BY <2>1, <2>2 DEF Follows
  <1>7. ASSUME NEW i \in 1 .. Len(b) PROVE WriteOK(c[Len(a) + i]) /\ Follows(c, Len(a) + i)
    <2>1. WriteOK(b[i]) /\ Follows(b, i) /\ c[Len(a) + i] = b[i]
      BY <1>3 DEF Sound
    <2>2. \A j \in 1 .. i - 1 : Len(a) + j \in 1 .. (Len(a) + i) - 1 /\ c[Len(a) + j] = b[j]
      BY <1>2, <1>3
    <2> QED BY <2>1, <2>2 DEF Follows
  <1>8. \A i \in 1 .. Len(c) : WriteOK(c[i]) /\ Follows(c, i)
    BY <1>4, <1>6, <1>7
  <1> QED BY <1>5, <1>8 DEF Sound, c

\* One save of a cursor without a pending job, or with one that is planned.
LEMMA SoundSave ==
    ASSUME NEW d, CursorOK(d), d.pending = NoJob \/ d.pending \in DOMAIN jobs
    PROVE  Sound(<<Save(d)>>)
  <1> DEFINE w == Save(d)
  <1>1. w.kind = "save" /\ w.to = d
    BY DEF Save
  <1> HIDE DEF w
  <1>2. Plain(<<w>>) /\ Len(<<w>>) = 1 /\ <<w>>[1] = w
    BY PlainOne
  <1> QED BY <1>1, <1>2 DEF Sound, WriteOK, Follows, Kinds, w

\* A job is planned and then the cursor that waits for it is saved.
LEMMA SoundPlan ==
    ASSUME NEW d, CursorOK(d), NEW k, d.pending = k
    PROVE  Sound(<<PlanJob(k), Save(d)>>)
  <1> DEFINE w == Save(d)
             v == PlanJob(k)
  <1>1. w.kind = "save" /\ w.to = d /\ v.kind = "job" /\ v.id = k
    BY DEF Save, PlanJob
  <1> HIDE DEF w, v
  <1> DEFINE p == <<v, w>>
  <1>2. p \in Seq({v, w}) /\ Len(p) = 2 /\ p[1] = v /\ p[2] = w
    OBVIOUS
  <1> HIDE DEF p
  <1>3. Plain(p)
    BY <1>2, PlainIsSequence
  <1>4. Follows(p, 1)
    BY <1>1, <1>2 DEF Follows
  <1>5. Follows(p, 2)
    BY <1>1, <1>2 DEF Follows
  <1>6. WriteOK(v) /\ WriteOK(w)
    BY <1>1 DEF WriteOK, Kinds
  <1>7. \A i \in 1 .. Len(p) : i = 1 \/ i = 2
    BY <1>2
  <1> QED BY <1>2, <1>3, <1>4, <1>5, <1>6, <1>7 DEF Sound, p, v, w

LEMMA QuietFail == ASSUME NEW why PROVE Quiet(<<Fail(why)>>)
  <1> DEFINE w == Fail(why)
  <1>1. w.kind = "fail"
    BY DEF Fail
  <1> HIDE DEF w
  <1>2. Plain(<<w>>) /\ Len(<<w>>) = 1 /\ <<w>>[1] = w
    BY PlainOne
  <1> QED BY <1>1, <1>2 DEF Quiet, w

LEMMA QuietNothing == Quiet(<<>>)
  <1>1. <<>> \in Seq({}) /\ Len(<<>>) = 0
    OBVIOUS
  <1>2. Plain(<<>>)
    BY <1>1, PlainIsSequence
  <1>3. \A i \in 1 .. 0 : FALSE
    OBVIOUS
  <1> QED BY <1>1, <1>2, <1>3 DEF Quiet

LEMMA QuietLogs ==
    ASSUME NEW x, NEW a, NEW b, NEW c
    PROVE  /\ Quiet(<<LogCand(x, a)>>) /\ Quiet(<<LogCand(x, a), LogCand(x, b)>>)
           /\ Quiet(<<LogCand(x, a), LogCand(x, b), LogCand(x, c)>>)
           /\ Quiet(<<LogRound(x, a), LogRound(x, b), LogRound(x, c)>>)
  <1>1. ASSUME NEW u, NEW v, NEW w, u.kind \in {"cand", "round"},
               v.kind \in {"cand", "round"}, w.kind \in {"cand", "round"}
        PROVE  Quiet(<<u>>) /\ Quiet(<<u, v>>) /\ Quiet(<<u, v, w>>)
    <2>1. Quiet(<<u>>)
      BY <1>1, PlainOne DEF Quiet
    <2>2. ASSUME NEW S, S = {u, v, w}
          PROVE  Quiet(<<u, v>>) /\ Quiet(<<u, v, w>>)
      <3>1. \A k \in S : k.kind \in {"cand", "round", "fail"}
        BY <1>1, <2>2
      <3>2. <<u, v>> \in Seq(S) /\ Len(<<u, v>>) = 2
        BY <2>2
      <3>3. <<u, v, w>> \in Seq(S) /\ Len(<<u, v, w>>) = 3
        BY <2>2
      <3>4. \A p \in Seq(S) : \A i \in 1 .. Len(p) : p[i] \in S
        OBVIOUS
      <3> QED BY <3>1, <3>2, <3>3, <3>4, PlainIsSequence DEF Quiet
    <2> QED BY <2>1, <2>2
  <1>2. ASSUME NEW s PROVE LogCand(x, s).kind \in {"cand", "round"}
                           /\ LogRound(x, s).kind \in {"cand", "round"}
    BY DEF LogCand, LogRound
  <1>3. /\ Quiet(<<LogCand(x, a)>>) /\ Quiet(<<LogCand(x, a), LogCand(x, b)>>)
        /\ Quiet(<<LogCand(x, a), LogCand(x, b), LogCand(x, c)>>)
    BY <1>1, <1>2
  <1>4. Quiet(<<LogRound(x, a), LogRound(x, b), LogRound(x, c)>>)
    <2> DEFINE r1 == LogRound(x, a)
               r2 == LogRound(x, b)
               r3 == LogRound(x, c)
    <2>1. r1.kind = "round" /\ r2.kind = "round" /\ r3.kind = "round"
      BY DEF LogRound
    <2> HIDE DEF r1, r2, r3
    <2>2. ASSUME NEW S, S = {r1, r2, r3} PROVE Quiet(<<r1, r2, r3>>)
      <3>1. \A k \in S : k.kind \in {"cand", "round", "fail"}
        BY <2>1, <2>2
      <3>2. <<r1, r2, r3>> \in Seq(S) /\ Len(<<r1, r2, r3>>) = 3
        BY <2>2
      <3>3. \A p \in Seq(S) : \A i \in 1 .. Len(p) : p[i] \in S
        OBVIOUS
      <3> QED BY <3>1, <3>2, <3>3, PlainIsSequence DEF Quiet
    <2>3. Quiet(<<r1, r2, r3>>)
      BY <2>2
    <2> QED BY <2>3 DEF r1, r2, r3
  <1> QED BY <1>3, <1>4

LEMMA SoundLogsSave ==
    ASSUME NEW d, CursorOK(d), d.pending = NoJob, NEW x, NEW a, NEW b
    PROVE  /\ Sound(<<LogCand(x, a), LogCand(x, b), Save(d)>>)
           /\ Sound(<<LogCand(x, a), Save(d)>>)
  <1> DEFINE w == Save(d)
             u == LogCand(x, a)
             v == LogCand(x, b)
  <1>1. w.kind = "save" /\ w.to = d /\ u.kind = "cand" /\ v.kind = "cand"
    BY DEF Save, LogCand
  <1> HIDE DEF u, v, w
  <1>2. WriteOK(u) /\ WriteOK(v) /\ WriteOK(w)
    BY <1>1 DEF WriteOK, Kinds
  <1>3. Sound(<<u, v, w>>)
    <2> DEFINE p == <<u, v, w>>
    <2>1. p \in Seq({u, v, w}) /\ Len(p) = 3 /\ p[1] = u /\ p[2] = v /\ p[3] = w
      OBVIOUS
    <2> HIDE DEF p
    <2>2. Plain(p) /\ \A i \in 1 .. Len(p) : p[i] \in {u, v, w}
      BY <2>1, PlainIsSequence
    <2>3. ASSUME NEW i \in 1 .. Len(p) PROVE WriteOK(p[i]) /\ Follows(p, i)
      BY <2>2, <1>2, <1>1 DEF Follows
    <2> QED BY <2>2, <2>3 DEF Sound, p
  <1>4. Sound(<<u, w>>)
    <2> DEFINE p == <<u, w>>
    <2>1. p \in Seq({u, w}) /\ Len(p) = 2 /\ p[1] = u /\ p[2] = w
      OBVIOUS
    <2> HIDE DEF p
    <2>2. Plain(p) /\ \A i \in 1 .. Len(p) : p[i] \in {u, w}
      BY <2>1, PlainIsSequence
    <2>3. ASSUME NEW i \in 1 .. Len(p) PROVE WriteOK(p[i]) /\ Follows(p, i)
      BY <2>2, <1>2, <1>1 DEF Follows
    <2> QED BY <2>2, <2>3 DEF Sound, p
  <1> QED BY <1>3, <1>4 DEF u, v, w

-----------------------------------------------------------------------------
(* The ends of handlers *)

LEMMA NoActiveParts == NoActive.stage = "none" /\ NoActive.evals = <<>> /\ Plain(<<>>)
                       /\ DOMAIN NoActive = {"stage", "gen", "evals"} /\ DOMAIN <<>> = {}
  <1>1. <<>> \in Seq({}) /\ DOMAIN <<>> = {}
    OBVIOUS
  <1>2. Plain(<<>>)
    BY <1>1, PlainIsSequence
  <1> QED BY <1>1, <1>2 DEF NoActive, Active

LEMMA NoActiveOK == ASSUME NEW cand, NEW best PROVE ActiveOK(cand, best, NoActive)
  BY NoActiveParts DEF ActiveOK

LEMMA NoPending == ASSUME NEW stage, stage # "proposer", NEW gen
                   PROVE  PendingOK(NoJob, stage, gen)
  BY DEF PendingOK, NoJob, RolloutStages, Stage

LEMMA NoneIsNotRegistered == ASSUME NEW c, Body(c) PROVE None \notin DOMAIN c.cand
                                                       /\ DOMAIN c.cand \subseteq Ids
  BY GepaAssumption DEF Body, CandOK, Range

LEMMA RunToParts ==
    ASSUME NEW c, DOMAIN c = CursorFields, NEW from, NEW to
    PROVE  LET d == RunTo(c, from, to) IN
        /\ DOMAIN d = CursorFields
        /\ d.gen = c.gen /\ d.queue = c.queue /\ d.pidx = c.pidx
        /\ d.hidx = c.hidx /\ d.reg = c.reg /\ d.cand = c.cand
        /\ d.best = c.best /\ d.selected = c.selected /\ d.heldoutBest = c.heldoutBest
        /\ d.active = c.active /\ d.pending = c.pending
        /\ d.phase = c.phase /\ d.deployment = c.deployment /\ d.parent = c.parent
        /\ d.count = c.count /\ d.samples = c.samples
        /\ d.run = IF c.run \in from THEN to ELSE c.run
  BY DEF RunTo, CursorFields

LEMMA ToProposerWaitingSound ==
    ASSUME NEW c, Body(c), c.pending = NoJob,
           c.active.stage \in {"none", "parent_minibatch_reference"},
           c.run \in {"RolloutQueueing", "Evaluating"}
    PROVE  Sound(ToProposerWaiting(c))
  <1> DEFINE b == RunTo(c, {"Evaluating"}, "RolloutQueueing")
             d == [b EXCEPT !.phase = "ProposerWaiting"]
  <1>1. DOMAIN c = CursorFields
    BY DEF Body
  <1>2. /\ DOMAIN b = CursorFields
        /\ b.gen = c.gen /\ b.queue = c.queue /\ b.pidx = c.pidx
        /\ b.hidx = c.hidx /\ b.reg = c.reg /\ b.cand = c.cand
        /\ b.best = c.best /\ b.selected = c.selected /\ b.heldoutBest = c.heldoutBest
        /\ b.active = c.active /\ b.pending = c.pending
        /\ b.run = "RolloutQueueing"
    BY <1>1, RunToParts
  <1> HIDE DEF b
  <1>3. /\ DOMAIN d = CursorFields
        /\ d.gen = c.gen /\ d.queue = c.queue /\ d.pidx = c.pidx
        /\ d.hidx = c.hidx /\ d.reg = c.reg /\ d.cand = c.cand
        /\ d.best = c.best /\ d.selected = c.selected /\ d.heldoutBest = c.heldoutBest
        /\ d.active = c.active /\ d.pending = c.pending
        /\ d.run = "RolloutQueueing" /\ d.phase = "ProposerWaiting"
    BY <1>2 DEF CursorFields
  <1> HIDE DEF d
  <1>4. Body(d)
    BY <1>3 DEF Body
  <1>5. CursorOK(d)
    BY <1>3, <1>4, NoPending DEF CursorOK, Live, Untrained, Stands
  <1>6. Sound(<<Save(d)>>)
    BY <1>3, <1>5, SoundSave
  <1> QED BY <1>6 DEF ToProposerWaiting, d, b

LEMMA GenerationBoundarySound ==
    ASSUME NEW c, Body(c), c.pending = NoJob, c.run = "RolloutQueueing"
    PROVE  Sound(GenerationBoundary(c))
  <1> DEFINE b == RunTo(c, {"RolloutQueueing"}, "Ready")
             d == [b EXCEPT !.phase = "GenerationStart", !.gen = @ + 1, !.pidx = 0,
                            !.queue = <<>>, !.active = NoActive]
  <1>1. DOMAIN c = CursorFields
    BY DEF Body
  <1>2. /\ DOMAIN b = CursorFields
        /\ b.gen = c.gen /\ b.queue = c.queue /\ b.pidx = c.pidx
        /\ b.hidx = c.hidx /\ b.reg = c.reg /\ b.cand = c.cand
        /\ b.best = c.best /\ b.selected = c.selected /\ b.heldoutBest = c.heldoutBest
        /\ b.active = c.active /\ b.pending = c.pending
        /\ b.run = "Ready"
    BY <1>1, RunToParts
  <1> HIDE DEF b
  <1>3. /\ DOMAIN d = CursorFields
        /\ d.hidx = c.hidx /\ d.reg = c.reg /\ d.cand = c.cand
        /\ d.best = c.best /\ d.selected = c.selected /\ d.heldoutBest = c.heldoutBest
        /\ d.pending = c.pending
        /\ d.run = "Ready" /\ d.phase = "GenerationStart" /\ d.gen = c.gen + 1
        /\ d.pidx = 0 /\ d.queue = <<>> /\ d.active = NoActive
    BY <1>2 DEF CursorFields
  <1> HIDE DEF d
  <1>4. Body(d)
    BY <1>3, NoActiveOK DEF Body
  <1>5. CursorOK(d)
    BY <1>3, <1>4, NoPending, NoActiveParts DEF CursorOK, Live, Untrained, Stands
  <1>6. Sound(<<Save(d)>>)
    BY <1>3, <1>5, SoundSave
  <1> QED BY <1>6 DEF GenerationBoundary, d, b

LEMMA ToPreHeldoutSound ==
    ASSUME NEW c, Body(c), c.pending = NoJob, c.run = "Ready"
    PROVE  Sound(ToPreHeldout(c))
  <1> DEFINE d == [c EXCEPT !.phase = "Heldout", !.selected = Or(@, c.best), !.hidx = 0,
                            !.active = NoActive]
  <1>1. DOMAIN c = CursorFields
    BY DEF Body
  <1>2. /\ DOMAIN d = CursorFields
        /\ d.gen = c.gen /\ d.queue = c.queue /\ d.pidx = c.pidx
        /\ d.reg = c.reg /\ d.cand = c.cand /\ d.best = c.best
        /\ d.heldoutBest = c.heldoutBest /\ d.pending = c.pending
        /\ d.run = "Ready" /\ d.phase = "Heldout" /\ d.hidx = 0 /\ d.active = NoActive
        /\ d.selected \in {c.selected, c.best}
    BY <1>1 DEF CursorFields, Or
  <1> HIDE DEF d
  <1>3. BestOK(d.cand, d.best, d.selected, d.heldoutBest)
    BY <1>2 DEF Body, BestOK
  <1>4. Body(d)
    BY <1>2, <1>3, NoActiveOK DEF Body
  <1>5. CursorOK(d)
    BY <1>2, <1>4, NoPending, NoActiveParts DEF CursorOK, Live, Untrained, Stands
  <1>6. Sound(<<Save(d)>>)
    BY <1>2, <1>5, SoundSave
  <1> QED BY <1>6 DEF ToPreHeldout, d

LEMMA ToFinalizingSound ==
    ASSUME NEW c, Body(c), c.pending = NoJob,
           c.run \in {"RolloutRunning", "Evaluating"} \/ (c.run = "Ready" /\ c.best = None)
    PROVE  Sound(ToFinalizing(c))
  <1> DEFINE b == RunTo(c, {"RolloutRunning"}, "Evaluating")
             d == [b EXCEPT !.phase = "Finalizing", !.active = NoActive]
  <1>1. DOMAIN c = CursorFields
    BY DEF Body
  <1>2. /\ DOMAIN b = CursorFields
        /\ b.gen = c.gen /\ b.queue = c.queue /\ b.pidx = c.pidx
        /\ b.hidx = c.hidx /\ b.reg = c.reg /\ b.cand = c.cand
        /\ b.best = c.best /\ b.selected = c.selected /\ b.heldoutBest = c.heldoutBest
        /\ b.active = c.active /\ b.pending = c.pending
        /\ b.run = "Evaluating" \/ (b.run = "Ready" /\ b.best = None)
    BY <1>1, RunToParts
  <1> HIDE DEF b
  <1>3. /\ DOMAIN d = CursorFields
        /\ d.gen = c.gen /\ d.queue = c.queue /\ d.pidx = c.pidx
        /\ d.hidx = c.hidx /\ d.reg = c.reg /\ d.cand = c.cand
        /\ d.best = c.best /\ d.selected = c.selected /\ d.heldoutBest = c.heldoutBest
        /\ d.pending = c.pending
        /\ d.run = "Evaluating" \/ (d.run = "Ready" /\ d.best = None)
        /\ d.phase = "Finalizing" /\ d.active = NoActive
    BY <1>2 DEF CursorFields
  <1> HIDE DEF d
  <1>4. Body(d)
    BY <1>3, NoActiveOK DEF Body
  <1>5. CursorOK(d)
    BY <1>3, <1>4, NoPending, NoActiveParts DEF CursorOK, Live, Untrained, Stands
  <1>6. Sound(<<Save(d)>>)
    BY <1>3, <1>5, SoundSave
  <1> QED BY <1>6 DEF ToFinalizing, RolloutsFinished, d, b

LEMMA SettleParts ==
    ASSUME NEW c, DOMAIN c = CursorFields
    PROVE  LET d == SettleIdentities(c) IN
           /\ DOMAIN d = CursorFields
           /\ d.cand = c.cand /\ d.run = c.run /\ d.phase = c.phase /\ d.pending = c.pending
           /\ {d.best, d.deployment} \subseteq {c.best, c.selected, c.heldoutBest, None}
           /\ d.deployment # None => d.best = d.deployment
           /\ d.deployment = None => d.best = None /\ c.best = None
           /\ d.best = None => c.best = None
  <1> DEFINE selected == Or(c.selected, c.best)
             deploy   == IF DeployHeldout THEN Or(c.heldoutBest, selected)
                         ELSE Or(selected, c.heldoutBest)
             best     == Or(deploy, Or(selected, Or(c.heldoutBest, c.best)))
             d == [c EXCEPT !.selected = selected, !.deployment = deploy, !.best = best]
  <1>1. /\ selected \in {c.selected, c.best} /\ (selected = None => c.best = None)
    BY DEF Or
  <1>2. /\ deploy \in {c.heldoutBest, selected}
        /\ deploy = None => selected = None /\ c.heldoutBest = None
    <2> HIDE DEF selected
    <2> QED BY DEF Or
  <1>3. /\ best \in {deploy, selected, c.heldoutBest, c.best}
        /\ deploy # None => best = deploy
        /\ deploy = None /\ c.best = None => best = None
    <2> HIDE DEF selected, deploy
    <2>1. deploy # None => best = deploy
      BY DEF Or
    <2>2. best \in {deploy, selected, c.heldoutBest, c.best}
      BY DEF Or
    <2>3. deploy = None /\ c.best = None => best = None
      BY <1>1, <1>2 DEF Or
    <2> QED BY <2>1, <2>2, <2>3
  <1> HIDE DEF selected, deploy, best
  <1>4. /\ DOMAIN d = CursorFields
        /\ d.cand = c.cand /\ d.run = c.run /\ d.phase = c.phase /\ d.pending = c.pending
        /\ d.best = best /\ d.deployment = deploy
    BY DEF CursorFields
  <1>5. SettleIdentities(c) = d
    BY DEF SettleIdentities, d, best, deploy, selected
  <1> HIDE DEF d
  <1>6. /\ {d.best, d.deployment} \subseteq {c.best, c.selected, c.heldoutBest, None}
        /\ d.deployment # None => d.best = d.deployment
        /\ d.deployment = None => d.best = None /\ c.best = None
        /\ d.best = None => c.best = None
    BY <1>1, <1>2, <1>3, <1>4
  <1> QED BY <1>4, <1>5, <1>6

LEMMA TerminalizeSound ==
    ASSUME NEW c, DOMAIN c = CursorFields, c.run \notin RunTerminal,
           NEW phase \in {"Failed", "Cancelled"}
    PROVE  Sound(Terminalize(c, phase))
  <1> DEFINE b == SettleIdentities(c)
             d == [b EXCEPT !.phase = phase, !.deployment = c.deployment, !.pending = NoJob,
                            !.run = IF @ \in RunTerminal THEN @ ELSE phase]
  <1>1. DOMAIN b = CursorFields /\ b.run = c.run
    BY SettleParts
  <1> HIDE DEF b
  <1>2. DOMAIN d = CursorFields /\ d.phase = phase /\ d.run = phase /\ d.pending = NoJob
    BY <1>1 DEF CursorFields
  <1> HIDE DEF d
  <1>3. CursorOK(d)
    BY <1>2 DEF CursorOK, EndOK, Terminal
  <1>4. Sound(<<Save(d)>>)
    BY <1>2, <1>3, SoundSave
  <1> QED BY <1>4 DEF Terminalize, d, b

LEMMA RunGoesOn == ASSUME NEW c, Live(c) PROVE c.run \notin RunTerminal /\ c.phase \notin Terminal
  BY DEF Live, Untrained, Stands, RunTerminal, Terminal, Going

\* The candidate deployed is the best one, and it was scored on every heldout row.
LEMMA FinalizeRunSound ==
    ASSUME NEW c, Live(c), c.pending = NoJob
    PROVE  Sound(FinalizeRun(c))
  <1> DEFINE b == SettleIdentities(c)
             d == [b EXCEPT !.phase = "Completed",
                            !.run = IF @ \in RunTerminal THEN @ ELSE "Completed"]
  <1>1. DOMAIN c = CursorFields /\ c.run \notin RunTerminal
    BY RunGoesOn DEF Live, Untrained, Body
  <1>2. /\ DOMAIN b = CursorFields /\ b.run = c.run /\ b.pending = c.pending
        /\ {b.best, b.deployment} \subseteq {c.best, c.selected, c.heldoutBest, None}
        /\ b.deployment # None => b.best = b.deployment
        /\ b.deployment = None => b.best = None /\ c.best = None
        /\ b.best = None => c.best = None
    BY <1>1, SettleParts
  <1> HIDE DEF b
  <1>3. ASSUME c.cand[Or(b.best, Seed)].held PROVE Sound(<<Save(d)>>)
    <2>1. {c.best, c.selected, c.heldoutBest} \subseteq DOMAIN c.cand \cup {None}
      BY DEF Live, Untrained, Body, BestOK, Maybe
    <2>2. b.best # None
      <3>1. SUFFICES ASSUME b.best = None PROVE FALSE
        OBVIOUS
      <3>2. c.best = None /\ c.cand[Seed].held
        BY <1>2, <1>3, <3>1 DEF Or
      <3> QED BY <3>2 DEF Live, Untrained, Body, BestOK
    <2>3. b.best \in DOMAIN c.cand /\ c.cand[b.best].held /\ b.deployment = b.best
      BY <1>2, <1>3, <2>1, <2>2 DEF Or
    <2>4. HasFrames(b.best, "heldout", HeldoutRows)
      BY <2>3 DEF Live, Untrained, Body, CandOK
    <2>5. /\ DOMAIN d = CursorFields /\ d.phase = "Completed" /\ d.run = "Completed"
          /\ d.pending = NoJob /\ d.best = b.best /\ d.deployment = b.best
      BY <1>1, <1>2, <2>3 DEF CursorFields
    <2> HIDE DEF d
    <2>6. CursorOK(d)
      BY <2>4, <2>5 DEF CursorOK, EndOK, Terminal
    <2> QED BY <2>5, <2>6, SoundSave
  <1>4. Sound(Terminalize(c, "Failed"))
    BY <1>1, TerminalizeSound
  <1>5. FinalizeRun(c) = IF ~c.cand[Or(b.best, Seed)].held THEN Terminalize(c, "Failed")
                         ELSE <<Save(d)>>
    BY DEF FinalizeRun, d, b
  <1> HIDE DEF d
  <1> QED BY <1>3, <1>4, <1>5

-----------------------------------------------------------------------------
(* The candidate table *)

\* Rows may change; a heldout score needs its frames.
LEMMA RowsChanged ==
    ASSUME NEW cand, NEW reg, CandOK(cand, reg), NEW new, DOMAIN new = DOMAIN cand,
           \A y \in DOMAIN cand :
             /\ new[y] \in CandidateRow
             /\ new[y].held => cand[y].held \/ HasFrames(y, "heldout", HeldoutRows)
    PROVE  CandOK(new, reg)
  BY DEF CandOK

LEMMA BodyRowsChanged ==
    ASSUME NEW c, Body(c), NEW d,
        /\ DOMAIN d = CursorFields
        /\ d.gen = c.gen /\ d.queue = c.queue /\ d.pidx = c.pidx
        /\ d.hidx = c.hidx /\ d.reg = c.reg /\ d.best = c.best
        /\ d.selected = c.selected /\ d.heldoutBest = c.heldoutBest /\ d.active = c.active,
           DOMAIN d.cand = DOMAIN c.cand,
           \A y \in DOMAIN c.cand :
             /\ d.cand[y] \in CandidateRow /\ d.cand[y].held = c.cand[y].held
             /\ d.cand[y].train = c.cand[y].train
             /\ d.cand[y].status \in Leading => d.cand[y].status = c.cand[y].status
    PROVE  Body(d)
  <1>1. CandOK(d.cand, d.reg)
    BY RowsChanged DEF Body
  <1>2. Lead(frames, d.cand, d.best)
    BY LeadKept DEF Body
  <1>3. BestOK(d.cand, d.best, d.selected, d.heldoutBest)
    BY DEF Body, BestOK
  <1>4. ActiveOK(d.cand, d.best, d.active)
    BY DEF Body, ActiveOK, EvalOK
  <1> QED BY <1>1, <1>2, <1>3, <1>4 DEF Body

\* A rollout stage is left with its rollouts finished.
StageRun(stage, run) ==
    /\ stage \in RolloutStages /\ run \in Going
    /\ stage \in {"seed_full_train", "heldout"} => run # "RolloutQueueing"

\* What finalizing finds.
Ready(c, stage) == Body(c) /\ c.pending = NoJob /\ c.active.stage = stage

LEMMA CountedParts ==
    ASSUME NEW c, DOMAIN c = CursorFields
    PROVE  LET d == Counted(c) IN
        /\ DOMAIN d = CursorFields
        /\ d.gen = c.gen /\ d.queue = c.queue /\ d.pidx = c.pidx
        /\ d.hidx = c.hidx /\ d.reg = c.reg /\ d.cand = c.cand
        /\ d.best = c.best /\ d.selected = c.selected /\ d.heldoutBest = c.heldoutBest
        /\ d.active = c.active /\ d.pending = c.pending
        /\ d.run = IF c.run = "RolloutRunning" THEN "Evaluating" ELSE c.run
  <1> DEFINE b == RunTo(c, {"RolloutRunning"}, "Evaluating")
             n == ScoredRows(c.active.evals)
             d == [b EXCEPT !.count = @ + n]
  <1>1. /\ DOMAIN b = CursorFields
        /\ b.gen = c.gen /\ b.queue = c.queue /\ b.pidx = c.pidx
        /\ b.hidx = c.hidx /\ b.reg = c.reg /\ b.cand = c.cand
        /\ b.best = c.best /\ b.selected = c.selected /\ b.heldoutBest = c.heldoutBest
        /\ b.active = c.active /\ b.pending = c.pending
        /\ b.run = IF c.run = "RolloutRunning" THEN "Evaluating" ELSE c.run
    BY RunToParts
  <1> HIDE DEF b, n
  <1>2. /\ DOMAIN d = CursorFields
        /\ d.gen = c.gen /\ d.queue = c.queue /\ d.pidx = c.pidx
        /\ d.hidx = c.hidx /\ d.reg = c.reg /\ d.cand = c.cand
        /\ d.best = c.best /\ d.selected = c.selected /\ d.heldoutBest = c.heldoutBest
        /\ d.active = c.active /\ d.pending = c.pending
        /\ d.run = IF c.run = "RolloutRunning" THEN "Evaluating" ELSE c.run
    BY <1>1 DEF CursorFields
  <1>3. Counted(c) = d
    BY DEF Counted, RolloutsFinished, d, b, n
  <1> HIDE DEF d
  <1> QED BY <1>2, <1>3

LEMMA SameBody ==
    ASSUME NEW c, Body(c), NEW d,
        /\ DOMAIN d = CursorFields
        /\ d.gen = c.gen /\ d.queue = c.queue /\ d.pidx = c.pidx
        /\ d.hidx = c.hidx /\ d.reg = c.reg /\ d.cand = c.cand
        /\ d.best = c.best /\ d.selected = c.selected /\ d.heldoutBest = c.heldoutBest
        /\ d.active = c.active
    PROVE  Body(d)
  BY DEF Body

LEMMA FinalizeSeedSound ==
    ASSUME NEW c, Ready(c, "seed_full_train"), c.run = "Evaluating"
    PROVE  Sound(FinalizeSeed(c))
  <1> DEFINE b == RunTo(c, {"Evaluating"}, "Ready")
             d == [b EXCEPT !.cand[Seed].status = "full_train_evaluated",
                            !.cand[Seed].train = TRUE, !.best = Seed, !.active = NoActive,
                            !.phase = "GenerationStart"]
  <1>1. DOMAIN c = CursorFields
    BY DEF Ready, Body
  <1>2. /\ DOMAIN b = CursorFields
        /\ b.gen = c.gen /\ b.queue = c.queue /\ b.pidx = c.pidx
        /\ b.hidx = c.hidx /\ b.reg = c.reg /\ b.cand = c.cand
        /\ b.best = c.best /\ b.selected = c.selected /\ b.heldoutBest = c.heldoutBest
        /\ b.active = c.active /\ b.pending = c.pending
        /\ b.run = "Ready"
    BY <1>1, RunToParts
  <1> HIDE DEF b
  <1>3. /\ DOMAIN d = CursorFields
        /\ d.gen = c.gen /\ d.queue = c.queue /\ d.pidx = c.pidx
        /\ d.hidx = c.hidx /\ d.reg = c.reg /\ d.selected = c.selected
        /\ d.heldoutBest = c.heldoutBest /\ d.pending = c.pending
        /\ d.run = "Ready" /\ d.phase = "GenerationStart" /\ d.best = Seed
        /\ d.active = NoActive
        /\ d.cand = [[c.cand EXCEPT ![Seed].status = "full_train_evaluated"]
                       EXCEPT ![Seed].train = TRUE]
    BY <1>2 DEF CursorFields
  <1> HIDE DEF d
  <1>4. Seed \in DOMAIN c.cand /\ \A y \in DOMAIN c.cand : c.cand[y] \in CandidateRow
    BY DEF Ready, Body, CandOK
  <1>5. /\ DOMAIN d.cand = DOMAIN c.cand
        /\ \A y \in DOMAIN c.cand : y # Seed => d.cand[y] = c.cand[y]
        /\ d.cand[Seed] \in CandidateRow /\ d.cand[Seed].held = c.cand[Seed].held
        /\ d.cand[Seed].train
    <2> DEFINE r == c.cand[Seed]
               r1 == [r EXCEPT !.status = "full_train_evaluated"]
               r2 == [r1 EXCEPT !.train = TRUE]
               m == [c.cand EXCEPT ![Seed] = r1]
    <2>1. r1 \in CandidateRow /\ r1.held = r.held
      BY <1>4 DEF CandidateRow
    <2>2. r2 \in CandidateRow /\ r2.held = r1.held /\ r2.train
      <3> HIDE DEF r1
      <3> QED BY <2>1 DEF CandidateRow
    <2>3. m[Seed] = r1 /\ DOMAIN m = DOMAIN c.cand
          /\ \A y \in DOMAIN c.cand : y # Seed => m[y] = c.cand[y]
      <3> HIDE DEF r1
      <3> QED BY <1>4
    <2>4. d.cand = [m EXCEPT ![Seed] = [m[Seed] EXCEPT !.train = TRUE]]
      BY <1>3
    <2>5. d.cand[Seed] = [m[Seed] EXCEPT !.train = TRUE] /\ DOMAIN d.cand = DOMAIN m
          /\ \A y \in DOMAIN m : y # Seed => d.cand[y] = m[y]
      <3> HIDE DEF m
      <3> QED BY <1>4, <2>3, <2>4
    <2>6. d.cand[Seed] = r2
      BY <2>3, <2>5
    <2> HIDE DEF r2, m, r1
    <2> QED BY <2>1, <2>2, <2>3, <2>5, <2>6
  <1>6. CandOK(d.cand, d.reg)
    <2>1. CandOK(c.cand, c.reg) /\ d.reg = c.reg
      BY <1>3 DEF Ready, Body
    <2>2. \A y \in DOMAIN c.cand : d.cand[y] \in CandidateRow
                                  /\ (d.cand[y].held => c.cand[y].held)
      BY <1>4, <1>5
    <2> QED BY <1>5, <2>1, <2>2, RowsChanged
  <1>7. BestOK(d.cand, d.best, d.selected, d.heldoutBest)
    BY <1>3, <1>4, <1>5, GepaAssumption DEF Ready, Body, BestOK, Maybe, Ids
  <1>8. Lead(frames, d.cand, d.best)
    <2>1. Lead(frames, c.cand, c.best) /\ c.best \notin DOMAIN c.cand
      BY NoneIsNotRegistered DEF Ready, Body, ActiveOK
    <2>2. \A x \in DOMAIN d.cand : SelectableIn(frames, d.cand[x], x) => x = Seed
      BY <1>5, <2>1 DEF Lead
    <2> QED BY <1>3, <1>4, <1>5, <2>2 DEF Lead
  <1>81. Body(d)
    BY <1>3, <1>4, <1>5, <1>6, <1>7, <1>8, NoActiveOK, NoActiveParts DEF Ready, Body
  <1>9. d.pending = NoJob
    BY <1>3 DEF Ready
  <1>10. CursorOK(d)
    BY <1>3, <1>81, <1>9, NoPending, NoActiveParts DEF CursorOK, Live, Untrained, Stands
  <1>11. Sound(<<LogCand(Seed, "FullTrainEvaluated"), LogCand(Seed, "Accepted"), Save(d)>>)
    BY <1>9, <1>10, SoundLogsSave
  <1> QED BY <1>11 DEF FinalizeSeed, d, b

-----------------------------------------------------------------------------
(* Rows *)

LEMMA RowsPlain ==
    /\ Plain(TrainRows) /\ Plain(HeldoutRows)
    /\ \A gen, index : Plain(MinibatchRows(gen, index))
  <1>1. ASSUME NEW n \in Nat, NEW s, DOMAIN s = 1 .. n, s = [i \in 1 .. n |-> s[i]]
        PROVE  Plain(s)
    BY <1>1 DEF Range, Plain
  <1>2. NTrain \in Nat /\ NHeldout \in Nat /\ NMini \in Nat
    BY GepaAssumption
  <1>3. ASSUME NEW n \in Nat PROVE Plain([i \in 1 .. n |-> i - 1])
    <2> DEFINE s == [i \in 1 .. n |-> i - 1]
    <2>1. DOMAIN s = 1 .. n /\ s = [i \in 1 .. n |-> s[i]]
      OBVIOUS
    <2> HIDE DEF s
    <2>2. Plain(s)
      BY <1>1, <2>1
    <2> QED BY <2>2 DEF s
  <1>4. Plain(TrainRows) /\ Plain(HeldoutRows)
    BY <1>2, <1>3 DEF TrainRows, HeldoutRows
  <1>5. ASSUME NEW gen, NEW index PROVE Plain(MinibatchRows(gen, index))
    <2> DEFINE size  == Max({AtMost(NMini, NTrain), 1})
               start == ((gen * Max({ProposalsPerGeneration, 1}) + index) * size) % NTrain
               s == [i \in 1 .. size |-> (start + i - 1) % NTrain]
    <2>1. AtMost(NMini, NTrain) \in Nat
      BY <1>2 DEF AtMost
    <2>2. size \in Nat
      BY <2>1, MaxOfTwo
    <2>3. MinibatchRows(gen, index) = IF size >= NTrain THEN TrainRows ELSE s
      BY DEF MinibatchRows
    <2> HIDE DEF size, start
    <2>4. DOMAIN s = 1 .. size /\ s = [i \in 1 .. size |-> s[i]]
      OBVIOUS
    <2> HIDE DEF s
    <2>5. Plain(s)
      BY <1>1, <2>2, <2>4
    <2> QED BY <1>4, <2>3, <2>5
  <1> QED BY <1>4, <1>5

-----------------------------------------------------------------------------
(* The loops that finalize a group *)

\* The loop so far: only logs were written, the candidates are the same ones,
\* and the group that goes on can be evaluated on all train rows.
LoopOK(l, c) ==
    /\ DOMAIN l = {"c", "ws", "group", "rows", "error"}
    /\ Quiet(l.ws)
    /\ Body(l.c) /\ l.c.pending = NoJob /\ l.c.run = c.run /\ l.c.active = c.active
    /\ DOMAIN l.c.cand = DOMAIN c.cand
    /\ Plain(l.group)
    /\ \A i \in 1 .. Len(l.group) : EvalOK(c.cand, "candidate_full_train", l.group[i])
                                   /\ ~c.cand[l.group[i].cand].train
    /\ c.active.stage = "candidate_minibatch" =>
         \A y \in DOMAIN c.cand : l.c.cand[y].train = c.cand[y].train

LEMMA LoopStarts == ASSUME NEW c, Body(c), c.pending = NoJob PROVE LoopOK(Loop(c), c)
  BY NoActiveParts, QuietNothing DEF LoopOK, Loop

LEMMA LoopStops == ASSUME NEW l, NEW c, LoopOK(l, c), NEW why PROVE LoopOK(Stop(l, why), c)
  <1> DEFINE m == Stop(l, why)
  <1>1. DOMAIN m = DOMAIN l /\ m.c = l.c /\ m.ws = l.ws /\ m.group = l.group
    BY DEF LoopOK, Stop
  <1> HIDE DEF m
  <1>2. LoopOK(m, c)
    BY <1>1 DEF LoopOK
  <1> QED BY <1>2 DEF m

LEMMA PlainAppend == ASSUME NEW s, Plain(s), NEW e
                     PROVE  /\ Plain(Append(s, e)) /\ Len(Append(s, e)) = Len(s) + 1
                            /\ \A i \in 1 .. Len(s) : Append(s, e)[i] = s[i]
                            /\ Append(s, e)[Len(s) + 1] = e
  <1> DEFINE S == Range(s) \cup {e}
             t == Append(s, e)
  <1>1. s \in Seq(S) /\ e \in S
    BY DEF Plain
  <1> HIDE DEF S
  <1>2. t \in Seq(S) /\ Len(t) = Len(s) + 1 /\ t[Len(s) + 1] = e
        /\ \A i \in 1 .. Len(s) : t[i] = s[i]
    BY <1>1
  <1>3. Plain(t)
    BY <1>2, PlainIsSequence
  <1> HIDE DEF t
  <1> QED BY <1>2, <1>3 DEF t

LEMMA GroupGrows ==
    ASSUME NEW g, Plain(g), NEW cand, NEW stage, NEW e, EvalOK(cand, stage, e),
           \A i \in 1 .. Len(g) : EvalOK(cand, stage, g[i])
    PROVE  \A i \in 1 .. Len(Append(g, e)) : EvalOK(cand, stage, Append(g, e)[i])
  <1> DEFINE t == Append(g, e)
  <1>1. Len(g) \in Nat
    BY PlainParts
  <1>2. Len(t) = Len(g) + 1 /\ t[Len(g) + 1] = e /\ \A i \in 1 .. Len(g) : t[i] = g[i]
    BY PlainAppend
  <1> HIDE DEF t
  <1>3. \A i \in 1 .. Len(t) : i = Len(g) + 1 \/ i \in 1 .. Len(g)
    BY <1>1, <1>2
  <1>4. \A i \in 1 .. Len(t) : EvalOK(cand, stage, t[i])
    BY <1>2, <1>3
  <1> QED BY <1>4 DEF t

\* A minibatch result.
WithMinibatch(c, x, s) ==
    [[c EXCEPT !.cand[x].mini = TRUE, !.cand[x].metaGen = NoGen] EXCEPT !.cand[x].status = s]

LEMMA MinibatchRow ==
    ASSUME NEW c, Body(c), NEW x \in DOMAIN c.cand,
           NEW s \in {"rejected_minibatch", "deferred_budget", "minibatch_evaluated"},
           NEW d, d = WithMinibatch(c, x, s)
    PROVE  Body(d) /\ d.pending = c.pending /\ d.run = c.run /\ d.active = c.active
           /\ DOMAIN d.cand = DOMAIN c.cand
           /\ \A y \in DOMAIN c.cand : d.cand[y].train = c.cand[y].train
  <1> DEFINE c1 == [c EXCEPT !.cand[x].mini = TRUE, !.cand[x].metaGen = NoGen]
             m1 == [c.cand EXCEPT ![x].mini = TRUE]
             m2 == [m1 EXCEPT ![x].metaGen = NoGen]
             m3 == [m2 EXCEPT ![x].status = s]
  <1>1. DOMAIN c = CursorFields /\ \A y \in DOMAIN c.cand : c.cand[y] \in CandidateRow
    BY DEF Body, CandOK
  <1>2. /\ DOMAIN c1 = CursorFields
        /\ c1.gen = c.gen /\ c1.queue = c.queue /\ c1.pidx = c.pidx
        /\ c1.hidx = c.hidx /\ c1.reg = c.reg /\ c1.best = c.best
        /\ c1.selected = c.selected /\ c1.heldoutBest = c.heldoutBest /\ c1.active = c.active
        /\ c1.pending = c.pending
        /\ c1.run = c.run /\ c1.cand = m2
    BY <1>1 DEF CursorFields
  <1> HIDE DEF c1
  <1>3. /\ DOMAIN d = CursorFields
        /\ d.gen = c.gen /\ d.queue = c.queue /\ d.pidx = c.pidx
        /\ d.hidx = c.hidx /\ d.reg = c.reg /\ d.best = c.best
        /\ d.selected = c.selected /\ d.heldoutBest = c.heldoutBest /\ d.active = c.active
        /\ d.pending = c.pending
        /\ d.run = c.run /\ d.cand = m3
    <2>1. d = [c1 EXCEPT !.cand[x].status = s]
      BY DEF WithMinibatch, c1
    <2> QED BY <1>2, <2>1 DEF CursorFields
  <1> DEFINE r1 == [c.cand[x] EXCEPT !.mini = TRUE]
             r2 == [r1 EXCEPT !.metaGen = NoGen]
             r3 == [r2 EXCEPT !.status = s]
  <1>4. r1 \in CandidateRow /\ r1.held = c.cand[x].held /\ r1.train = c.cand[x].train
    BY <1>1 DEF CandidateRow
  <1>5. r2 \in CandidateRow /\ r2.held = r1.held /\ r2.train = r1.train
    <2> HIDE DEF r1
    <2> QED BY <1>4 DEF CandidateRow
  <1>6. r3 \in CandidateRow /\ r3.held = r2.held /\ r3.train = r2.train /\ r3.status \notin Leading
    <2> HIDE DEF r2
    <2> QED BY <1>5 DEF CandidateRow, Leading
  <1>7. DOMAIN m1 = DOMAIN c.cand /\ m1[x] = r1
        /\ \A y \in DOMAIN c.cand : y # x => m1[y] = c.cand[y]
    OBVIOUS
  <1>8. DOMAIN m2 = DOMAIN c.cand /\ m2[x] = r2
        /\ \A y \in DOMAIN c.cand : y # x => m2[y] = c.cand[y]
    <2> HIDE DEF m1, r1
    <2> QED BY <1>7
  <1>9. DOMAIN m3 = DOMAIN c.cand /\ m3[x] = r3
        /\ \A y \in DOMAIN c.cand : y # x => m3[y] = c.cand[y]
    <2> HIDE DEF m2, r2
    <2> QED BY <1>8
  <1> HIDE DEF m3, r3, r1, r2
  <1>10. \A y \in DOMAIN c.cand :
           /\ d.cand[y] \in CandidateRow /\ d.cand[y].held = c.cand[y].held
           /\ d.cand[y].train = c.cand[y].train
           /\ d.cand[y].status \in Leading => d.cand[y].status = c.cand[y].status
    BY <1>1, <1>3, <1>4, <1>5, <1>6, <1>9
  <1>11. Body(d)
    BY <1>3, <1>9, <1>10, BodyRowsChanged
  <1> QED BY <1>3, <1>9, <1>10, <1>11

LEMMA MinibatchTurn ==
    ASSUME NEW c, c.active.stage = "candidate_minibatch", NEW l, LoopOK(l, c),
           NEW e, EvalOK(c.cand, "candidate_minibatch", e)
    PROVE  LoopOK(FinalizeMinibatch(l, e), c)
  <1> DEFINE x == e.cand
             own == Total(x, "candidate_minibatch", e.rows)
             ref == Total(l.c.cand[x].parent, "parent_minibatch_reference", e.rows)
             c2(s) == WithMinibatch(l.c, x, s)
             p1 == <<LogCand(x, "MinibatchEvaluated"), LogCand(x, "RejectedMinibatch")>>
             p2 == <<LogCand(x, "MinibatchEvaluated"), LogCand(x, "AcceptedMinibatch"),
                     LogCand(x, "DeferredBudget")>>
             p3 == <<LogCand(x, "MinibatchEvaluated"), LogCand(x, "AcceptedMinibatch")>>
             ev == Evaluation(x, TrainRows, e.offset)
             l1 == [l EXCEPT !.c = c2("rejected_minibatch"), !.ws = @ \o p1]
             l2 == [l EXCEPT !.c = c2("deferred_budget"), !.ws = @ \o p2]
             l3 == [l EXCEPT !.c = c2("minibatch_evaluated"), !.ws = @ \o p3,
                             !.group = Append(@, ev), !.rows = @ + NTrain]
  <1>1. \/ FinalizeMinibatch(l, e) = l
        \/ \E why : FinalizeMinibatch(l, e) = Stop(l, why)
        \/ FinalizeMinibatch(l, e) = l1
        \/ FinalizeMinibatch(l, e) = l2
        \/ FinalizeMinibatch(l, e) = l3
    <2>1. FinalizeMinibatch(l, e) =
            IF l.error # None THEN l
            ELSE IF ~HasFrames(l.c.cand[x].parent, "parent_minibatch_reference", e.rows)
            THEN Stop(l, "missing parent reference")
            ELSE IF ~HasFrames(x, "candidate_minibatch", e.rows)
            THEN Stop(l, "missing score vector")
            ELSE IF ~Accepts(own, ref) THEN l1
            ELSE IF FullTrainUnaffordable(l) THEN l2 ELSE l3
      BY DEF FinalizeMinibatch, WithMinibatch
    <2> HIDE DEF x, own, ref, l1, l2, l3
    <2> QED BY <2>1
  <1>2. x \in DOMAIN l.c.cand /\ Body(l.c) /\ Quiet(l.ws) /\ x # Seed
    BY DEF LoopOK, EvalOK
  <1>3. \A s \in {"rejected_minibatch", "deferred_budget", "minibatch_evaluated"} :
           Body(c2(s)) /\ c2(s).pending = l.c.pending /\ c2(s).run = l.c.run
           /\ c2(s).active = l.c.active /\ DOMAIN c2(s).cand = DOMAIN l.c.cand
           /\ \A y \in DOMAIN l.c.cand : c2(s).cand[y].train = l.c.cand[y].train
    BY <1>2, MinibatchRow
  <1>4. Quiet(l.ws \o p1) /\ Quiet(l.ws \o p2) /\ Quiet(l.ws \o p3)
    <2>1. Quiet(p1) /\ Quiet(p2) /\ Quiet(p3)
      BY QuietLogs
    <2> HIDE DEF p1, p2, p3
    <2> QED BY <1>2, <2>1, QuietJoin
  <1>5. EvalOK(c.cand, "candidate_full_train", ev) /\ ~c.cand[ev.cand].train
    BY RowsPlain DEF EvalOK, EvalFields, Evaluation
  <1> HIDE DEF c2, p1, p2, p3, ev
  <1>6. LoopOK(l1, c)
    <2>1. DOMAIN l1 = DOMAIN l /\ l1.c = c2("rejected_minibatch") /\ l1.ws = l.ws \o p1
          /\ l1.group = l.group
      BY DEF LoopOK
    <2> HIDE DEF l1
    <2> QED BY <1>3, <1>4, <2>1 DEF LoopOK
  <1>7. LoopOK(l2, c)
    <2>1. DOMAIN l2 = DOMAIN l /\ l2.c = c2("deferred_budget") /\ l2.ws = l.ws \o p2
          /\ l2.group = l.group
      BY DEF LoopOK
    <2> HIDE DEF l2
    <2> QED BY <1>3, <1>4, <2>1 DEF LoopOK
  <1>8. LoopOK(l3, c)
    <2>1. DOMAIN l3 = DOMAIN l /\ l3.c = c2("minibatch_evaluated") /\ l3.ws = l.ws \o p3
          /\ l3.group = Append(l.group, ev)
      BY DEF LoopOK
    <2> HIDE DEF l3
    <2>2. Plain(l3.group)
      BY <2>1, PlainAppend DEF LoopOK
    <2>3. \A i \in 1 .. Len(l3.group) : EvalOK(c.cand, "candidate_full_train", l3.group[i])
      BY <1>5, <2>1, GroupGrows DEF LoopOK
    <2>4. \A i \in 1 .. Len(l3.group) : ~c.cand[l3.group[i].cand].train
      <3>1. /\ Len(l3.group) = Len(l.group) + 1 /\ Len(l.group) \in Nat
            /\ l3.group[Len(l.group) + 1] = ev
            /\ \A i \in 1 .. Len(l.group) : l3.group[i] = l.group[i]
        BY <2>1, PlainAppend, PlainParts DEF LoopOK
      <3>2. \A i \in 1 .. Len(l3.group) : i \in 1 .. Len(l.group) \/ i = Len(l.group) + 1
        BY <3>1
      <3> QED BY <1>5, <3>1, <3>2 DEF LoopOK
    <2> QED BY <1>3, <1>4, <2>1, <2>2, <2>3, <2>4 DEF LoopOK
  <1>9. \A why : LoopOK(Stop(l, why), c)
    BY LoopStops
  <1> HIDE DEF l1, l2, l3
  <1> QED BY <1>1, <1>6, <1>7, <1>8, <1>9

LEMMA ActiveEvals ==
    ASSUME NEW c, Body(c)
    PROVE  /\ Len(c.active.evals) \in Nat /\ Plain(c.active.evals)
           /\ DOMAIN c.active.evals = 1 .. Len(c.active.evals)
           /\ \A i \in 1 .. Len(c.active.evals) :
                EvalOK(c.cand, c.active.stage, c.active.evals[i])
  BY PlainParts DEF Body, ActiveOK

LEMMA MinibatchLoopHolds ==
    ASSUME NEW c, Ready(c, "candidate_minibatch")
    PROVE  LoopOK(MinibatchLoopResult(Loop(c), c.active.evals), c)
  <1> DEFINE s == c.active.evals
             base == Loop(c)
  <1>1. Len(s) \in Nat /\ \A i \in 1 .. Len(s) : EvalOK(c.cand, "candidate_minibatch", s[i])
    BY ActiveEvals DEF Ready
  <1>2. LoopOK(base, c)
    BY LoopStarts DEF Ready
  <1> HIDE DEF s, base
  <1>3. PICK f : /\ f[0] = base /\ MinibatchLoopResult(base, s) = f[Len(s)]
                 /\ \A n \in 1 .. Len(s) : f[n] = FinalizeMinibatch(f[n - 1], s[n])
    BY <1>1, MinibatchLoopTurns
  <1> DEFINE G == {n \in Nat : LoopOK(f[n], c)}
  <1>4. 0 \in G
    BY <1>2, <1>3
  <1>5. \A n \in 1 .. Len(s) : n - 1 \in G => n \in G
    BY <1>1, <1>3, MinibatchTurn DEF Ready
  <1> HIDE DEF G
  <1>6. \A n \in 0 .. Len(s) : n \in G
    BY <1>1, <1>4, <1>5, UpTo
  <1>7. Len(s) \in G
    BY <1>1, <1>6
  <1> QED BY <1>3, <1>7 DEF G, s, base

\* A cursor that has done with its evaluation.
LEMMA BodyWithoutActive ==
    ASSUME NEW c, Body(c)
    PROVE  LET d == [c EXCEPT !.active = NoActive] IN
        /\ DOMAIN d = CursorFields
        /\ d.gen = c.gen /\ d.queue = c.queue /\ d.pidx = c.pidx
        /\ d.hidx = c.hidx /\ d.reg = c.reg /\ d.cand = c.cand
        /\ d.best = c.best /\ d.selected = c.selected /\ d.heldoutBest = c.heldoutBest
        /\ d.pending = c.pending
        /\ Body(d) /\ d.active = NoActive /\ d.run = c.run
  <1> DEFINE d == [c EXCEPT !.active = NoActive]
  <1>1. /\ DOMAIN d = CursorFields
        /\ d.gen = c.gen /\ d.queue = c.queue /\ d.pidx = c.pidx
        /\ d.hidx = c.hidx /\ d.reg = c.reg /\ d.cand = c.cand
        /\ d.best = c.best /\ d.selected = c.selected /\ d.heldoutBest = c.heldoutBest
        /\ d.pending = c.pending
        /\ d.active = NoActive /\ d.run = c.run
    BY DEF Body, CursorFields
  <1> HIDE DEF d
  <1>2. Body(d)
    BY <1>1, NoActiveOK DEF Body
  <1> QED BY <1>1, <1>2 DEF d

LEMMA FinalizeMinibatchGroupSound ==
    ASSUME NEW c, Ready(c, "candidate_minibatch"), c.run \in {"RolloutQueueing", "Evaluating"}
    PROVE  Sound(FinalizeMinibatchGroup(c))
  <1> DEFINE l == MinibatchLoopResult(Loop(c), c.active.evals)
             d1 == [l.c EXCEPT !.active = NoActive]
             d2 == [l.c EXCEPT !.active = Active("candidate_full_train", c.active.gen, l.group),
                               !.phase = "CandidateFullTrain"]
  <1>1. FinalizeMinibatchGroup(c) =
          l.ws \o (IF l.error # None THEN <<Fail(l.error)>>
                   ELSE IF l.group = <<>> THEN ToProposerWaiting(d1) ELSE <<Save(d2)>>)
    BY DEF FinalizeMinibatchGroup, Fold, MinibatchLoopResult, IsMinibatchLoop
  <1>2. LoopOK(l, c)
    BY MinibatchLoopHolds
  <1> HIDE DEF l
  <1>3. Sound(l.ws)
    BY <1>2, QuietIsSound DEF LoopOK
  <1>4. Sound(<<Fail(l.error)>>)
    BY QuietFail, QuietIsSound
  <1>5. Sound(ToProposerWaiting(d1))
    <2>1. Body(d1) /\ d1.active = NoActive /\ d1.run = c.run /\ d1.pending = NoJob
      BY <1>2, BodyWithoutActive DEF LoopOK
    <2> HIDE DEF d1
    <2> QED BY <2>1, NoActiveParts, ToProposerWaitingSound
  <1>6. Sound(<<Save(d2)>>)
    <2>1. /\ DOMAIN d2 = CursorFields
        /\ d2.gen = l.c.gen /\ d2.queue = l.c.queue /\ d2.pidx = l.c.pidx
        /\ d2.hidx = l.c.hidx /\ d2.reg = l.c.reg /\ d2.cand = l.c.cand
        /\ d2.best = l.c.best /\ d2.selected = l.c.selected /\ d2.heldoutBest = l.c.heldoutBest
        /\ d2.pending = l.c.pending
        /\ d2.active = Active("candidate_full_train", c.active.gen, l.group)
        /\ d2.run = c.run /\ d2.phase = "CandidateFullTrain"
      BY <1>2 DEF LoopOK, Body, CursorFields
    <2> HIDE DEF d2
    <2>20. /\ DOMAIN d2.active = {"stage", "gen", "evals"} /\ d2.active.evals = l.group
           /\ d2.active.stage = "candidate_full_train" /\ c.active.stage = "candidate_minibatch"
           /\ Plain(l.group) /\ DOMAIN l.group = 1 .. Len(l.group)
      BY <2>1, <1>2, PlainParts DEF Active, LoopOK, Ready
    <2>2. ActiveOK(d2.cand, d2.best, d2.active)
      BY <2>1, <2>20, <1>2 DEF LoopOK, EvalOK, ActiveOK
    <2>3. Body(d2)
      BY <1>2, <2>1, <2>2 DEF LoopOK, Body
    <2>4. d2.active.stage = "candidate_full_train" /\ d2.pending = NoJob
      BY <1>2, <2>1 DEF Active, LoopOK
    <2>5. Untrained(d2.cand, d2.active)
      <3>1. ASSUME NEW i \in DOMAIN l.group PROVE ~l.c.cand[l.group[i].cand].train
        BY <1>2, <2>20 DEF LoopOK, EvalOK
      <3> QED BY <2>1, <2>20, <3>1 DEF Untrained
    <2>6. CursorOK(d2)
      BY <2>1, <2>3, <2>4, <2>5, NoPending DEF CursorOK, Live, Stands, Going
    <2> QED BY <2>4, <2>6, SoundSave
  <1> DEFINE tail == IF l.error # None THEN <<Fail(l.error)>>
                     ELSE IF l.group = <<>> THEN ToProposerWaiting(d1) ELSE <<Save(d2)>>
  <1> HIDE DEF d1, d2
  <1>7. Sound(tail)
    BY <1>4, <1>5, <1>6
  <1> HIDE DEF tail
  <1>8. Sound(l.ws \o tail)
    BY <1>3, <1>7, SoundJoin
  <1> QED BY <1>1, <1>8 DEF tail

-----------------------------------------------------------------------------
(* The groups: minibatch and full train *)

\* A full-train result; whoever is accepted becomes the best.
WithFullTrain(c, x, s, best) ==
    [c EXCEPT !.cand[x].status = s, !.cand[x].train = TRUE, !.cand[x].metaGen = NoGen,
              !.best = best]

\* A heldout score of a candidate all of whose rows were scored.
WithHeldout(c, x, n) == [c EXCEPT !.cand[x].held = TRUE, !.hidx = n]

LEMMA TotalUp == ASSUME NEW x, NEW stage, NEW rows
                 PROVE  Total(x, stage, rows) = SumUp(frames, x, stage, Range(rows))
  BY DEF Total, SumOver, SumUp

\* x has all its train rows, and at least as much on them as the best, or the seed.
Beats(c, x) ==
    LET best == Or(c.best, Seed)
    IN  /\ FullIn(frames, x) /\ FullIn(frames, best)
        /\ TotalIn(frames, x) >= TotalIn(frames, best)

LEMMA FullTrainRow ==
    ASSUME NEW c, Body(c), c.active.stage = "candidate_full_train",
           NEW x \in DOMAIN c.cand, x # Seed, NEW s, NEW best,
           \/ s = "rejected_full_train" /\ best = c.best
           \/ s = "accepted" /\ best = x /\ Beats(c, x),
           NEW d, d = WithFullTrain(c, x, s, best)
    PROVE  Body(d) /\ d.pending = c.pending /\ d.run = c.run /\ d.active = c.active
           /\ DOMAIN d.cand = DOMAIN c.cand
  <1> DEFINE m1 == [c.cand EXCEPT ![x].status = s]
             m2 == [m1 EXCEPT ![x].train = TRUE]
             m3 == [m2 EXCEPT ![x].metaGen = NoGen]
             r1 == [c.cand[x] EXCEPT !.status = s]
             r2 == [r1 EXCEPT !.train = TRUE]
             r3 == [r2 EXCEPT !.metaGen = NoGen]
  <1>1. DOMAIN c = CursorFields /\ \A y \in DOMAIN c.cand : c.cand[y] \in CandidateRow
    BY DEF Body, CandOK
  <1>2. /\ DOMAIN d = CursorFields
        /\ d.gen = c.gen /\ d.queue = c.queue /\ d.pidx = c.pidx
        /\ d.hidx = c.hidx /\ d.reg = c.reg /\ d.selected = c.selected
        /\ d.heldoutBest = c.heldoutBest /\ d.active = c.active /\ d.pending = c.pending
        /\ d.run = c.run /\ d.cand = m3 /\ d.best = best
    BY <1>1 DEF CursorFields, WithFullTrain
  <1>3. r1 \in CandidateRow /\ r1.held = c.cand[x].held /\ r1.status = s
    BY <1>1 DEF CandidateRow
  <1>4. r2 \in CandidateRow /\ r2.held = r1.held /\ r2.status = s /\ r2.train
    <2> HIDE DEF r1
    <2> QED BY <1>3 DEF CandidateRow
  <1>5. r3 \in CandidateRow /\ r3.held = r2.held /\ r3.status = s /\ r3.train
    <2> HIDE DEF r2
    <2> QED BY <1>4 DEF CandidateRow
  <1>6. DOMAIN m1 = DOMAIN c.cand /\ m1[x] = r1
        /\ \A y \in DOMAIN c.cand : y # x => m1[y] = c.cand[y]
    OBVIOUS
  <1>7. DOMAIN m2 = DOMAIN c.cand /\ m2[x] = r2
        /\ \A y \in DOMAIN c.cand : y # x => m2[y] = c.cand[y]
    <2> HIDE DEF m1, r1
    <2> QED BY <1>6
  <1>8. DOMAIN m3 = DOMAIN c.cand /\ m3[x] = r3
        /\ \A y \in DOMAIN c.cand : y # x => m3[y] = c.cand[y]
    <2> HIDE DEF m2, r2
    <2> QED BY <1>7
  <1> HIDE DEF m3, r3, r1, r2
  <1>9. DOMAIN d.cand = DOMAIN c.cand
        /\ \A y \in DOMAIN c.cand :
             /\ d.cand[y] \in CandidateRow /\ d.cand[y].held = c.cand[y].held
             /\ y = Seed => d.cand[y] = c.cand[y]
    BY <1>1, <1>2, <1>3, <1>4, <1>5, <1>8
  <1>10. CandOK(d.cand, d.reg)
    BY <1>9, RowsChanged, <1>2 DEF Body
  <1>11. BestOK(d.cand, d.best, d.selected, d.heldoutBest)
    <2>1. None \notin DOMAIN c.cand
      BY NoneIsNotRegistered
    <2>2. {d.best, d.selected, d.heldoutBest} \subseteq Maybe(DOMAIN d.cand)
      BY <1>2, <1>9 DEF Body, BestOK, Maybe
    <2>3. ASSUME d.best = None
          PROVE  \A y \in DOMAIN d.cand : ~d.cand[y].held /\ (y = Seed => ~d.cand[y].train)
      BY <1>2, <2>1, <2>3, <1>9 DEF Body, BestOK
    <2> QED BY <2>2, <2>3 DEF BestOK
  <1>12. ActiveOK(d.cand, d.best, d.active)
    BY <1>2, <1>9 DEF Body, ActiveOK, EvalOK
  <1>13. Lead(frames, d.cand, d.best)
    <2>1. /\ d.cand[x].train /\ d.cand[x].status = s
          /\ \A y \in DOMAIN c.cand : y # x => d.cand[y] = c.cand[y]
      BY <1>2, <1>5, <1>8
    <2>2. Lead(frames, c.cand, c.best) /\ Numbers(frames) /\ None \notin DOMAIN c.cand
      BY NoneIsNotRegistered DEF Body
    <2>3. CASE s = "rejected_full_train" /\ best = c.best
      <3>1. d.cand[x].status \notin Leading
        BY <2>1, <2>3 DEF Leading
      <3> QED BY <1>2, <1>9, <2>1, <2>2, <2>3, <3>1, LeadRejected
    <2>4. CASE best = x /\ Beats(c, x)
      BY <1>2, <1>9, <2>1, <2>2, <2>4, LeadAccepted DEF Beats
    <2> QED BY <2>3, <2>4
  <1>14. Body(d)
    BY <1>2, <1>9, <1>10, <1>11, <1>12, <1>13 DEF Body
  <1> QED BY <1>2, <1>9, <1>14

LEMMA FullTrainTurn ==
    ASSUME NEW c, c.active.stage = "candidate_full_train", NEW l, LoopOK(l, c),
           NEW e, EvalOK(c.cand, "candidate_full_train", e)
    PROVE  LoopOK(FinalizeFullTrain(l, e), c)
  <1> DEFINE x == e.cand
             best == Or(l.c.best, Seed)
             ok == Accepts(Total(x, "candidate_full_train", TrainRows),
                           Total(best, TrainStage(best), TrainRows))
             s == IF ok THEN "accepted" ELSE "rejected_full_train"
             b == IF ok THEN x ELSE l.c.best
             d == WithFullTrain(l.c, x, s, b)
             p == <<LogCand(x, "FullTrainEvaluated"),
                    LogCand(x, IF ok THEN "Accepted" ELSE "RejectedFullTrain")>>
             m == [l EXCEPT !.c = d, !.ws = @ \o p]
  <1>1. \/ FinalizeFullTrain(l, e) \in {l, Stop(l, "missing score vector")}
        \/ /\ HasFrames(x, "candidate_full_train", TrainRows)
           /\ HasFrames(best, TrainStage(best), TrainRows)
           /\ FinalizeFullTrain(l, e) = m
    <2>1. FinalizeFullTrain(l, e) =
            IF l.error # None THEN l
            ELSE IF ~(/\ HasFrames(x, "candidate_full_train", TrainRows)
                      /\ HasFrames(best, TrainStage(best), TrainRows))
            THEN Stop(l, "missing score vector")
            ELSE m
      BY DEF FinalizeFullTrain, WithFullTrain
    <2> HIDE DEF x, best, m
    <2> QED BY <2>1
  <1>2. x \in DOMAIN l.c.cand /\ Body(l.c) /\ Quiet(l.ws) /\ x # Seed
        /\ l.c.active.stage = "candidate_full_train"
    BY DEF LoopOK, EvalOK
  <1>3. HasFrames(x, "candidate_full_train", TrainRows) /\ HasFrames(best, TrainStage(best), TrainRows)
          => \/ s = "rejected_full_train" /\ b = l.c.best
             \/ s = "accepted" /\ b = x /\ Beats(l.c, x)
    <2> SUFFICES ASSUME HasFrames(x, "candidate_full_train", TrainRows),
                        HasFrames(best, TrainStage(best), TrainRows), ok
                 PROVE  Beats(l.c, x)
      OBVIOUS
    <2>1. TrainStage(x) = "candidate_full_train"
      BY <1>2 DEF TrainStage
    <2> HIDE DEF x
    <2>2. FullIn(frames, x) /\ FullIn(frames, best)
      BY <2>1 DEF HasFrames, FullIn, TrainKey
    <2>3. TotalIn(frames, x) \in Int /\ TotalIn(frames, best) \in Int
      BY <1>2, <2>2, TotalIsInteger DEF Body
    <2>4. /\ Total(x, "candidate_full_train", TrainRows) = TotalIn(frames, x)
          /\ Total(best, TrainStage(best), TrainRows) = TotalIn(frames, best)
      BY <2>1, TotalUp DEF TotalIn
    <2> HIDE DEF best
    <2>5. TotalIn(frames, x) >= TotalIn(frames, best)
      BY <2>3, <2>4 DEF Accepts
    <2> QED BY <2>2, <2>5 DEF Beats, best
  <1>4. Quiet(l.ws \o p)
    <2>1. Quiet(p)
      BY QuietLogs
    <2> HIDE DEF p
    <2> QED BY <1>2, <2>1, QuietJoin
  <1> DEFINE full == /\ HasFrames(x, "candidate_full_train", TrainRows)
                     /\ HasFrames(best, TrainStage(best), TrainRows)
  <1> HIDE DEF s, b, p, x, d, best
  <1>5. ASSUME full
        PROVE  Body(d) /\ d.pending = l.c.pending /\ d.run = l.c.run /\ d.active = l.c.active
               /\ DOMAIN d.cand = DOMAIN l.c.cand
    BY <1>2, <1>3, <1>5, FullTrainRow DEF d
  <1>6. ASSUME full PROVE LoopOK(m, c)
    <2>1. DOMAIN m = DOMAIN l /\ m.c = d /\ m.ws = l.ws \o p /\ m.group = l.group
      BY DEF LoopOK
    <2> HIDE DEF m, full
    <2> QED BY <1>4, <1>5, <1>6, <2>1 DEF LoopOK
  <1>7. LoopOK(Stop(l, "missing score vector"), c)
    BY LoopStops
  <1> HIDE DEF m
  <1> QED BY <1>1, <1>6, <1>7

LEMMA FullTrainLoopHolds ==
    ASSUME NEW c, Ready(c, "candidate_full_train")
    PROVE  LoopOK(FullTrainLoopResult(Loop(c), c.active.evals), c)
  <1> DEFINE s == c.active.evals
             base == Loop(c)
  <1>1. Len(s) \in Nat /\ \A i \in 1 .. Len(s) : EvalOK(c.cand, "candidate_full_train", s[i])
    BY ActiveEvals DEF Ready
  <1>2. LoopOK(base, c) /\ c.active.stage = "candidate_full_train"
    BY LoopStarts DEF Ready
  <1> HIDE DEF s, base
  <1>3. PICK f : /\ f[0] = base /\ FullTrainLoopResult(base, s) = f[Len(s)]
                 /\ \A n \in 1 .. Len(s) : f[n] = FinalizeFullTrain(f[n - 1], s[n])
    BY <1>1, FullTrainLoopTurns
  <1> DEFINE G == {n \in Nat : LoopOK(f[n], c)}
  <1>4. 0 \in G
    BY <1>2, <1>3
  <1>5. \A n \in 1 .. Len(s) : n - 1 \in G => n \in G
    BY <1>1, <1>2, <1>3, FullTrainTurn
  <1> HIDE DEF G
  <1>6. \A n \in 0 .. Len(s) : n \in G
    BY <1>1, <1>4, <1>5, UpTo
  <1>7. Len(s) \in G
    BY <1>1, <1>6
  <1> QED BY <1>3, <1>7 DEF G, s, base

LEMMA FinalizeFullTrainGroupSound ==
    ASSUME NEW c, Ready(c, "candidate_full_train"), c.run \in {"RolloutQueueing", "Evaluating"}
    PROVE  Sound(FinalizeFullTrainGroup(c))
  <1> DEFINE l == FullTrainLoopResult(Loop(c), c.active.evals)
             n == Len(l.c.queue)
             d == [l.c EXCEPT !.pidx = n, !.active = NoActive]
             tail == IF l.error # None THEN <<Fail(l.error)>> ELSE ToProposerWaiting(d)
  <1>1. FinalizeFullTrainGroup(c) = l.ws \o tail
    BY DEF FinalizeFullTrainGroup, Fold, FullTrainLoopResult, IsFullTrainLoop
  <1>2. LoopOK(l, c)
    BY FullTrainLoopHolds
  <1> HIDE DEF l
  <1>3. Sound(l.ws)
    BY <1>2, QuietIsSound DEF LoopOK
  <1>4. Sound(<<Fail(l.error)>>)
    BY QuietFail, QuietIsSound
  <1>5. Sound(ToProposerWaiting(d))
    <2>1. n \in Nat
      BY <1>2 DEF LoopOK, Body
    <2> HIDE DEF n
    <2>2. /\ DOMAIN d = CursorFields
        /\ d.gen = l.c.gen /\ d.queue = l.c.queue /\ d.hidx = l.c.hidx
        /\ d.reg = l.c.reg /\ d.cand = l.c.cand /\ d.best = l.c.best
        /\ d.selected = l.c.selected /\ d.heldoutBest = l.c.heldoutBest /\ d.pending = l.c.pending
          /\ d.active = NoActive /\ d.run = c.run /\ d.pidx = n
      BY <1>2 DEF LoopOK, Body, CursorFields
    <2> HIDE DEF d
    <2>3. Body(d)
      BY <1>2, <2>1, <2>2, NoActiveOK DEF LoopOK, Body
    <2>4. d.pending = NoJob
      BY <1>2, <2>2 DEF LoopOK
    <2> QED BY <2>2, <2>3, <2>4, NoActiveParts, ToProposerWaitingSound
  <1> HIDE DEF d
  <1>6. Sound(tail)
    BY <1>4, <1>5
  <1> HIDE DEF tail
  <1>7. Sound(l.ws \o tail)
    BY <1>3, <1>6, SoundJoin
  <1> QED BY <1>1, <1>7

LEMMA HeldoutRow ==
    ASSUME NEW c, Body(c), c.best # None, NEW x \in DOMAIN c.cand,
           HasFrames(x, "heldout", HeldoutRows), NEW n \in Nat,
           NEW d, d = WithHeldout(c, x, n)
    PROVE  Body(d) /\ d.pending = c.pending /\ d.run = c.run /\ d.active = c.active
           /\ DOMAIN d.cand = DOMAIN c.cand /\ d.hidx = n /\ d.best = c.best
           /\ \A y \in DOMAIN c.cand : d.cand[y].train = c.cand[y].train
  <1> DEFINE m == [c.cand EXCEPT ![x].held = TRUE]
             r == [c.cand[x] EXCEPT !.held = TRUE]
  <1>1. DOMAIN c = CursorFields /\ \A y \in DOMAIN c.cand : c.cand[y] \in CandidateRow
    BY DEF Body, CandOK
  <1>2. /\ DOMAIN d = CursorFields
        /\ d.gen = c.gen /\ d.queue = c.queue /\ d.pidx = c.pidx
        /\ d.reg = c.reg /\ d.best = c.best /\ d.selected = c.selected
        /\ d.heldoutBest = c.heldoutBest /\ d.active = c.active /\ d.pending = c.pending
        /\ d.run = c.run /\ d.cand = m /\ d.hidx = n
    BY <1>1 DEF CursorFields, WithHeldout
  <1>3. r \in CandidateRow /\ r.train = c.cand[x].train /\ r.status = c.cand[x].status
    BY <1>1 DEF CandidateRow
  <1>4. DOMAIN m = DOMAIN c.cand /\ m[x] = r
        /\ \A y \in DOMAIN c.cand : y # x => m[y] = c.cand[y]
    OBVIOUS
  <1> HIDE DEF m, r
  <1>5. CandOK(d.cand, d.reg)
    BY <1>1, <1>2, <1>3, <1>4, RowsChanged DEF Body
  <1>6. \A y \in DOMAIN c.cand : d.cand[y].train = c.cand[y].train
                               /\ d.cand[y].status = c.cand[y].status
    BY <1>2, <1>3, <1>4
  <1>7. BestOK(d.cand, d.best, d.selected, d.heldoutBest)
    BY <1>2, <1>4 DEF Body, BestOK
  <1>8. ActiveOK(d.cand, d.best, d.active)
    BY <1>2, <1>4, <1>6 DEF Body, ActiveOK, EvalOK
  <1>9. Lead(frames, d.cand, d.best)
    BY <1>2, <1>4, <1>6, LeadKept DEF Body
  <1>10. Body(d)
    BY <1>2, <1>4, <1>5, <1>7, <1>8, <1>9 DEF Body
  <1> QED BY <1>2, <1>4, <1>6, <1>10

\* After n candidates of a heldout group.
HeldoutLoopOK(l, c, n) ==
    /\ LoopOK(l, c) /\ l.c.best # None
    /\ l.error = None /\ n # 0 => l.c.hidx # 0

LEMMA HeldoutTurn ==
    ASSUME NEW c, NEW l, NEW n \in Nat \ {0}, HeldoutLoopOK(l, c, n - 1),
           NEW e, EvalOK(c.cand, "heldout", e)
    PROVE  HeldoutLoopOK(FinalizeHeldout(l, e), c, n)
  <1> DEFINE h == Max({l.c.hidx, e.offset + 1})
             d == WithHeldout(l.c, e.cand, h)
             m == [l EXCEPT !.c = d, !.ws = Append(@, LogCand(e.cand, "HeldoutScored"))]
             why == "heldout coverage incomplete"
  <1>1. FinalizeHeldout(l, e) = IF l.error # None THEN l
                                ELSE IF e.scored # Rows(e) THEN Stop(l, why) ELSE m
    BY DEF FinalizeHeldout, WithHeldout
  <1>2. /\ LoopOK(l, c) /\ Body(l.c) /\ l.c.best # None /\ e.cand \in DOMAIN l.c.cand
        /\ l.c.hidx \in Nat /\ e.offset \in Nat
    BY DEF HeldoutLoopOK, LoopOK, EvalOK, Body
  <1>3. ASSUME l.error # None PROVE HeldoutLoopOK(l, c, n)
    BY <1>3 DEF HeldoutLoopOK
  <1>4. HeldoutLoopOK(Stop(l, why), c, n)
    BY <1>2, LoopStops DEF Stop, LoopOK, HeldoutLoopOK, None
  <1>5. ASSUME e.scored = Rows(e) PROVE HeldoutLoopOK(m, c, n)
    <2>1. HasFrames(e.cand, "heldout", HeldoutRows)
      BY <1>5 DEF EvalOK, HasFrames, Rows
    <2>2. h \in Nat /\ e.offset + 1 <= h
      <3>1. l.c.hidx \in Nat /\ e.offset + 1 \in Nat
        BY <1>2
      <3> QED BY <3>1, MaxOfTwo
    <2> HIDE DEF h, d
    <2>4. Body(d) /\ d.pending = l.c.pending /\ d.run = l.c.run /\ d.active = l.c.active
          /\ DOMAIN d.cand = DOMAIN l.c.cand /\ d.hidx = h /\ d.best = l.c.best
          /\ \A y \in DOMAIN l.c.cand : d.cand[y].train = l.c.cand[y].train
      BY <1>2, <2>1, <2>2, HeldoutRow DEF d
    <2> DEFINE w == LogCand(e.cand, "HeldoutScored")
    <2>5. Quiet(Append(l.ws, w))
      <3>1. w.kind = "cand"
        BY DEF LogCand
      <3> HIDE DEF w
      <3>2. Plain(l.ws) /\ \A i \in 1 .. Len(l.ws) : l.ws[i].kind \in {"cand", "round", "fail"}
        BY <1>2 DEF LoopOK, Quiet
      <3> DEFINE t == Append(l.ws, w)
      <3>3. Plain(t) /\ Len(t) = Len(l.ws) + 1 /\ t[Len(l.ws) + 1] = w
            /\ \A i \in 1 .. Len(l.ws) : t[i] = l.ws[i]
        BY <3>2, PlainAppend
      <3>4. Len(l.ws) \in Nat
        BY <3>2, PlainParts
      <3> HIDE DEF t
      <3>5. \A i \in 1 .. Len(t) : i = Len(l.ws) + 1 \/ i \in 1 .. Len(l.ws)
        BY <3>3, <3>4
      <3>6. Quiet(t)
        BY <3>1, <3>2, <3>3, <3>5 DEF Quiet
      <3> QED BY <3>6 DEF t
    <2>6. DOMAIN m = DOMAIN l /\ m.c = d /\ m.ws = Append(l.ws, w) /\ m.group = l.group
      BY <1>2 DEF LoopOK
    <2> HIDE DEF m, w
    <2>7. LoopOK(m, c)
      BY <1>2, <2>4, <2>5, <2>6 DEF LoopOK
    <2>8. m.c.best # None
      BY <1>2, <2>4, <2>6
    <2>9. m.c.hidx # 0
      BY <2>4, <2>6, <1>2, <2>2
    <2> QED BY <2>7, <2>8, <2>9 DEF HeldoutLoopOK
  <1> HIDE DEF m
  <1> QED BY <1>1, <1>3, <1>4, <1>5

LEMMA HeldoutLoopHolds ==
    ASSUME NEW c, Ready(c, "heldout")
    PROVE  HeldoutLoopOK(HeldoutLoopResult(Loop(c), c.active.evals), c, Len(c.active.evals))
           /\ Len(c.active.evals) # 0
  <1> DEFINE s == c.active.evals
             base == Loop(c)
  <1>1. Len(s) \in Nat /\ \A i \in 1 .. Len(s) : EvalOK(c.cand, "heldout", s[i])
    BY ActiveEvals DEF Ready
  <1>2. HeldoutLoopOK(base, c, 0)
    BY LoopStarts DEF Ready, Loop, Body, ActiveOK, HeldoutLoopOK
  <1>3. Len(s) # 0
    <2>1. Plain(s) /\ s # <<>>
      BY DEF Ready, Body, ActiveOK
    <2> HIDE DEF s
    <2> QED BY <2>1 DEF Plain
  <1> HIDE DEF s, base
  <1>4. PICK f : /\ f[0] = base /\ HeldoutLoopResult(base, s) = f[Len(s)]
                 /\ \A n \in 1 .. Len(s) : f[n] = FinalizeHeldout(f[n - 1], s[n])
    BY <1>1, HeldoutLoopTurns
  <1> DEFINE G == {n \in Nat : HeldoutLoopOK(f[n], c, n)}
  <1>5. 0 \in G
    BY <1>2, <1>4
  <1>6. \A n \in 1 .. Len(s) : n - 1 \in G => n \in G
    BY <1>1, <1>4, HeldoutTurn
  <1> HIDE DEF G
  <1>7. \A n \in 0 .. Len(s) : n \in G
    BY <1>1, <1>5, <1>6, UpTo
  <1>8. Len(s) \in G
    BY <1>1, <1>7
  <1> QED BY <1>3, <1>4, <1>8 DEF G, s, base

LEMMA FinalizeHeldoutGroupSound ==
    ASSUME NEW c, Ready(c, "heldout"), c.run = "Evaluating"
    PROVE  Sound(FinalizeHeldoutGroup(c))
  <1> DEFINE l == HeldoutLoopResult(Loop(c), c.active.evals)
             d == [l.c EXCEPT !.active = NoActive, !.phase = "Heldout"]
             tail == IF l.error # None THEN <<Fail(l.error)>> ELSE <<Save(d)>>
  <1>1. FinalizeHeldoutGroup(c) = l.ws \o tail
    BY DEF FinalizeHeldoutGroup, Fold, HeldoutLoopResult, IsHeldoutLoop
  <1>2. LoopOK(l, c) /\ (l.error = None => l.c.hidx # 0)
    BY HeldoutLoopHolds DEF HeldoutLoopOK
  <1> HIDE DEF l
  <1>3. Sound(l.ws)
    BY <1>2, QuietIsSound DEF LoopOK
  <1>4. Sound(<<Fail(l.error)>>)
    BY QuietFail, QuietIsSound
  <1>5. ASSUME l.error = None PROVE Sound(<<Save(d)>>)
    <2>1. /\ DOMAIN d = CursorFields
        /\ d.gen = l.c.gen /\ d.queue = l.c.queue /\ d.pidx = l.c.pidx
        /\ d.hidx = l.c.hidx /\ d.reg = l.c.reg /\ d.cand = l.c.cand
        /\ d.best = l.c.best /\ d.selected = l.c.selected /\ d.heldoutBest = l.c.heldoutBest
        /\ d.pending = l.c.pending
          /\ d.active = NoActive /\ d.run = c.run /\ d.phase = "Heldout"
      BY <1>2 DEF LoopOK, Body, CursorFields
    <2> HIDE DEF d
    <2>2. Body(d)
      BY <1>2, <2>1, NoActiveOK DEF LoopOK, Body
    <2>3. d.pending = NoJob /\ d.hidx # 0
      BY <1>2, <1>5, <2>1 DEF LoopOK
    <2>4. CursorOK(d)
      BY <2>1, <2>2, <2>3, NoPending, NoActiveParts DEF CursorOK, Live, Untrained, Stands
    <2> QED BY <2>3, <2>4, SoundSave
  <1> HIDE DEF d
  <1>6. Sound(tail)
    BY <1>4, <1>5
  <1> HIDE DEF tail
  <1>7. Sound(l.ws \o tail)
    BY <1>3, <1>6, SoundJoin
  <1> QED BY <1>1, <1>7

LEMMA FinalizeReferenceSound ==
    ASSUME NEW c, Ready(c, "parent_minibatch_reference"),
           c.run \in {"RolloutQueueing", "Evaluating"}
    PROVE  Sound(FinalizeReference(c))
  BY ToProposerWaitingSound DEF Ready, FinalizeReference

\* Whatever was evaluated, its results leave the cursor as it should be.
LEMMA FinalizeSound ==
    ASSUME NEW c, Body(c), c.pending = NoJob, StageRun(c.active.stage, c.run)
    PROVE  Sound(Finalize(c))
  <1> DEFINE d == Counted(c)
  <1>1. DOMAIN c = CursorFields
    BY DEF Body
  <1>2. /\ DOMAIN d = CursorFields
        /\ d.gen = c.gen /\ d.queue = c.queue /\ d.pidx = c.pidx
        /\ d.hidx = c.hidx /\ d.reg = c.reg /\ d.cand = c.cand
        /\ d.best = c.best /\ d.selected = c.selected /\ d.heldoutBest = c.heldoutBest
        /\ d.active = c.active /\ d.pending = c.pending
        /\ d.run = IF c.run = "RolloutRunning" THEN "Evaluating" ELSE c.run
    BY <1>1, CountedParts
  <1> HIDE DEF d
  <1>3. Body(d) /\ d.pending = NoJob
    BY <1>2, SameBody
  <1>4. /\ d.run \in {"RolloutQueueing", "Evaluating"}
        /\ c.active.stage \in {"seed_full_train", "heldout"} => d.run = "Evaluating"
    BY <1>2 DEF StageRun, Going
  <1>5. CASE c.active.stage = "seed_full_train"
    BY <1>5, <1>2, <1>3, <1>4, FinalizeSeedSound DEF Finalize, d, Ready
  <1>6. CASE c.active.stage = "parent_minibatch_reference"
    BY <1>6, <1>2, <1>3, <1>4, FinalizeReferenceSound DEF Finalize, d, Ready
  <1>7. CASE c.active.stage = "candidate_minibatch"
    BY <1>7, <1>2, <1>3, <1>4, FinalizeMinibatchGroupSound DEF Finalize, d, Ready
  <1>8. CASE c.active.stage = "candidate_full_train"
    BY <1>8, <1>2, <1>3, <1>4, FinalizeFullTrainGroupSound DEF Finalize, d, Ready
  <1>9. CASE c.active.stage = "heldout"
    BY <1>9, <1>2, <1>3, <1>4, FinalizeHeldoutGroupSound DEF Finalize, d, Ready
  <1>10. c.active.stage \in {"seed_full_train", "parent_minibatch_reference",
                             "candidate_minibatch", "candidate_full_train", "heldout"}
    BY DEF StageRun, RolloutStages, Stage
  <1> QED BY <1>5, <1>6, <1>7, <1>8, <1>9, <1>10

-----------------------------------------------------------------------------
(* Deferring the rest of an evaluation, and planning its next batch *)

WithStatus(c, x, s, n) == [c EXCEPT !.count = n, !.cand[x].status = s]

LEMMA StatusRow ==
    ASSUME NEW c, Body(c), NEW x \in DOMAIN c.cand,
           NEW s \in {"deferred_budget", c.cand[x].status}, NEW n,
           NEW d, d = WithStatus(c, x, s, n)
    PROVE  Body(d) /\ d.pending = c.pending /\ d.run = c.run /\ d.active = c.active
           /\ d.phase = c.phase /\ DOMAIN d.cand = DOMAIN c.cand
  <1> DEFINE r == [c.cand[x] EXCEPT !.status = s]
             m == [c.cand EXCEPT ![x] = r]
  <1>1. c.cand[x] \in CandidateRow /\ DOMAIN c = CursorFields
    BY DEF Body, CandOK
  <1>2. /\ DOMAIN d = CursorFields
        /\ d.gen = c.gen /\ d.queue = c.queue /\ d.pidx = c.pidx
        /\ d.hidx = c.hidx /\ d.reg = c.reg /\ d.best = c.best
        /\ d.selected = c.selected /\ d.heldoutBest = c.heldoutBest /\ d.active = c.active
        /\ d.pending = c.pending
        /\ d.run = c.run /\ d.phase = c.phase /\ d.cand = m
    BY <1>1 DEF WithStatus, CursorFields
  <1>3. r \in CandidateRow /\ r.held = c.cand[x].held /\ r.train = c.cand[x].train
        /\ (r.status \in Leading => r.status = c.cand[x].status)
    BY <1>1 DEF CandidateRow, Leading
  <1>4. DOMAIN m = DOMAIN c.cand /\ m[x] = r
        /\ \A y \in DOMAIN c.cand : y # x => m[y] = c.cand[y]
    OBVIOUS
  <1> HIDE DEF m, r
  <1>5. \A y \in DOMAIN c.cand : c.cand[y] \in CandidateRow
    BY DEF Body, CandOK
  <1>6. Body(d)
    BY <1>2, <1>3, <1>4, <1>5, BodyRowsChanged
  <1> QED BY <1>2, <1>4, <1>6

LEMMA StatusTrain ==
    ASSUME NEW c, Body(c), NEW x \in DOMAIN c.cand, NEW s, NEW n, NEW y \in DOMAIN c.cand
    PROVE  WithStatus(c, x, s, n).cand[y].train = c.cand[y].train
  <1> DEFINE r == [c.cand[x] EXCEPT !.status = s]
             m == [c.cand EXCEPT ![x] = r]
  <1>1. c.cand[x] \in CandidateRow /\ DOMAIN c = CursorFields
    BY DEF Body, CandOK
  <1>2. WithStatus(c, x, s, n).cand = m
    BY <1>1 DEF WithStatus, CursorFields
  <1>3. r.train = c.cand[x].train
    BY <1>1 DEF CandidateRow
  <1> HIDE DEF r
  <1>4. m[y].train = c.cand[y].train
    BY <1>3
  <1> QED BY <1>2, <1>4

\* The candidates deferred so far lost their status and nothing else.
DeferralOK(d, c) ==
    /\ Body(d) /\ d.pending = c.pending /\ d.run = c.run /\ d.active = c.active
    /\ DOMAIN d.cand = DOMAIN c.cand
    /\ \A y \in DOMAIN c.cand : d.cand[y].train = c.cand[y].train

LEMMA DeferralTurn ==
    ASSUME NEW c, NEW d, DeferralOK(d, c), NEW e, e.cand \in DOMAIN c.cand
    PROVE  DeferralOK(Deferred(d, e), c)
  <1> DEFINE x == e.cand
             n == d.count + Cardinality(e.scored)
             s == IF d.active.stage \in {"candidate_minibatch", "candidate_full_train"}
                  THEN "deferred_budget" ELSE d.cand[x].status
             t == WithStatus(d, x, s, n)
  <1>1. Deferred(d, e) = t
    BY DEF Deferred, WithStatus
  <1>2. Body(d) /\ x \in DOMAIN d.cand
    BY DEF DeferralOK
  <1>3. s \in {"deferred_budget", d.cand[x].status}
    OBVIOUS
  <1> HIDE DEF s, n, x, t
  <1>4. Body(t) /\ t.pending = d.pending /\ t.run = d.run /\ t.active = d.active
        /\ DOMAIN t.cand = DOMAIN d.cand
        /\ \A y \in DOMAIN d.cand : t.cand[y].train = d.cand[y].train
    <2>1. Body(t) /\ t.pending = d.pending /\ t.run = d.run /\ t.active = d.active
          /\ DOMAIN t.cand = DOMAIN d.cand
      BY <1>2, <1>3, StatusRow DEF t
    <2>2. ASSUME NEW y \in DOMAIN d.cand PROVE t.cand[y].train = d.cand[y].train
      BY <1>2, StatusTrain DEF t
    <2> QED BY <2>1, <2>2
  <1>5. DeferralOK(t, c)
    BY <1>4 DEF DeferralOK
  <1> QED BY <1>1, <1>5

LEMMA DeferralHolds ==
    ASSUME NEW c, Body(c), NEW s, Len(s) \in Nat,
           \A i \in 1 .. Len(s) : s[i].cand \in DOMAIN c.cand
    PROVE  DeferralOK(DeferralResult(c, s), c)
  <1>1. PICK f : /\ f[0] = c /\ DeferralResult(c, s) = f[Len(s)]
                 /\ \A n \in 1 .. Len(s) : f[n] = Deferred(f[n - 1], s[n])
    BY DeferralTurns
  <1> DEFINE G == {n \in Nat : DeferralOK(f[n], c)}
  <1>2. 0 \in G
    BY <1>1 DEF DeferralOK
  <1>3. \A n \in 1 .. Len(s) : n - 1 \in G => n \in G
    BY <1>1, DeferralTurn
  <1> HIDE DEF G
  <1>4. \A n \in 0 .. Len(s) : n \in G
    BY <1>2, <1>3, UpTo
  <1>5. DeferralOK(f[Len(s)], c)
    BY <1>4 DEF G
  <1> QED BY <1>1, <1>5

LEMMA DeferSound ==
    ASSUME NEW c, Body(c), c.pending = NoJob, StageRun(c.active.stage, c.run)
    PROVE  Sound(Defer(c))
  <1> DEFINE evals == c.active.evals
             over == {e \in Range(evals) : EvalDone(e)}
             done == Keep(evals, over)
             rest == Keep(evals, Range(evals) \ over)
             b    == RolloutsFinished(c)
             d    == Fold(Deferred, b, rest)
             d1   == [d EXCEPT !.active.evals = done]
             d2   == [d EXCEPT !.pidx = Len(d.queue), !.active = NoActive]
  <1>1. Len(evals) \in Nat
        /\ \A i \in 1 .. Len(evals) : EvalOK(c.cand, c.active.stage, evals[i])
    BY ActiveEvals
  <1>2. /\ Plain(done) /\ DOMAIN done = 1 .. Len(done)
        /\ \A i \in 1 .. Len(done) : EvalOK(c.cand, c.active.stage, done[i])
    <2> HIDE DEF over
    <2>1. done \in Seq(over) /\ \A i \in DOMAIN done : \E j \in 1 .. Len(evals) : done[i] = evals[j]
      BY <1>1, KeptIn
    <2> HIDE DEF done, evals
    <2>2. Plain(done) /\ DOMAIN done = 1 .. Len(done)
      BY <2>1, PlainIsSequence
    <2> QED BY <1>1, <2>1, <2>2
  <1>3. /\ Len(rest) \in Nat
        /\ \A i \in 1 .. Len(rest) : rest[i].cand \in DOMAIN c.cand
    <2> HIDE DEF over
    <2> DEFINE S == Range(evals) \ over
    <2>0. rest = Keep(evals, S)
      OBVIOUS
    <2> HIDE DEF S, rest, evals
    <2>1. rest \in Seq(S) /\ \A i \in DOMAIN rest : \E j \in 1 .. Len(evals) : rest[i] = evals[j]
      BY <1>1, <2>0, KeptIn
    <2>2. Len(rest) \in Nat /\ DOMAIN rest = 1 .. Len(rest)
      BY <2>1
    <2> QED BY <1>1, <2>1, <2>2 DEF EvalOK
  <1>4. /\ Body(b) /\ b.pending = NoJob /\ b.active = c.active /\ b.cand = c.cand
        /\ b.run \in {"RolloutQueueing", "Evaluating"}
        /\ c.active.stage \in {"seed_full_train", "heldout"} => b.run = "Evaluating"
    <2>1. DOMAIN c = CursorFields
      BY DEF Body
    <2>2. /\ DOMAIN b = CursorFields
        /\ b.gen = c.gen /\ b.queue = c.queue /\ b.pidx = c.pidx
        /\ b.hidx = c.hidx /\ b.reg = c.reg /\ b.cand = c.cand
        /\ b.best = c.best /\ b.selected = c.selected /\ b.heldoutBest = c.heldoutBest
        /\ b.active = c.active /\ b.pending = c.pending
        /\ b.run = IF c.run = "RolloutRunning" THEN "Evaluating" ELSE c.run
      BY <2>1, RunToParts DEF RolloutsFinished
    <2> HIDE DEF b
    <2>3. Body(b)
      BY <2>2, SameBody
    <2> QED BY <2>2, <2>3 DEF StageRun, Going
  <1>5. DeferralOK(d, b)
    <2> HIDE DEF b, rest
    <2>1. d = DeferralResult(b, rest)
      BY DEF d, Fold, DeferralResult, IsDeferral
    <2> HIDE DEF d
    <2>2. DeferralOK(DeferralResult(b, rest), b)
      BY <1>3, <1>4, DeferralHolds
    <2> QED BY <2>1, <2>2
  <1> DEFINE t == IF done # <<>> THEN Finalize(d1) ELSE ToProposerWaiting(d2)
  <1>6. Defer(c) = t
    BY DEF Defer
  <1> HIDE DEF b, d, rest, over
  <1>7. /\ Body(d) /\ DOMAIN d = CursorFields /\ d.pending = NoJob /\ d.active = c.active
        /\ DOMAIN d.cand = DOMAIN c.cand
        /\ \A y \in DOMAIN c.cand : d.cand[y].train = c.cand[y].train
        /\ d.run \in {"RolloutQueueing", "Evaluating"}
        /\ c.active.stage \in {"seed_full_train", "heldout"} => d.run = "Evaluating"
    BY <1>5, <1>4 DEF DeferralOK, Body
  <1>8. done # <<>> => Sound(Finalize(d1))
    <2> HAVE done # <<>>
    <2> HIDE DEF done, evals
    <2>1. DOMAIN d.active = {"stage", "gen", "evals"}
      BY <1>7 DEF Body, ActiveOK
    <2> DEFINE a == [d.active EXCEPT !.evals = done]
    <2>2. DOMAIN a = {"stage", "gen", "evals"} /\ a.stage = c.active.stage /\ a.evals = done
      BY <1>7, <2>1
    <2>3. /\ DOMAIN d1 = CursorFields
        /\ d1.gen = d.gen /\ d1.queue = d.queue /\ d1.pidx = d.pidx
        /\ d1.hidx = d.hidx /\ d1.reg = d.reg /\ d1.cand = d.cand
        /\ d1.best = d.best /\ d1.selected = d.selected /\ d1.heldoutBest = d.heldoutBest
        /\ d1.pending = d.pending
        /\ d1.run = d.run /\ d1.active = a
      BY <1>7 DEF CursorFields
    <2> HIDE DEF d1, a
    <2>4. ActiveOK(d1.cand, d1.best, d1.active)
      <3>1. ASSUME NEW i \in 1 .. Len(done) PROVE EvalOK(d.cand, c.active.stage, done[i])
        <4>1. EvalOK(c.cand, c.active.stage, done[i])
          BY <1>2
        <4> QED BY <1>7, <4>1 DEF EvalOK
      <3>2. ActiveOK(d.cand, d.best, d.active) /\ c.active.stage # "none"
        BY <1>7 DEF Body, StageRun, RolloutStages, Stage
      <3> QED BY <1>2, <1>7, <2>2, <2>3, <3>1, <3>2 DEF ActiveOK
    <2>5. Body(d1)
      BY <1>7, <2>3, <2>4 DEF Body
    <2>6. StageRun(d1.active.stage, d1.run)
      BY <1>7, <2>2, <2>3 DEF StageRun, Going
    <2> QED BY <1>7, <2>3, <2>5, <2>6, FinalizeSound
  <1>9. Sound(ToProposerWaiting(d2))
    <2> DEFINE q == Len(d.queue)
    <2>1. q \in Nat
      BY <1>7 DEF Body
    <2> HIDE DEF q
    <2>2. /\ DOMAIN d2 = CursorFields
        /\ d2.gen = d.gen /\ d2.queue = d.queue /\ d2.hidx = d.hidx
        /\ d2.reg = d.reg /\ d2.cand = d.cand /\ d2.best = d.best
        /\ d2.selected = d.selected /\ d2.heldoutBest = d.heldoutBest /\ d2.pending = d.pending
        /\ d2.run = d.run /\ d2.active = NoActive /\ d2.pidx = q
      BY <1>7 DEF CursorFields, q
    <2> HIDE DEF d2
    <2>3. ActiveOK(d2.cand, d2.best, d2.active)
      BY <2>2, NoActiveOK
    <2>4. Body(d2)
      BY <1>7, <2>1, <2>2, <2>3 DEF Body
    <2> QED BY <1>7, <2>2, <2>4, ToProposerWaitingSound, NoActiveParts
  <1> HIDE DEF d1, d2, done
  <1>10. Sound(t)
    BY <1>8, <1>9
  <1> QED BY <1>6, <1>10

LEMMA StartLogQuiet ==
    ASSUME NEW cand, NEW best, NEW a, ActiveOK(cand, best, a) PROVE Quiet(StartLog(a))
  <1> DEFINE n == Len(a.evals)
             log == [i \in 1 .. n |-> LogCand(a.evals[i].cand, EvaluatingState(a.stage))]
  <1>1. n \in Nat /\ DOMAIN a.evals = 1 .. n
    BY PlainParts DEF ActiveOK
  <1>2. StartLog(a) = IF a.stage = "parent_minibatch_reference" THEN <<>> ELSE log
    BY <1>1 DEF StartLog
  <1>3. \A i \in 1 .. n : log[i].kind = "cand"
    BY DEF LogCand
  <1>4. log = [i \in 1 .. n |-> log[i]] /\ DOMAIN log = 1 .. n
    OBVIOUS
  <1> HIDE DEF n, log
  <1>5. log \in Seq(Range(log)) /\ Len(log) = n
    BY <1>1, <1>4 DEF Range
  <1>6. Quiet(log)
    BY <1>3, <1>5 DEF Quiet, Plain
  <1> QED BY <1>2, <1>6, QuietNothing

LEMMA RunningParts ==
    ASSUME NEW c, DOMAIN c = CursorFields
    PROVE  LET d == Running(c) IN
        /\ DOMAIN d = CursorFields
        /\ d.gen = c.gen /\ d.queue = c.queue /\ d.pidx = c.pidx
        /\ d.hidx = c.hidx /\ d.reg = c.reg /\ d.cand = c.cand
        /\ d.best = c.best /\ d.selected = c.selected /\ d.heldoutBest = c.heldoutBest
        /\ d.active = c.active /\ d.pending = c.pending
        /\ d.phase = c.phase
        /\ d.run = IF c.run \in {"Ready", "Evaluating", "RolloutQueueing"}
                   THEN "RolloutRunning" ELSE c.run
  <1> DEFINE b == RunTo(c, {"Ready", "Evaluating"}, "RolloutQueueing")
             d == RunTo(b, {"RolloutQueueing"}, "RolloutRunning")
  <1>1. /\ DOMAIN b = CursorFields
        /\ b.gen = c.gen /\ b.queue = c.queue /\ b.pidx = c.pidx
        /\ b.hidx = c.hidx /\ b.reg = c.reg /\ b.cand = c.cand
        /\ b.best = c.best /\ b.selected = c.selected /\ b.heldoutBest = c.heldoutBest
        /\ b.active = c.active /\ b.pending = c.pending
        /\ b.phase = c.phase
        /\ b.run = IF c.run \in {"Ready", "Evaluating"} THEN "RolloutQueueing" ELSE c.run
    BY RunToParts
  <1> HIDE DEF b
  <1>2. /\ DOMAIN d = CursorFields
        /\ d.gen = b.gen /\ d.queue = b.queue /\ d.pidx = b.pidx
        /\ d.hidx = b.hidx /\ d.reg = b.reg /\ d.cand = b.cand
        /\ d.best = b.best /\ d.selected = b.selected /\ d.heldoutBest = b.heldoutBest
        /\ d.active = b.active /\ d.pending = b.pending
        /\ d.phase = b.phase
        /\ d.run = IF b.run \in {"RolloutQueueing"} THEN "RolloutRunning" ELSE b.run
    BY <1>1, RunToParts
  <1>3. Running(c) = d
    BY DEF Running, b
  <1> HIDE DEF d
  <1> QED BY <1>1, <1>2, <1>3

\* The rows a batch asks for are a sequence.
LEMMA NextAsksPlain ==
    ASSUME NEW a, NEW cand, NEW best, ActiveOK(cand, best, a) PROVE Plain(NextAsks(a))
  <1> DEFINE s == a.evals
  <1>1. Len(s) \in Nat /\ \A i \in 1 .. Len(s) : Plain(s[i].rows)
    BY PlainParts DEF ActiveOK, EvalOK
  <1> DEFINE nil == <<>>
  <1>2. Plain(nil)
    BY NoActiveParts
  <1> HIDE DEF nil, s
  <1>3. PICK f : /\ f[0] = nil /\ AskLoopResult(nil, s) = f[Len(s)]
                 /\ \A n \in 1 .. Len(s) : f[n] = MoreAsks(f[n - 1], s[n])
    BY <1>1, AskLoopTurns
  <1> DEFINE G == {n \in Nat : Plain(f[n])}
  <1>4. 0 \in G
    BY <1>2, <1>3
  <1>5. ASSUME NEW b, Plain(b), NEW e, Plain(e.rows) PROVE Plain(MoreAsks(b, e))
    <2> DEFINE left == Keep(e.rows, Rows(e) \ RowsDone(e))
               more == [j \in DOMAIN left |-> <<e.cand, left[j]>>]
    <2>1. MoreAsks(b, e) = b \o more
      BY DEF MoreAsks
    <2>2. Plain(left)
      <3> DEFINE D == Range(e.rows)
                 T == Rows(e) \ RowsDone(e)
      <3>1. e.rows \in Seq(D)
        BY <1>5 DEF Plain
      <3>2. left = Keep(e.rows, T)
        OBVIOUS
      <3> HIDE DEF left, D, T
      <3> QED BY <3>1, <3>2, KeptAmong, PlainIsSequence
    <2> HIDE DEF left
    <2>3. Len(left) \in Nat /\ DOMAIN left = 1 .. Len(left)
      BY <2>2, PlainParts
    <2>4. more \in [1 .. Len(left) -> Range(more)]
      BY <2>3 DEF Range
    <2> HIDE DEF more
    <2> DEFINE S == Range(b) \cup Range(more)
    <2>5. more \in Seq(S) /\ b \in Seq(S)
      BY <2>3, <2>4, <1>5 DEF Plain
    <2> HIDE DEF S
    <2>6. b \o more \in Seq(S)
      BY <2>5
    <2> QED BY <2>1, <2>6, PlainIsSequence
  <1>6. \A n \in 1 .. Len(s) : n - 1 \in G => n \in G
    BY <1>1, <1>3, <1>5
  <1> HIDE DEF G
  <1>7. \A n \in 0 .. Len(s) : n \in G
    BY <1>1, <1>4, <1>6, UpTo
  <1> DEFINE asks == Fold(MoreAsks, nil, s)
             n == AtMost(Chunk, Len(asks))
  <1>8. asks = AskLoopResult(nil, s)
    BY DEF Fold, AskLoopResult, IsAskLoop
  <1>9. Plain(asks)
    BY <1>1, <1>3, <1>7, <1>8 DEF G
  <1>10. NextAsks(a) = SubSeq(asks, 1, n)
    BY DEF NextAsks, nil, s
  <1>11. asks \in Seq(Range(asks)) /\ Len(asks) \in Nat
    BY <1>9, PlainParts DEF Plain
  <1>12. n \in Nat /\ n <= Len(asks)
    BY <1>11, GepaAssumption DEF AtMost
  <1> HIDE DEF asks, n
  <1>13. SubSeq(asks, 1, n) \in Seq(Range(asks))
    BY <1>11, <1>12
  <1> QED BY <1>10, <1>13, PlainIsSequence

LEMMA PlanNextSound ==
    ASSUME NEW c, Live(c), c.pending = NoJob, c.active.stage \in RolloutStages,
           c.phase # "ProposerWaiting"
    PROVE  Sound(PlanNext(c))
  <1> DEFINE asks  == NextAsks(c.active)
             fresh == \A i \in DOMAIN c.active.evals : RowsDone(c.active.evals[i]) = {}
             group == c.active.stage \in GroupStage
             b     == Running(c)
             d     == IF fresh THEN b ELSE c
             key   == RolloutJob(c.active.stage, asks)
             start == IF fresh THEN StartLog(c.active) ELSE <<>>
             m     == [d EXCEPT !.pending = key]
             some  == Capacity(c, c.active.stage) < Len(asks)
             plan  == <<PlanJob(key), Save(m)>>
  <1>1. PlanNext(c) = IF some THEN IF group THEN Defer(c) ELSE start \o Defer(d)
                      ELSE start \o plan
    BY DEF PlanNext
  <1>2. Body(c) /\ DOMAIN c = CursorFields
    BY DEF Live, Untrained, Body
  <1>3. /\ StageRun(c.active.stage, c.run) /\ c.run \in Going
        /\ Stands(c.phase, c.active.stage, "RolloutRunning", c.hidx, c.best)
    BY DEF Live, Untrained, Stands, StageRun, RolloutStages, Stage, Going
  <1>4. /\ DOMAIN b = CursorFields
        /\ b.gen = c.gen /\ b.queue = c.queue /\ b.pidx = c.pidx
        /\ b.hidx = c.hidx /\ b.reg = c.reg /\ b.cand = c.cand
        /\ b.best = c.best /\ b.selected = c.selected /\ b.heldoutBest = c.heldoutBest
        /\ b.active = c.active /\ b.pending = c.pending
        /\ b.phase = c.phase /\ b.run = "RolloutRunning"
    <2>1. /\ DOMAIN b = CursorFields
        /\ b.gen = c.gen /\ b.queue = c.queue /\ b.pidx = c.pidx
        /\ b.hidx = c.hidx /\ b.reg = c.reg /\ b.cand = c.cand
        /\ b.best = c.best /\ b.selected = c.selected /\ b.heldoutBest = c.heldoutBest
        /\ b.active = c.active /\ b.pending = c.pending
        /\ b.phase = c.phase
        /\ b.run = IF c.run \in {"Ready", "Evaluating", "RolloutQueueing"}
                   THEN "RolloutRunning" ELSE c.run
      BY <1>2, RunningParts
    <2> HIDE DEF b
    <2> QED BY <1>3, <2>1 DEF Going
  <1> HIDE DEF b
  <1>5. Quiet(start)
    <2>1. Quiet(StartLog(c.active))
      BY <1>2, StartLogQuiet DEF Body
    <2> HIDE DEF fresh
    <2> QED BY <2>1, QuietNothing
  <1>6. Live(b)
    BY <1>2, <1>4, SameBody, <1>3 DEF Live, Untrained
  <1>7. /\ Live(d) /\ Body(d) /\ DOMAIN d = CursorFields /\ d.pending = NoJob
        /\ d.active = c.active
    <2>1. b.pending = NoJob /\ b.active = c.active /\ DOMAIN b = CursorFields
      BY <1>4
    <2>2. Body(b)
      BY <1>6 DEF Live, Untrained
    <2> HIDE DEF fresh
    <2> QED BY <1>2, <1>6, <2>1, <2>2
  <1>8. StageRun(d.active.stage, d.run)
    <2>1. StageRun(b.active.stage, b.run)
      BY <1>3, <1>4 DEF StageRun, Going
    <2> HIDE DEF fresh
    <2> QED BY <1>3, <2>1
  <1> HIDE DEF start, d
  <1>9. Sound(Defer(c)) /\ Sound(start \o Defer(d))
    BY <1>2, <1>3, DeferSound, <1>7, <1>8, <1>5, QuietIsSound, SoundJoin
  <1>10. Sound(start \o plan)
    <2>1. key[1] = c.active.stage /\ key[2] = asks
      BY DEF RolloutJob
    <2>0. Plain(asks)
      BY <1>2, NextAsksPlain DEF Body
    <2> HIDE DEF asks
    <2> HIDE DEF key
    <2>2. /\ DOMAIN m = CursorFields
        /\ m.gen = d.gen /\ m.queue = d.queue /\ m.pidx = d.pidx
        /\ m.hidx = d.hidx /\ m.reg = d.reg /\ m.cand = d.cand
        /\ m.best = d.best /\ m.selected = d.selected /\ m.heldoutBest = d.heldoutBest
        /\ m.active = d.active
        /\ m.phase = d.phase /\ m.run = d.run /\ m.pending = key
      BY <1>7 DEF CursorFields
    <2> HIDE DEF m
    <2>3. Body(m)
      BY <1>7, <2>2, SameBody
    <2>4. PendingOK(m.pending, m.active.stage, m.gen)
      BY <1>7, <2>0, <2>1, <2>2 DEF PendingOK, RolloutStages, Stage
    <2>5. Live(m)
      BY <1>7, <2>2, <2>3, <2>4 DEF Live, Untrained
    <2>6. Sound(plan)
      BY <2>2, <2>5, SoundPlan DEF CursorOK
    <2>7. Sound(start)
      BY <1>5, QuietIsSound
    <2> HIDE DEF plan
    <2> QED BY <2>6, <2>7, SoundJoin
  <1> HIDE DEF some, group, plan
  <1> QED BY <1>1, <1>9, <1>10

LEMMA EvaluateSound ==
    ASSUME NEW c, Live(c), c.pending = NoJob, c.active.stage \in RolloutStages,
           c.phase # "ProposerWaiting"
    PROVE  Sound(Evaluate(c))
  BY FinalizeSound, PlanNextSound DEF Live, Untrained, Stands, StageRun, RolloutStages, Stage, Going, Evaluate

-----------------------------------------------------------------------------
(* The first phases *)

LEMMA InitializeRunSound == ASSUME Numbers(frames) PROVE Sound(InitializeRun(NewCursor))
  <1> DEFINE r == NewCandidate(None, NoGen)
             cand == Put(NewCursor.cand, Seed, r)
             d == [NewCursor EXCEPT !.reg = <<Seed>>, !.cand = cand, !.phase = "SeedFullTrain"]
  <1>1. r \in CandidateRow /\ r.held = FALSE /\ r.train = FALSE
    BY DEF NewCandidate, CandidateRow
  <1>2. DOMAIN NewCursor.cand = {}
    BY DEF NewCursor
  <1>3. DOMAIN cand = {Seed} /\ cand[Seed] = r
    <2> HIDE DEF r
    <2> QED BY <1>2 DEF Put
  <1> HIDE DEF cand, r
  <1>4. /\ DOMAIN d = CursorFields /\ d.gen = 0 /\ d.pidx = 0 /\ d.hidx = 0 /\ d.queue = <<>>
        /\ d.cand = cand /\ d.reg = <<Seed>>
        /\ d.best = None /\ d.selected = None /\ d.heldoutBest = None
        /\ d.active = NoActive /\ d.pending = NoJob /\ d.phase = "SeedFullTrain"
        /\ d.run = "Ready"
    BY DEF NewCursor, CursorFields
  <1> HIDE DEF d
  <1>5. CandOK(d.cand, d.reg)
    BY PlainOne, <1>1, <1>3, <1>4 DEF Ids, Range, CandOK
  <1>6. BestOK(d.cand, d.best, d.selected, d.heldoutBest)
    BY <1>1, <1>3, <1>4 DEF BestOK, Maybe
  <1>7. ActiveOK(d.cand, d.best, d.active)
    BY <1>4, NoActiveOK
  <1>8. Body(d)
    <2>1. Lead(frames, d.cand, d.best)
      BY <1>1, <1>3, <1>4 DEF Lead, SelectableIn
    <2> QED BY <1>3, <1>4, <1>5, <1>6, <1>7, <2>1 DEF Body
  <1>9. CursorOK(d) /\ d.pending = NoJob
    BY <1>4, <1>8, NoActiveParts, NoPending DEF CursorOK, Live, Untrained, Stands
  <1>10. InitializeRun(NewCursor) = <<LogCand(Seed, "Registered"), Save(d)>>
    BY DEF InitializeRun, d, cand, r
  <1> QED BY <1>9, <1>10, SoundLogsSave

LEMMA SeedFullTrainSound ==
    ASSUME NEW c, Live(c), c.pending = NoJob, c.phase = "SeedFullTrain"
    PROVE  Sound(SeedFullTrain(c))
  <1> DEFINE a == Active("seed_full_train", c.gen, <<Evaluation(Seed, TrainRows, 0)>>)
             b == Running(c)
             d == [b EXCEPT !.active = a]
             w == LogCand(Seed, "FullTrainEvaluating")
             short == TrainCapacity(c) < NTrain \/ Breach
  <1>1. Body(c) /\ DOMAIN c = CursorFields
    BY DEF Live, Untrained, Body
  <1>2. SeedFullTrain(c) = IF c.active # NoActive THEN Evaluate(c)
                           ELSE IF short THEN <<Fail("budget exceeded")>>
                           ELSE <<w, Save(d)>> \o PlanNext(d)
    BY DEF SeedFullTrain
  <1>3. c.active # NoActive => Sound(Evaluate(c))
    <2> HAVE c.active # NoActive
    <2>1. c.active.stage # "none"
      BY <1>1 DEF Body, ActiveOK
    <2>2. c.active.stage \in RolloutStages
      BY <2>1 DEF Live, Untrained, Stands, RolloutStages, Stage
    <2> QED BY <2>2, EvaluateSound
  <1>4. Sound(<<Fail("budget exceeded")>>)
    BY QuietFail, QuietIsSound
  <1>5. c.active = NoActive => Sound(<<w, Save(d)>> \o PlanNext(d))
    <2> HAVE c.active = NoActive
    <2>0. c.run = "Ready" /\ c.best = None
      BY NoActiveParts DEF Live, Untrained, Stands
    <2>1. /\ DOMAIN b = CursorFields
        /\ b.gen = c.gen /\ b.queue = c.queue /\ b.pidx = c.pidx
        /\ b.hidx = c.hidx /\ b.reg = c.reg /\ b.cand = c.cand
        /\ b.best = c.best /\ b.selected = c.selected /\ b.heldoutBest = c.heldoutBest
        /\ b.active = c.active /\ b.pending = c.pending
        /\ b.phase = c.phase
        /\ b.run = IF c.run \in {"Ready", "Evaluating", "RolloutQueueing"}
                   THEN "RolloutRunning" ELSE c.run
      BY <1>1, RunningParts
    <2> HIDE DEF b
    <2>2. DOMAIN a = {"stage", "gen", "evals"} /\ a.stage = "seed_full_train"
          /\ a.evals = <<Evaluation(Seed, TrainRows, 0)>>
      BY DEF Active
    <2> HIDE DEF a
    <2>3. /\ DOMAIN d = CursorFields
        /\ d.gen = c.gen /\ d.queue = c.queue /\ d.pidx = c.pidx
        /\ d.hidx = c.hidx /\ d.reg = c.reg /\ d.cand = c.cand
        /\ d.best = c.best /\ d.selected = c.selected /\ d.heldoutBest = c.heldoutBest
        /\ d.pending = c.pending
        /\ d.phase = c.phase /\ d.run = "RolloutRunning" /\ d.active = a
      BY <2>0, <2>1 DEF CursorFields
    <2> HIDE DEF d
    <2>4. ActiveOK(d.cand, d.best, d.active)
      <3> DEFINE e == Evaluation(Seed, TrainRows, 0)
      <3>1. DOMAIN e = EvalFields /\ e.cand = Seed /\ e.offset = 0 /\ e.scored = {}
            /\ e.rows = TrainRows
        BY DEF Evaluation, EvalFields
      <3>2. Seed \in DOMAIN d.cand
        BY <1>1, <2>3 DEF Body
      <3> HIDE DEF e
      <3>3. EvalOK(d.cand, "seed_full_train", e)
        BY <3>1, <3>2, RowsPlain DEF EvalOK
      <3>4. Plain(<<e>>) /\ DOMAIN <<e>> = {1} /\ <<e>>[1] = e
        BY PlainOne
      <3>5. a.evals = <<e>>
        BY <2>2 DEF e
      <3> QED BY <2>0, <2>2, <2>3, <3>3, <3>4, <3>5 DEF ActiveOK
    <2>5. Body(d)
      BY <1>1, <2>3, <2>4 DEF Body
    <2>6. Live(d) /\ d.pending = NoJob
      BY <2>2, <2>3, NoPending, <2>5 DEF Stands, Live, Untrained
    <2>7. Sound(PlanNext(d))
      BY <2>2, <2>3, <2>6, PlanNextSound DEF RolloutStages, Stage
    <2>8. Sound(<<w, Save(d)>>)
      BY <2>6, SoundLogsSave DEF CursorOK
    <2> QED BY <2>7, <2>8, SoundJoin
  <1> HIDE DEF w, d, short
  <1> QED BY <1>2, <1>3, <1>4, <1>5

\* Whatever the scan says, the winner is one of the candidates it saw.
LEMMA TrainScanAmong ==
    ASSUME NEW S, NEW b \in S, NEW s, Len(s) \in Nat, \A i \in 1 .. Len(s) : s[i] \in S
    PROVE  TrainScanResult(b, s) \in S
  <1>1. PICK f : /\ f[0] = b /\ TrainScanResult(b, s) = f[Len(s)]
                 /\ \A n \in 1 .. Len(s) : f[n] = LaterOrBetter(f[n - 1], s[n])
    BY TrainScanTurns
  <1> DEFINE G == {n \in Nat : f[n] \in S}
  <1>2. \A x, y : LaterOrBetter(x, y) \in {x, y}
    BY DEF LaterOrBetter
  <1>3. \A n \in 1 .. Len(s) : n - 1 \in G => n \in G
    BY <1>1, <1>2
  <1>4. 0 \in G
    BY <1>1
  <1> HIDE DEF G
  <1>5. \A n \in 0 .. Len(s) : n \in G
    BY <1>3, <1>4, UpTo
  <1> QED BY <1>1, <1>5 DEF G

\* The scan ends with a candidate whose total no other candidate beats.
LEMMA TrainScanLeads ==
    ASSUME Numbers(frames), NEW S, \A x \in S : FullIn(frames, x),
           NEW b \in S, NEW s, Len(s) \in Nat, \A i \in 1 .. Len(s) : s[i] \in S
    PROVE  LET w == TrainScanResult(b, s)
           IN  TotalIn(frames, w) >= TotalIn(frames, b)
               /\ \A i \in 1 .. Len(s) : TotalIn(frames, w) >= TotalIn(frames, s[i])
  <1>1. PICK f : /\ f[0] = b /\ TrainScanResult(b, s) = f[Len(s)]
                 /\ \A n \in 1 .. Len(s) : f[n] = LaterOrBetter(f[n - 1], s[n])
    BY TrainScanTurns
  <1> DEFINE T(x) == TotalIn(frames, x)
             Ahead(n) == /\ f[n] \in S /\ T(f[n]) >= T(b)
                         /\ \A i \in 1 .. Len(s) : i <= n => T(f[n]) >= T(s[i])
             G == {n \in Nat : Ahead(n)}
  <1>2. \A x \in S : T(x) \in Int
    BY TotalIsInteger
  <1>3. \A x, y : LaterOrBetter(x, y) = IF T(x) > T(y) THEN x ELSE y
    BY DEF LaterOrBetter, Better, Total, SumOver, TotalIn, SumUp
  <1> HIDE DEF T
  <1>4. 0 \in G
    BY <1>1, <1>2
  <1>5. \A n \in 1 .. Len(s) : n - 1 \in G => n \in G
    <2> SUFFICES ASSUME NEW n \in 1 .. Len(s), Ahead(n - 1) PROVE Ahead(n)
      OBVIOUS
    <2> DEFINE x == f[n - 1]
               y == s[n]
    <2>1. f[n] = IF T(x) > T(y) THEN x ELSE y
      BY <1>1, <1>3
    <2>2. x \in S /\ y \in S /\ T(x) \in Int /\ T(y) \in Int /\ T(b) \in Int
      BY <1>2
    <2>3. T(f[n]) >= T(x) /\ T(f[n]) >= T(y) /\ f[n] \in S /\ T(f[n]) \in Int
      BY <2>1, <2>2
    <2>4. T(f[n]) >= T(b)
      BY <2>2, <2>3
    <2>5. ASSUME NEW i \in 1 .. Len(s), i <= n PROVE T(f[n]) >= T(s[i])
      <3>1. CASE i = n
        BY <2>3, <3>1
      <3>2. CASE i # n
        <4>1. i <= n - 1 /\ T(x) >= T(s[i]) /\ T(s[i]) \in Int
          BY <1>2, <2>5, <3>2
        <4> QED BY <2>2, <2>3, <4>1
      <3> QED BY <3>1, <3>2
    <2> QED BY <2>3, <2>4, <2>5
  <1> HIDE DEF G
  <1>6. \A n \in 0 .. Len(s) : n \in G
    BY <1>4, <1>5, UpTo
  <1>7. Ahead(Len(s))
    BY <1>6 DEF G
  <1> QED BY <1>1, <1>7 DEF T

LEMMA RegisteredParts ==
    ASSUME NEW c, Body(c)
    PROVE  /\ Registered(c) = DOMAIN c.cand /\ Len(c.reg) \in Nat
           /\ \A i \in 1 .. Len(c.reg) : c.reg[i] \in DOMAIN c.cand
  BY PlainIsSequence, PlainParts DEF Body, CandOK, Registered

\* The best on train rows is registered; there is none only if there was none.
LEMMA BestOnTrain ==
    ASSUME NEW c, Body(c)
    PROVE  LET b == SelectBestTrain(c).best
           IN  /\ b \in Maybe(DOMAIN c.cand) /\ (b = None => c.best = None)
               /\ SelectBestTrain(c).ok => Lead(frames, c.cand, b)
  <1> DEFINE S == {x \in Registered(c) : Selectable(c, x)}
             pool == Keep(c.reg, S)
             first == pool[1]
             rest == Tail(pool)
             best == TrainScanResult(first, rest)
  <1>1. S \subseteq DOMAIN c.cand /\ None \notin DOMAIN c.cand /\ c.best \in Maybe(DOMAIN c.cand)
    BY RegisteredParts, NoneIsNotRegistered DEF Body, BestOK
  <1>2. Len(c.reg) \in Nat
    BY RegisteredParts
  <1> DEFINE lost == \E x \in Range(pool) : ~HasFrames(x, TrainStage(x), TrainRows)
             scan == Fold(LaterOrBetter, first, rest)
  <1>3. SelectBestTrain(c) =
          IF Len(pool) <= 1 THEN [ok |-> TRUE, best |-> IF pool = <<>> THEN c.best ELSE first]
          ELSE IF lost THEN [ok |-> FALSE, best |-> c.best]
          ELSE [ok |-> TRUE, best |-> scan]
    BY DEF SelectBestTrain
  <1>0. \A x \in DOMAIN c.cand : SelectableIn(frames, c.cand[x], x) => x \in S
    BY RegisteredParts DEF SelectableIn, Selectable, TrainScored, TrainKey, Leading
  <1>11. \A x \in S : x \in DOMAIN c.cand /\ c.cand[x].train
    BY RegisteredParts DEF Selectable
  <1>12. ~lost => \A x \in Range(pool) : FullIn(frames, x)
    BY DEF HasFrames, FullIn, TrainKey
  <1> HIDE DEF S, lost
  <1>4. pool \in Seq(S)
    BY <1>2, KeptIn
  <1>13. \A x \in S : \E i \in DOMAIN pool : pool[i] = x
    <2> SUFFICES ASSUME NEW x \in S PROVE \E i \in DOMAIN pool : pool[i] = x
      OBVIOUS
    <2>1. PICK m \in 1 .. Len(c.reg) : c.reg[m] = x
      BY <1>1, RegisteredParts, PlainParts, PlainIsSequence DEF Body, CandOK, Range
    <2> QED BY <1>2, <2>1, KeptAll
  <1> HIDE DEF pool
  <1>5. pool # <<>> => first \in S
    BY <1>4
  <1>6. Len(pool) > 1 => best \in S
    <2> HAVE Len(pool) > 1
    <2>1. first \in S /\ Len(rest) \in Nat /\ \A i \in 1 .. Len(rest) : rest[i] \in S
      BY <1>4
    <2> HIDE DEF first, rest
    <2> QED BY <2>1, TrainScanAmong
  <1>14. Len(pool) > 1 /\ ~lost => Lead(frames, c.cand, best)
    <2> HAVE Len(pool) > 1 /\ ~lost
    <2> DEFINE R == Range(pool)
               T(x) == TotalIn(frames, x)
    <2>1. /\ first \in R /\ Len(rest) \in Nat /\ DOMAIN pool = 1 .. Len(pool)
          /\ Len(pool) = Len(rest) + 1
          /\ \A i \in 1 .. Len(rest) : rest[i] = pool[i + 1] /\ rest[i] \in R
      BY <1>4 DEF Range
    <2>2. \A x \in S : x \in R /\ (x = first \/ \E i \in 1 .. Len(rest) : rest[i] = x)
      <3> SUFFICES ASSUME NEW x \in S
                   PROVE  x \in R /\ (x = first \/ \E i \in 1 .. Len(rest) : rest[i] = x)
        OBVIOUS
      <3>1. PICK i \in DOMAIN pool : pool[i] = x
        BY <1>13
      <3>2. x \in R
        BY <3>1 DEF Range
      <3>3. CASE i = 1
        BY <3>1, <3>2, <3>3
      <3>4. CASE i # 1
        <4>1. i - 1 \in 1 .. Len(rest) /\ (i - 1) + 1 = i
          BY <2>1, <3>4
        <4> QED BY <2>1, <3>1, <3>2, <4>1
      <3> QED BY <3>3, <3>4
    <2>3. \A x \in R : FullIn(frames, x)
      BY <1>12
    <2> HIDE DEF first, rest, R
    <2>4. Numbers(frames)
      BY DEF Body
    <2>5. T(best) >= T(first) /\ \A i \in 1 .. Len(rest) : T(best) >= T(rest[i])
      BY <2>1, <2>3, <2>4, TrainScanLeads
    <2>6. best \in S
      BY <1>6
    <2> HIDE DEF best, T
    <2>7. \A x \in S : FullIn(frames, x) /\ T(best) >= T(x)
      BY <2>2, <2>3, <2>5
    <2> QED BY <1>0, <1>11, <2>6, <2>7 DEF Lead, T
  <1>15. Len(pool) <= 1 => Lead(frames, c.cand, IF pool = <<>> THEN c.best ELSE first)
    <2> HAVE Len(pool) <= 1
    <2>1. CASE pool = <<>>
      BY <1>0, <1>13, <2>1 DEF Lead
    <2>2. CASE pool # <<>>
      <3>3. Len(pool) # 0
        BY <1>4, <2>2
      <3>4. Len(pool) \in Nat /\ DOMAIN pool = 1 .. Len(pool)
        BY <1>4
      <3>0. Len(pool) = 1 /\ DOMAIN pool = 1 .. Len(pool)
        BY <3>3, <3>4
      <3>1. DOMAIN pool = {1}
        BY <3>0
      <3>2. \A x \in S : x = first
        BY <1>13, <3>1
      <3> QED BY <1>0, <1>5, <1>11, <2>2, <3>2 DEF Lead
    <2> QED BY <2>1, <2>2
  <1>7. scan = best
    BY DEF Fold, TrainScanResult, IsTrainScan
  <1>8. Len(pool) <= 1 \/ Len(pool) > 1
    BY <1>4
  <1> HIDE DEF scan, best, first
  <1> DEFINE b == SelectBestTrain(c).best
             near == IF pool = <<>> THEN c.best ELSE first
  <1>9. CASE Len(pool) <= 1
    BY <1>3, <1>9, <1>1, <1>5, <1>15 DEF Maybe
  <1>10. CASE ~(Len(pool) <= 1)
    BY <1>3, <1>10, <1>6, <1>7, <1>8, <1>1, <1>14 DEF Maybe
  <1> QED BY <1>9, <1>10

-----------------------------------------------------------------------------
(* A generation starts, and its proposals are admitted. *)

\* A job is planned, its round is logged, and the cursor that waits for it is saved.
LEMMA SoundRound ==
    ASSUME NEW d, CursorOK(d), NEW k, d.pending = k, NEW a, NEW b, NEW e
    PROVE  Sound(<<PlanJob(k), LogRound(k, a), LogRound(k, b), LogRound(k, e), Save(d)>>)
  <1> DEFINE v == PlanJob(k)
             x == LogRound(k, a)
             y == LogRound(k, b)
             z == LogRound(k, e)
             w == Save(d)
  <1>1. /\ v.kind = "job" /\ v.id = k /\ w.kind = "save" /\ w.to = d
        /\ x.kind = "round" /\ y.kind = "round" /\ z.kind = "round"
    BY DEF PlanJob, LogRound, Save
  <1> HIDE DEF v, w, x, y, z
  <1> DEFINE p == <<v, x, y, z, w>>
             S == {v, w, x, y, z}
  <1>2. /\ p \in Seq(S) /\ Len(p) = 5
        /\ p[1] = v /\ p[2] = x /\ p[3] = y /\ p[4] = z /\ p[5] = w
    OBVIOUS
  <1> HIDE DEF p, S
  <1>3. Plain(p)
    BY <1>2, PlainIsSequence
  <1>4. ASSUME NEW i \in 1 .. Len(p) PROVE WriteOK(p[i]) /\ Follows(p, i)
    <2>1. i \in {1, 2, 3, 4, 5}
      BY <1>2
    <2>2. CASE i = 5
      BY <1>1, <1>2, <2>2 DEF WriteOK, Follows, Kinds
    <2>3. CASE i # 5
      BY <1>1, <1>2, <2>1, <2>3 DEF WriteOK, Follows, Kinds
    <2> QED BY <2>2, <2>3
  <1>5. Sound(p)
    BY <1>3, <1>4 DEF Sound
  <1> QED BY <1>5 DEF p, v, w, x, y, z

LEMMA GenerationStartSound ==
    ASSUME NEW c, Live(c), c.pending = NoJob, c.phase = "GenerationStart", NEW parent
    PROVE  Sound(GenerationStart(c, parent))
  <1> DEFINE selection == SelectBestTrain(c)
             best == selection.best
             key == ProposerJob(c.gen, parent)
             b   == RunTo(c, {"Ready"}, "Proposing")
             a   == Active("proposer", c.gen, <<>>)
             d   == [b EXCEPT !.best = best, !.parent = parent, !.pending = key,
                              !.active = a, !.phase = "ProposerWaiting"]
             over == c.gen >= MaxGenerations \/ TrainBudgetReached(c)
             round == <<PlanJob(key), LogRound(key, "Requested"), LogRound(key, "Dispatched"),
                        LogRound(key, "Generating"), Save(d)>>
  <1>1. Body(c) /\ DOMAIN c = CursorFields /\ c.run = "Ready"
    BY DEF Live, Untrained, Body, Stands
  <1>2. GenerationStart(c, parent) =
          IF over THEN ToPreHeldout(c)
          ELSE IF ~selection.ok THEN <<Fail("missing score vector")>> ELSE round
    BY DEF GenerationStart
  <1>3. Sound(ToPreHeldout(c))
    BY <1>1, ToPreHeldoutSound
  <1>4. Sound(<<Fail("missing score vector")>>)
    BY QuietFail, QuietIsSound
  <1>5. ~over /\ selection.ok => Sound(round)
    <2> HAVE ~over /\ selection.ok
    <2>1. /\ best \in Maybe(DOMAIN c.cand) /\ (best = None => c.best = None)
          /\ Lead(frames, c.cand, best)
      BY <1>1, BestOnTrain
    <2>2. /\ DOMAIN b = CursorFields
        /\ b.gen = c.gen /\ b.queue = c.queue /\ b.pidx = c.pidx
        /\ b.hidx = c.hidx /\ b.reg = c.reg /\ b.cand = c.cand
        /\ b.best = c.best /\ b.selected = c.selected /\ b.heldoutBest = c.heldoutBest
        /\ b.active = c.active /\ b.pending = c.pending
        /\ b.run = "Proposing"
      BY <1>1, RunToParts
    <2>3. c.gen \in Nat /\ MaxGenerations \in Nat /\ ~(c.gen >= MaxGenerations)
      BY <1>1, GepaAssumption DEF Body
    <2> HIDE DEF best, b, selection, over
    <2>4. key[1] = "proposer"
      BY DEF ProposerJob
    <2>5. DOMAIN a = {"stage", "gen", "evals"} /\ a.stage = "proposer" /\ a.evals = <<>>
      BY DEF Active
    <2> HIDE DEF key, a
    <2>6. /\ DOMAIN d = CursorFields
        /\ d.gen = c.gen /\ d.queue = c.queue /\ d.pidx = c.pidx
        /\ d.hidx = c.hidx /\ d.reg = c.reg /\ d.cand = c.cand
        /\ d.selected = c.selected /\ d.heldoutBest = c.heldoutBest
        /\ d.best = best /\ d.active = a /\ d.pending = key
        /\ d.run = "Proposing" /\ d.phase = "ProposerWaiting"
      BY <2>2 DEF CursorFields
    <2> HIDE DEF d
    <2>7. BestOK(d.cand, d.best, d.selected, d.heldoutBest)
      BY <1>1, <2>1, <2>6 DEF Body, BestOK, Maybe
    <2>8. ActiveOK(d.cand, d.best, d.active)
      BY <2>5, <2>6, NoActiveParts DEF ActiveOK
    <2>9. Body(d)
      BY <1>1, <2>1, <2>6, <2>7, <2>8 DEF Body
    <2>10. Stands(d.phase, d.active.stage, d.run, d.hidx, d.best)
      BY <2>5, <2>6 DEF Stands
    <2>11. PendingOK(d.pending, d.active.stage, d.gen)
      BY <2>3, <2>6, <2>4, <2>5 DEF PendingOK, RolloutStages
    <2>12. CursorOK(d)
      BY <2>5, <2>6, <2>9, <2>10, <2>11 DEF CursorOK, Live, Untrained
    <2>13. Sound(round)
      BY <2>6, <2>12, SoundRound
    <2> QED BY <2>13 DEF d, key, a, b, best, selection
  <1> HIDE DEF over, selection, round
  <1> QED BY <1>2, <1>3, <1>4, <1>5

\* The candidates admitted so far.
AdmissionOK(l, c) ==
    /\ DOMAIN l = {"c", "ws", "group", "rows", "planned", "end", "active", "next"}
    /\ Quiet(l.ws)
    /\ Body(l.c) /\ l.c.pending = NoJob /\ l.c.run = c.run /\ l.c.active = c.active
    /\ l.c.gen = c.gen /\ l.c.queue = c.queue
    /\ l.next \in Nat /\ c.active.stage # "seed_full_train"
    /\ Plain(l.group)
    /\ \A i \in 1 .. Len(l.group) : EvalOK(l.c.cand, "candidate_minibatch", l.group[i])
    /\ l.end = "reference" =>
         ActiveOK(l.c.cand, l.c.best, l.active) /\ l.active.stage = "parent_minibatch_reference"

LEMMA AdmissionStarts ==
    ASSUME NEW c, Body(c), c.pending = NoJob, c.active.stage # "seed_full_train"
    PROVE  AdmissionOK(Admission(c), c)
  BY NoActiveParts, QuietNothing DEF Body, AdmissionOK, Admission, None

\* The parent of a proposal is registered.
LEMMA ParentRegistered ==
    ASSUME NEW c, Body(c), NEW p PROVE ProposalParent(c, p) \in DOMAIN c.cand
  BY RegisteredParts DEF Body, BestOK, Or, Maybe, ProposalParent

WithCandidate(c, x, r) == [c EXCEPT !.reg = Append(c.reg, x), !.cand = Put(c.cand, x, r)]

LEMMA CandidateAdded ==
    ASSUME NEW c, Body(c), NEW x \in Payloads, x \notin DOMAIN c.cand,
           NEW r \in CandidateRow, ~r.held, ~r.train,
           NEW d, d = WithCandidate(c, x, r)
    PROVE  /\ Body(d) /\ d.pending = c.pending /\ d.run = c.run /\ d.active = c.active
           /\ d.gen = c.gen /\ d.queue = c.queue
           /\ DOMAIN d.cand = DOMAIN c.cand \cup {x}
           /\ ~d.cand[x].train /\ \A y \in DOMAIN c.cand : d.cand[y] = c.cand[y]
  <1> DEFINE reg == Append(c.reg, x)
             cand == Put(c.cand, x, r)
  <1>1. DOMAIN c = CursorFields /\ c.reg \in Seq(Ids) /\ Range(c.reg) = DOMAIN c.cand
    BY DEF Body, CandOK
  <1>2. x \in Ids /\ x # Seed
    BY GepaAssumption DEF Ids
  <1>3. /\ DOMAIN cand = DOMAIN c.cand \cup {x} /\ cand[x] = r
        /\ \A y \in DOMAIN c.cand : cand[y] = c.cand[y]
    BY DEF Put
  <1>4. reg \in Seq(Ids) /\ Range(reg) = DOMAIN c.cand \cup {x}
    <2>1. Plain(c.reg)
      BY <1>1, PlainIsSequence
    <2>2. /\ Plain(reg) /\ Len(reg) = Len(c.reg) + 1
          /\ \A i \in 1 .. Len(c.reg) : reg[i] = c.reg[i]
          /\ reg[Len(c.reg) + 1] = x
      BY <2>1, PlainAppend
    <2>3. reg \in Seq(Ids)
      BY <1>1, <1>2
    <2> HIDE DEF reg
    <2>4. DOMAIN reg = 1 .. Len(c.reg) + 1 /\ DOMAIN c.reg = 1 .. Len(c.reg) /\ Len(c.reg) \in Nat
      BY <2>1, <2>2, PlainParts
    <2>5. \A i \in DOMAIN reg : reg[i] \in DOMAIN c.cand \cup {x}
      BY <1>1, <2>4, <2>2 DEF Range
    <2>6. \A y \in DOMAIN c.cand : \E i \in DOMAIN reg : reg[i] = y
      BY <1>1, <2>4, <2>2 DEF Range
    <2>7. Len(c.reg) + 1 \in DOMAIN reg
      BY <2>4
    <2> QED BY <2>2, <2>3, <2>5, <2>6, <2>7 DEF Range
  <1> HIDE DEF reg, cand
  <1>5. /\ DOMAIN d = CursorFields
        /\ d.gen = c.gen /\ d.queue = c.queue /\ d.pidx = c.pidx
        /\ d.hidx = c.hidx /\ d.best = c.best /\ d.selected = c.selected
        /\ d.heldoutBest = c.heldoutBest /\ d.active = c.active /\ d.pending = c.pending
        /\ d.run = c.run /\ d.reg = reg /\ d.cand = cand
    BY <1>1 DEF WithCandidate, CursorFields, reg, cand
  <1>6. CandOK(d.cand, d.reg)
    BY <1>3, <1>4, <1>5 DEF Body, CandOK
  <1>7. BestOK(d.cand, d.best, d.selected, d.heldoutBest)
    BY <1>2, <1>3, <1>5 DEF Body, BestOK, Maybe
  <1>8. ActiveOK(d.cand, d.best, d.active)
    BY <1>3, <1>5 DEF Body, ActiveOK, EvalOK
  <1>9. Body(d)
    <2>1. Lead(frames, d.cand, d.best)
      BY <1>3, <1>5, LeadKept DEF Body
    <2> QED BY <1>3, <1>5, <1>6, <1>7, <1>8, <2>1 DEF Body
  <1> QED BY <1>3, <1>5, <1>9

\* A candidate gets its record, with the transition that registers it.
LEMMA RegisterHolds ==
    ASSUME NEW c, NEW l, AdmissionOK(l, c), NEW x \in Payloads, x \notin DOMAIN l.c.cand,
           NEW parent \in DOMAIN l.c.cand, NEW status \in {"registered", "rejected_leakage"}
    PROVE  LET m == RegisterCandidate(l, x, parent, status) IN
           /\ l.end = None => AdmissionOK(m, c) /\ m.end = None
           /\ DOMAIN m.c.cand = DOMAIN l.c.cand \cup {x} /\ ~m.c.cand[x].train
  <1> DEFINE n == NewCandidate(parent, l.c.gen)
             r == [n EXCEPT !.status = status]
             d == WithCandidate(l.c, x, r)
             w == LogCand(x, "Registered")
             ws == Append(l.ws, w)
             m == [l EXCEPT !.c = d, !.ws = ws]
  <1>1. RegisterCandidate(l, x, parent, status) = m
    BY DEF RegisterCandidate, WithCandidate
  <1>2. /\ Body(l.c) /\ l.c.gen \in Nat /\ parent \in Ids
        /\ DOMAIN l = {"c", "ws", "group", "rows", "planned", "end", "active", "next"}
    BY NoneIsNotRegistered DEF AdmissionOK, Body
  <1>3. r \in CandidateRow /\ ~r.held /\ ~r.train
    BY <1>2 DEF NewCandidate, CandidateRow
  <1> HIDE DEF r
  <1>4. /\ Body(d) /\ d.pending = l.c.pending /\ d.run = l.c.run /\ d.active = l.c.active
        /\ d.gen = l.c.gen /\ d.queue = l.c.queue
        /\ DOMAIN d.cand = DOMAIN l.c.cand \cup {x}
        /\ ~d.cand[x].train /\ \A y \in DOMAIN l.c.cand : d.cand[y] = l.c.cand[y]
    BY <1>2, <1>3, CandidateAdded
  <1>5. Quiet(ws)
    <2>1. w.kind = "cand"
      BY DEF LogCand
    <2> HIDE DEF w
    <2>2. Plain(l.ws) /\ \A i \in 1 .. Len(l.ws) : l.ws[i].kind \in {"cand", "round", "fail"}
      BY DEF AdmissionOK, Quiet
    <2>3. Plain(ws) /\ Len(ws) = Len(l.ws) + 1 /\ ws[Len(l.ws) + 1] = w
          /\ \A i \in 1 .. Len(l.ws) : ws[i] = l.ws[i]
      BY <2>2, PlainAppend
    <2>4. Len(l.ws) \in Nat
      BY <2>2, PlainParts
    <2> HIDE DEF ws
    <2>5. \A i \in 1 .. Len(ws) : i = Len(l.ws) + 1 \/ i \in 1 .. Len(l.ws)
      BY <2>3, <2>4
    <2> QED BY <2>1, <2>2, <2>3, <2>5 DEF Quiet
  <1> HIDE DEF d, ws
  <1>6. /\ DOMAIN m = DOMAIN l /\ m.c = d /\ m.ws = ws /\ m.group = l.group
        /\ m.next = l.next /\ m.end = l.end /\ m.active = l.active
    BY <1>2
  <1> HIDE DEF m
  <1>7. l.end = None => AdmissionOK(m, c)
    <2> HAVE l.end = None
    <2>1. m.end # "reference"
      BY <1>6 DEF None
    <2>2. \A i \in 1 .. Len(l.group) : EvalOK(d.cand, "candidate_minibatch", l.group[i])
      BY <1>4 DEF AdmissionOK, EvalOK
    <2> QED BY <1>4, <1>5, <1>6, <2>1, <2>2 DEF AdmissionOK
  <1> QED BY <1>1, <1>4, <1>6, <1>7

-----------------------------------------------------------------------------
(* The admission of a group *)

WithDeferred(c, x) == [c EXCEPT !.cand[x].status = "deferred_budget"]

LEMMA DeferredRow ==
    ASSUME NEW c, Body(c), NEW x \in DOMAIN c.cand, NEW d, d = WithDeferred(c, x)
    PROVE  /\ Body(d) /\ d.pending = c.pending /\ d.run = c.run /\ d.active = c.active
           /\ d.gen = c.gen /\ d.queue = c.queue /\ DOMAIN d.cand = DOMAIN c.cand
           /\ \A y \in DOMAIN c.cand : d.cand[y].train = c.cand[y].train
  <1> DEFINE r == [c.cand[x] EXCEPT !.status = "deferred_budget"]
             m == [c.cand EXCEPT ![x] = r]
  <1>1. c.cand[x] \in CandidateRow /\ DOMAIN c = CursorFields
    BY DEF Body, CandOK
  <1>2. /\ DOMAIN d = CursorFields
        /\ d.gen = c.gen /\ d.queue = c.queue /\ d.pidx = c.pidx
        /\ d.hidx = c.hidx /\ d.reg = c.reg /\ d.best = c.best
        /\ d.selected = c.selected /\ d.heldoutBest = c.heldoutBest /\ d.active = c.active
        /\ d.pending = c.pending
        /\ d.run = c.run /\ d.cand = m
    BY <1>1 DEF WithDeferred, CursorFields
  <1>3. r \in CandidateRow /\ r.held = c.cand[x].held /\ r.train = c.cand[x].train
        /\ r.status \notin Leading
    BY <1>1 DEF CandidateRow, Leading
  <1>4. DOMAIN m = DOMAIN c.cand /\ m[x] = r
        /\ \A y \in DOMAIN c.cand : y # x => m[y] = c.cand[y]
    OBVIOUS
  <1> HIDE DEF m, r
  <1>5. \A y \in DOMAIN c.cand : c.cand[y] \in CandidateRow
    BY DEF Body, CandOK
  <1>6. Body(d)
    BY <1>2, <1>3, <1>4, <1>5, BodyRowsChanged
  <1> QED BY <1>2, <1>3, <1>4, <1>6

LEMMA OneEvaluation ==
    ASSUME NEW cand, NEW stage, stage # "heldout", NEW x \in DOMAIN cand,
           NEW rows, Plain(rows), NEW k \in Nat,
           stage \in {"candidate_minibatch", "candidate_full_train"} => x # Seed,
           stage = "candidate_minibatch" => ~cand[x].train
    PROVE  EvalOK(cand, stage, Evaluation(x, rows, k))
  <1> DEFINE e == Evaluation(x, rows, k)
  <1>1. DOMAIN e = EvalFields /\ e.cand = x /\ e.offset = k /\ e.scored = {} /\ e.rows = rows
    BY DEF Evaluation, EvalFields
  <1> HIDE DEF e
  <1>2. EvalOK(cand, stage, e)
    BY <1>1 DEF EvalOK
  <1> QED BY <1>2 DEF e

LEMMA OneActive ==
    ASSUME NEW cand, NEW stage, stage \notin {"none", "heldout", "seed_full_train"}, NEW best, NEW gen,
           NEW e, EvalOK(cand, stage, e), NEW a, a = Active(stage, gen, <<e>>)
    PROVE  ActiveOK(cand, best, a) /\ a.stage = stage
  BY PlainOne DEF Active, ActiveOK

LEMMA AdmitToGroupHolds ==
    ASSUME NEW c, NEW l, AdmissionOK(l, c), l.end = None,
           NEW x \in DOMAIN l.c.cand, x # Seed, ~l.c.cand[x].train,
           NEW parent \in DOMAIN l.c.cand, NEW index \in Nat
    PROVE  AdmissionOK(AdmitToGroup(l, x, parent, index), c)
  <1> DEFINE rows  == MinibatchRows(l.c.gen, index)
             short == TrainCapacity(cur) - l.rows < Len(rows) \/ Breach
             known == HasFrames(parent, "parent_minibatch_reference", rows)
             e  == Evaluation(x, rows, index)
             f  == Evaluation(parent, rows, index)
             a  == Active("parent_minibatch_reference", l.c.gen, <<f>>)
             d  == WithDeferred(l.c, x)
             m1 == [l EXCEPT !.end = "boundary"]
             m2 == [l EXCEPT !.end = "reference", !.active = a]
             m3 == [l EXCEPT !.c = d, !.end = "deferred"]
             m4 == [l EXCEPT !.group = Append(@, e), !.rows = @ + Len(rows),
                             !.planned = @ \cup {x}]
  <1>1. AdmitToGroup(l, x, parent, index) =
          IF ~known THEN IF short THEN m1 ELSE m2 ELSE IF short THEN m3 ELSE m4
    BY DEF AdmitToGroup, WithDeferred
  <1>2. DOMAIN l = {"c", "ws", "group", "rows", "planned", "end", "active", "next"} /\ Body(l.c)
    BY DEF AdmissionOK
  <1>a. Plain(rows)
    BY RowsPlain
  <1> HIDE DEF rows, short, known
  <1>3. EvalOK(l.c.cand, "candidate_minibatch", e)
    BY <1>a, OneEvaluation
  <1>4. /\ ActiveOK(l.c.cand, l.c.best, a)
        /\ a.stage = "parent_minibatch_reference"
    <2>1. EvalOK(l.c.cand, "parent_minibatch_reference", f)
      BY <1>a, OneEvaluation
    <2> HIDE DEF f
    <2> QED BY <2>1, OneActive
  <1> HIDE DEF e, a
  <1>5. AdmissionOK(m1, c)
    <2>1. /\ DOMAIN m1 = DOMAIN l /\ m1.c = l.c /\ m1.ws = l.ws /\ m1.group = l.group
          /\ m1.next = l.next /\ m1.end = "boundary"
      BY <1>2
    <2> HIDE DEF m1
    <2> QED BY <2>1 DEF AdmissionOK
  <1>6. AdmissionOK(m2, c)
    <2>1. /\ DOMAIN m2 = DOMAIN l /\ m2.c = l.c /\ m2.ws = l.ws /\ m2.group = l.group
          /\ m2.next = l.next /\ m2.active = a
      BY <1>2
    <2> HIDE DEF m2
    <2> QED BY <1>4, <2>1 DEF AdmissionOK
  <1>7. AdmissionOK(m3, c)
    <2>1. /\ Body(d) /\ d.pending = l.c.pending /\ d.run = l.c.run /\ d.active = l.c.active
          /\ d.gen = l.c.gen /\ d.queue = l.c.queue /\ DOMAIN d.cand = DOMAIN l.c.cand
          /\ \A y \in DOMAIN l.c.cand : d.cand[y].train = l.c.cand[y].train
      BY <1>2, DeferredRow
    <2> HIDE DEF d
    <2>2. /\ DOMAIN m3 = DOMAIN l /\ m3.c = d /\ m3.ws = l.ws /\ m3.group = l.group
          /\ m3.next = l.next /\ m3.end = "deferred"
      BY <1>2
    <2> HIDE DEF m3
    <2> QED BY <2>1, <2>2 DEF AdmissionOK, EvalOK
  <1>8. AdmissionOK(m4, c)
    <2> DEFINE g == Append(l.group, e)
    <2>1. /\ DOMAIN m4 = DOMAIN l /\ m4.c = l.c /\ m4.ws = l.ws /\ m4.group = g
          /\ m4.next = l.next /\ m4.end = l.end
      BY <1>2
    <2>2. Plain(g)
      BY PlainAppend DEF AdmissionOK
    <2>3. \A i \in 1 .. Len(g) : EvalOK(l.c.cand, "candidate_minibatch", g[i])
      BY <1>3, GroupGrows DEF AdmissionOK
    <2> HIDE DEF m4, g
    <2> QED BY <2>1, <2>2, <2>3 DEF AdmissionOK, None
  <1> HIDE DEF m1, m2, m3, m4
  <1> QED BY <1>1, <1>5, <1>6, <1>7, <1>8

LEMMA BestFilled ==
    ASSUME NEW c, Body(c), c.active.stage # "seed_full_train", NEW x \in DOMAIN c.cand, NEW d, d = [c EXCEPT !.best = Or(@, x)]
    PROVE  /\ Body(d) /\ d.pending = c.pending /\ d.run = c.run /\ d.active = c.active
           /\ d.gen = c.gen /\ d.queue = c.queue /\ d.cand = c.cand
  <1> DEFINE b == Or(c.best, x)
  <1>1. b \in DOMAIN c.cand /\ b # None /\ c.best \in Maybe(DOMAIN c.cand)
    BY NoneIsNotRegistered DEF Body, BestOK, Or, Maybe
  <1> HIDE DEF b
  <1>2. DOMAIN c = CursorFields
    BY DEF Body
  <1>3. /\ DOMAIN d = CursorFields
        /\ d.gen = c.gen /\ d.queue = c.queue /\ d.pidx = c.pidx
        /\ d.hidx = c.hidx /\ d.reg = c.reg /\ d.cand = c.cand
        /\ d.selected = c.selected /\ d.heldoutBest = c.heldoutBest /\ d.active = c.active
        /\ d.pending = c.pending
        /\ d.run = c.run /\ d.best = b
    BY <1>2 DEF CursorFields, b
  <1>4. BestOK(d.cand, d.best, d.selected, d.heldoutBest)
    BY <1>1, <1>3 DEF Body, BestOK, Maybe
  <1>5. ActiveOK(d.cand, d.best, d.active)
    BY <1>1, <1>3 DEF Body, ActiveOK
  <1>6. Lead(frames, d.cand, d.best)
    BY <1>3, NoneIsNotRegistered DEF Body, Lead, Or, b
  <1>7. Body(d)
    BY <1>3, <1>4, <1>5, <1>6 DEF Body
  <1> QED BY <1>3, <1>7

LEMMA AdmitHolds ==
    ASSUME NEW c, NEW l, AdmissionOK(l, c), l.end = None,
           NEW index \in Nat, index + 1 \in 1 .. Len(c.queue)
    PROVE  AdmissionOK(Admit(l, index), c)
  <1> DEFINE p      == l.c.queue[index + 1]
             x      == p.payload
             parent == ProposalParent(l.c, p)
             known  == x \in Registered(l.c)
             fresh  == l.c.cand[x].status = "registered" /\ ~l.c.cand[x].mini /\ ~l.c.cand[x].train
             d      == [l.c EXCEPT !.best = Or(@, x)]
             m1     == [l EXCEPT !.c = d]
             m2     == [l EXCEPT !.planned = @ \cup {x}]
             m3     == RegisterCandidate(m2, x, parent, "rejected_leakage")
             m4     == RegisterCandidate(l, x, parent, "registered")
             m5     == AdmitToGroup(l, x, parent, index)
             m6     == AdmitToGroup(m4, x, parent, index)
  <1>1. Admit(l, index) =
          IF x \in l.planned THEN l
          ELSE IF known THEN IF fresh THEN m5 ELSE m1
          ELSE IF x \in Leaky THEN m3 ELSE m6
    BY DEF Admit
  <1>2. /\ Body(l.c)
        /\ DOMAIN l = {"c", "ws", "group", "rows", "planned", "end", "active", "next"}
    BY DEF AdmissionOK
  <1>3. x \in Payloads /\ x # Seed
    <2>1. l.c.queue \in Seq(Proposed) /\ l.c.queue = c.queue
      BY <1>2 DEF Body, AdmissionOK
    <2>2. p \in Proposed
      BY <2>1
    <2> HIDE DEF p
    <2> QED BY <2>2, GepaAssumption DEF Proposed
  <1>4. parent \in DOMAIN l.c.cand
    BY <1>2, ParentRegistered
  <1>5. Registered(l.c) = DOMAIN l.c.cand
    BY <1>2, RegisteredParts
  <1>10. fresh => ~l.c.cand[x].train
    OBVIOUS
  <1> HIDE DEF x, parent, p, fresh
  <1>6. known /\ fresh => AdmissionOK(m5, c)
    BY <1>10, <1>3, <1>4, <1>5, AdmitToGroupHolds
  <1>7. known => AdmissionOK(m1, c)
    <2> HAVE known
    <2>1. /\ Body(d) /\ d.pending = l.c.pending /\ d.run = l.c.run /\ d.active = l.c.active
          /\ d.gen = l.c.gen /\ d.queue = l.c.queue /\ d.cand = l.c.cand
      BY <1>2, <1>5, BestFilled DEF AdmissionOK
    <2> HIDE DEF d
    <2>2. /\ DOMAIN m1 = DOMAIN l /\ m1.c = d /\ m1.ws = l.ws /\ m1.group = l.group
          /\ m1.next = l.next /\ m1.end = l.end
      BY <1>2
    <2> HIDE DEF m1
    <2> QED BY <2>1, <2>2 DEF AdmissionOK, None
  <1>8. ~known => AdmissionOK(m3, c)
    <2> HAVE ~known
    <2>1. /\ DOMAIN m2 = DOMAIN l /\ m2.c = l.c /\ m2.ws = l.ws /\ m2.group = l.group
          /\ m2.next = l.next /\ m2.end = l.end
      BY <1>2
    <2> HIDE DEF m2
    <2>2. AdmissionOK(m2, c)
      BY <2>1 DEF AdmissionOK, None
    <2> QED BY <1>3, <1>4, <1>5, <2>1, <2>2, RegisterHolds
  <1>9. ~known => AdmissionOK(m6, c)
    <2> HAVE ~known
    <2>1. AdmissionOK(m4, c) /\ m4.end = None /\ DOMAIN m4.c.cand = DOMAIN l.c.cand \cup {x}
          /\ ~m4.c.cand[x].train
      BY <1>3, <1>4, <1>5, RegisterHolds
    <2> HIDE DEF m4
    <2> QED BY <1>3, <1>4, <2>1, AdmitToGroupHolds
  <1> HIDE DEF known, m1, m3, m5, m6
  <1> QED BY <1>1, <1>6, <1>7, <1>8, <1>9

LEMMA AdmitProposalHolds ==
    ASSUME NEW c, NEW l, AdmissionOK(l, c),
           NEW index \in Nat, index + 1 \in 1 .. Len(c.queue)
    PROVE  AdmissionOK(AdmitProposal(l, index), c)
  <1> DEFINE n == index + 1
             m == [l EXCEPT !.next = n]
             full == Len(l.group) >= AdmissionLimit(l.c)
  <1>1. AdmitProposal(l, index) = IF l.end # None \/ full THEN l ELSE Admit(m, index)
    BY DEF AdmitProposal
  <1>2. l.end = None => AdmissionOK(Admit(m, index), c)
    <2> HAVE l.end = None
    <2>1. n \in Nat
      OBVIOUS
    <2>2. /\ DOMAIN m = DOMAIN l /\ m.c = l.c /\ m.ws = l.ws /\ m.group = l.group
          /\ m.next = n /\ m.end = l.end
      BY DEF AdmissionOK
    <2> HIDE DEF m
    <2>3. AdmissionOK(m, c)
      BY <2>1, <2>2 DEF AdmissionOK, None
    <2> QED BY <2>2, <2>3, AdmitHolds
  <1> HIDE DEF m, full
  <1> QED BY <1>1, <1>2

LEMMA AdmissionLoopHolds ==
    ASSUME NEW c, Body(c), c.pending = NoJob, c.active.stage # "seed_full_train", NEW s, Len(s) \in Nat,
           \A i \in 1 .. Len(s) : s[i] \in Nat /\ s[i] + 1 \in 1 .. Len(c.queue)
    PROVE  AdmissionOK(AdmissionLoopResult(Admission(c), s), c)
  <1> DEFINE base == Admission(c)
  <1>1. AdmissionOK(base, c)
    BY AdmissionStarts
  <1> HIDE DEF base
  <1>2. PICK f : /\ f[0] = base /\ AdmissionLoopResult(base, s) = f[Len(s)]
                 /\ \A n \in 1 .. Len(s) : f[n] = AdmitProposal(f[n - 1], s[n])
    BY AdmissionLoopTurns
  <1> DEFINE G == {n \in Nat : AdmissionOK(f[n], c)}
  <1>3. 0 \in G
    BY <1>1, <1>2
  <1>4. \A n \in 1 .. Len(s) : n - 1 \in G => n \in G
    BY <1>2, AdmitProposalHolds
  <1> HIDE DEF G
  <1>5. \A n \in 0 .. Len(s) : n \in G
    BY <1>3, <1>4, UpTo
  <1>6. AdmissionOK(f[Len(s)], c)
    BY <1>5 DEF G
  <1> QED BY <1>2, <1>6 DEF base

LEMMA ProposerWaitingSound ==
    ASSUME NEW c, Live(c), c.pending = NoJob, c.phase = "ProposerWaiting"
    PROVE  Sound(ProposerWaiting(c))
  <1> DEFINE all == Len(c.queue)
             s == [i \in 1 .. all - c.pidx |-> c.pidx + i - 1]
             l == Fold(AdmitProposal, Admission(c), s)
             resume == IF l.end = "deferred" THEN all ELSE l.next
             b == [c EXCEPT !.pidx = all]
             over == c.pidx >= all \/ TrainBudgetReached(c)
             d1 == [l.c EXCEPT !.pidx = all]
             d2 == [l.c EXCEPT !.active = l.active, !.phase = "CandidateMinibatch"]
             d3 == [l.c EXCEPT !.pidx = resume]
             a  == Active("candidate_minibatch", c.gen, l.group)
             d4 == [l.c EXCEPT !.pidx = resume, !.phase = "CandidateMinibatch", !.active = a]
             tail == CASE l.end = "boundary"  -> GenerationBoundary(d1)
                       [] l.end = "reference" -> <<Save(d2)>>
                       [] OTHER -> IF l.group = <<>> THEN ToProposerWaiting(d3) ELSE <<Save(d4)>>
  <1>1. ProposerWaiting(c) = IF over THEN GenerationBoundary(b) ELSE l.ws \o tail
    BY DEF ProposerWaiting
  <1>2. /\ Body(c) /\ DOMAIN c = CursorFields /\ all \in Nat /\ c.pidx \in Nat
        /\ c.run = "RolloutQueueing" /\ c.active.stage \in {"none", "parent_minibatch_reference"}
    BY DEF Live, Untrained, Body, PendingOK, NoJob, Stands
  <1>3. Sound(GenerationBoundary(b))
    <2> HIDE DEF all
    <2>1. /\ DOMAIN b = CursorFields
        /\ b.gen = c.gen /\ b.queue = c.queue /\ b.hidx = c.hidx
        /\ b.reg = c.reg /\ b.cand = c.cand /\ b.best = c.best
        /\ b.selected = c.selected /\ b.heldoutBest = c.heldoutBest /\ b.active = c.active
        /\ b.pending = c.pending
        /\ b.run = c.run /\ b.pidx = all
      BY <1>2 DEF CursorFields
    <2> HIDE DEF b
    <2>2. Body(b)
      BY <1>2, <2>1 DEF Body
    <2> QED BY <1>2, <2>1, <2>2, GenerationBoundarySound
  <1>4. ~over => AdmissionOK(l, c)
    <2> HAVE ~over
    <2>1. c.pidx < all
      BY <1>2
    <2>2. /\ Len(s) = all - c.pidx /\ Len(s) \in Nat
          /\ \A i \in 1 .. Len(s) : s[i] \in Nat /\ s[i] + 1 \in 1 .. all
      BY <1>2, <2>1
    <2> HIDE DEF s
    <2>3. l = AdmissionLoopResult(Admission(c), s)
      BY DEF Fold, AdmissionLoopResult, IsAdmissionLoop
    <2>4. AdmissionOK(AdmissionLoopResult(Admission(c), s), c)
      BY <1>2, <2>2, AdmissionLoopHolds
    <2> HIDE DEF l
    <2> QED BY <2>3, <2>4
  <1> HIDE DEF l, s
  <1>5. ~over => Sound(l.ws \o tail)
    <2> HAVE ~over
    <2>1. AdmissionOK(l, c)
      BY <1>4
    <2> HIDE DEF over
    <2>2. /\ Body(l.c) /\ DOMAIN l.c = CursorFields /\ l.c.pending = NoJob
          /\ l.c.run = "RolloutQueueing" /\ l.c.active = c.active
          /\ resume \in Nat
      BY <1>2, <2>1 DEF AdmissionOK, Body
    <2> HIDE DEF resume, all
    <2>3. Sound(l.ws)
      BY <2>1, QuietIsSound DEF AdmissionOK
    <2>4. Sound(GenerationBoundary(d1))
      <3>1. /\ DOMAIN d1 = CursorFields
        /\ d1.gen = l.c.gen /\ d1.queue = l.c.queue /\ d1.hidx = l.c.hidx
        /\ d1.reg = l.c.reg /\ d1.cand = l.c.cand /\ d1.best = l.c.best
        /\ d1.selected = l.c.selected /\ d1.heldoutBest = l.c.heldoutBest /\ d1.active = l.c.active
        /\ d1.pending = l.c.pending
        /\ d1.run = l.c.run /\ d1.pidx = all
        BY <2>2 DEF CursorFields
      <3> HIDE DEF d1
      <3>2. Body(d1)
        BY <1>2, <2>2, <3>1 DEF Body
      <3> QED BY <2>2, <3>1, <3>2, GenerationBoundarySound
    <2>5. l.end = "reference" => Sound(<<Save(d2)>>)
      <3> HAVE l.end = "reference"
      <3>1. /\ DOMAIN d2 = CursorFields
        /\ d2.gen = l.c.gen /\ d2.queue = l.c.queue /\ d2.pidx = l.c.pidx
        /\ d2.hidx = l.c.hidx /\ d2.reg = l.c.reg /\ d2.cand = l.c.cand
        /\ d2.best = l.c.best /\ d2.selected = l.c.selected /\ d2.heldoutBest = l.c.heldoutBest
        /\ d2.pending = l.c.pending
        /\ d2.run = l.c.run /\ d2.active = l.active /\ d2.phase = "CandidateMinibatch"
        BY <2>2 DEF CursorFields
      <3> HIDE DEF d2
      <3>2. /\ ActiveOK(l.c.cand, l.c.best, l.active)
            /\ l.active.stage = "parent_minibatch_reference"
        BY <2>1 DEF AdmissionOK
      <3>3. Body(d2)
        BY <2>2, <3>1, <3>2 DEF Body
      <3>4. Stands(d2.phase, d2.active.stage, d2.run, d2.hidx, d2.best)
        BY <2>2, <3>1, <3>2 DEF Stands, Going
      <3>5. PendingOK(d2.pending, d2.active.stage, d2.gen)
        BY <2>2, <3>1, <3>2, NoPending
      <3>6. CursorOK(d2)
        BY <3>1, <3>2, <3>3, <3>4, <3>5 DEF CursorOK, Live, Untrained
      <3> QED BY <2>2, <3>1, <3>6, SoundSave
    <2>6. Sound(ToProposerWaiting(d3))
      <3>1. /\ DOMAIN d3 = CursorFields
        /\ d3.gen = l.c.gen /\ d3.queue = l.c.queue /\ d3.hidx = l.c.hidx
        /\ d3.reg = l.c.reg /\ d3.cand = l.c.cand /\ d3.best = l.c.best
        /\ d3.selected = l.c.selected /\ d3.heldoutBest = l.c.heldoutBest /\ d3.active = l.c.active
        /\ d3.pending = l.c.pending
        /\ d3.run = l.c.run /\ d3.pidx = resume
        BY <2>2 DEF CursorFields
      <3> HIDE DEF d3
      <3>2. Body(d3)
        BY <2>2, <3>1 DEF Body
      <3> QED BY <1>2, <2>2, <3>1, <3>2, ToProposerWaitingSound
    <2>7. Sound(<<Save(d4)>>)
      <3>1. DOMAIN a = {"stage", "gen", "evals"} /\ a.stage = "candidate_minibatch"
            /\ a.evals = l.group
        BY DEF Active
      <3> HIDE DEF a
      <3>2. /\ DOMAIN d4 = CursorFields
        /\ d4.gen = l.c.gen /\ d4.queue = l.c.queue /\ d4.hidx = l.c.hidx
        /\ d4.reg = l.c.reg /\ d4.cand = l.c.cand /\ d4.best = l.c.best
        /\ d4.selected = l.c.selected /\ d4.heldoutBest = l.c.heldoutBest
        /\ d4.pending = l.c.pending
        /\ d4.run = l.c.run /\ d4.active = a /\ d4.phase = "CandidateMinibatch" /\ d4.pidx = resume
        BY <2>2 DEF CursorFields
      <3> HIDE DEF d4
      <3>3. ActiveOK(d4.cand, d4.best, d4.active)
        <4>1. DOMAIN l.group = 1 .. Len(l.group)
          BY <2>1, PlainParts DEF AdmissionOK
        <4> QED BY <2>1, <3>1, <3>2, <4>1 DEF AdmissionOK, ActiveOK
      <3>4. Body(d4)
        BY <2>2, <3>2, <3>3 DEF Body
      <3>5. Stands(d4.phase, d4.active.stage, d4.run, d4.hidx, d4.best)
        BY <2>2, <3>1, <3>2 DEF Stands, Going
      <3>6. PendingOK(d4.pending, d4.active.stage, d4.gen)
        BY <2>2, <3>1, <3>2, NoPending
      <3>7. CursorOK(d4)
        BY <3>1, <3>2, <3>4, <3>5, <3>6 DEF CursorOK, Live, Untrained
      <3> QED BY <2>2, <3>2, <3>7, SoundSave
    <2>8. Sound(tail)
      <3> HIDE DEF d1, d2, d3, d4
      <3> QED BY <2>4, <2>5, <2>6, <2>7
    <2> HIDE DEF tail
    <2> QED BY <2>3, <2>8, SoundJoin
  <1> HIDE DEF over, b, tail
  <1> QED BY <1>1, <1>3, <1>5

-----------------------------------------------------------------------------
(* The heldout phase *)

LEMMA HeldoutScanAmong ==
    ASSUME NEW S, Missing \in S, NEW b \in S, NEW s \in Seq(S)
    PROVE  HeldoutScanResult(b, s) \in S
  <1>1. Len(s) \in Nat /\ \A i \in 1 .. Len(s) : s[i] \in S
    OBVIOUS
  <1>2. PICK f : /\ f[0] = b /\ HeldoutScanResult(b, s) = f[Len(s)]
                 /\ \A n \in 1 .. Len(s) : f[n] = HeldoutLeader(f[n - 1], s[n])
    BY ONLY <1>1, HeldoutScanTurns
  <1> DEFINE G == {n \in Nat : f[n] \in S}
  <1>3. \A x, y : HeldoutLeader(x, y) \in {x, y, Missing}
    BY DEF HeldoutLeader
  <1>4. \A n \in 1 .. Len(s) : n - 1 \in G => n \in G
    BY <1>1, <1>2, <1>3
  <1>5. 0 \in G
    BY <1>2
  <1> HIDE DEF G
  <1>6. \A n \in 0 .. Len(s) : n \in G
    BY <1>1, <1>4, <1>5, UpTo
  <1> QED BY <1>1, <1>2, <1>6 DEF G

\* The winner is one of the candidates evaluated, if any.
LEMMA WinnerRegistered ==
    ASSUME NEW c, NEW D, NEW s \in Seq(D)
    PROVE  SelectBestHeldout(c, s) \in D \cup {None, Missing}
  <1> DEFINE S == {x \in Range(s) : c.cand[x].held}
             pool == Keep(s, S)
             inc == Or(c.selected, c.best)
             base == IF inc \in Range(pool) THEN inc ELSE None
             T == D \cup {None, Missing}
             w == Fold(HeldoutLeader, base, pool)
  <1>1. SelectBestHeldout(c, s) = w
    BY DEF SelectBestHeldout
  <1> HIDE DEF S
  <1>2. pool \in Seq(D)
    BY KeptAmong
  <1> HIDE DEF pool
  <1>3. pool \in Seq(T) /\ Range(pool) \subseteq D
    BY <1>2 DEF Range
  <1>4. base \in T /\ Missing \in T
    BY <1>3
  <1> HIDE DEF T, base
  <1>5. w = HeldoutScanResult(base, pool)
    BY DEF Fold, HeldoutScanResult, IsHeldoutScan
  <1>6. HeldoutScanResult(base, pool) \in T
    BY <1>3, <1>4, HeldoutScanAmong
  <1> HIDE DEF w
  <1> QED BY <1>1, <1>5, <1>6 DEF T

\* There is a best candidate exactly when there is one to score on heldout rows.
LEMMA HeldoutAllParts ==
    ASSUME NEW c, Body(c)
    PROVE  HeldoutAll(c) \in Seq(DOMAIN c.cand) /\ (HeldoutAll(c) = <<>> <=> c.best = None)
  <1> DEFINE D == DOMAIN c.cand
             E == {x \in Registered(c) : HeldoutEligible(c, x)}
             pool == Keep(c.reg, E)
  <1>1. Registered(c) = D /\ Len(c.reg) \in Nat
    BY RegisteredParts
  <1>2. HeldoutAll(c) = IF pool = <<>> /\ c.best # None THEN <<c.best>> ELSE pool
    BY DEF HeldoutAll
  <1>3. c.best = None => E = {}
    <2> SUFFICES ASSUME c.best = None, NEW x \in D, HeldoutEligible(c, x) PROVE FALSE
      BY <1>1
    <2>1. x = Seed
      BY NoneIsNotRegistered DEF HeldoutEligible
    <2>2. c.cand[x].train
      BY DEF HeldoutEligible
    <2> QED BY <2>1, <2>2 DEF Body, BestOK
  <1>4. E \subseteq D
    BY <1>1
  <1> HIDE DEF E
  <1>5. pool \in Seq(E)
    BY <1>1, KeptIn
  <1> HIDE DEF pool
  <1>6. pool \in Seq(D)
    <2> HIDE DEF D
    <2> QED BY <1>4, <1>5
  <1>7. c.best = None => pool = <<>>
    BY <1>3, <1>5
  <1>8. c.best # None => c.best \in D
    BY DEF Body, BestOK, Maybe
  <1> DEFINE one == <<c.best>>
  <1>9. c.best # None => one \in Seq(D) /\ one # <<>>
    <2>1. ASSUME NEW A, NEW x \in A PROVE <<x>> \in Seq(A) /\ <<x>> # <<>>
      OBVIOUS
    <2> HIDE DEF D
    <2> QED BY <1>8, <2>1
  <1> HIDE DEF D
  <1>10. HeldoutAll(c) \in Seq(D) /\ (HeldoutAll(c) = <<>> <=> c.best = None)
    <2> HIDE DEF one
    <2>1. HeldoutAll(c) = IF pool = <<>> /\ c.best # None THEN one ELSE pool
      BY <1>2 DEF one
    <2> QED BY <1>6, <1>7, <1>9, <2>1
  <1> QED BY <1>10 DEF D

LEMMA BudgetedAmong ==
    ASSUME NEW c, NEW D, NEW all \in Seq(D), NEW available
    PROVE  BudgetedHeldout(c, all, available) \in Seq(D)
  <1> DEFINE most    == available \div NHeldout
             ahead(x) == {y \in Range(all) :
                           \/ ~TrainAtLeast(x, y)
                           \/ /\ TrainAtLeast(x, y) /\ TrainAtLeast(y, x)
                              /\ \E i, j \in DOMAIN IdOrder :
                                    i < j /\ IdOrder[i] = y /\ IdOrder[j] = x}
             at1(i)  == CHOOSE x \in Range(all) : Cardinality(ahead(x)) = i - 1
             ranked  == [i \in DOMAIN all |-> at1(i)]
             pair    == <<c.best, Seed>>
             line    == pair \o ranked
             wish    == Keep(line, Range(all))
             firsts  == {i \in DOMAIN wish : \A j \in 1 .. i - 1 : wish[j] # wish[i]}
             taken   == {i \in firsts : Cardinality({j \in firsts : j < i}) < most}
             index   == [i \in DOMAIN wish |-> i]
             places  == Keep(index, taken)
             chosen  == [i \in DOMAIN places |-> wish[places[i]]]
             few     == most < MinimumHeldout(c, all) \/ most = 0
  <1>1. BudgetedHeldout(c, all, available) = IF most >= Len(all) THEN all
                                             ELSE IF few THEN <<>> ELSE chosen
    BY DEF BudgetedHeldout
  <1>2. Len(line) \in Nat
    <2> HIDE DEF at1
    <2> DEFINE S == {at1(i) : i \in DOMAIN all} \cup {c.best, Seed}
    <2>1. ranked \in Seq(S)
      <3>1. Len(all) \in Nat /\ DOMAIN all = 1 .. Len(all)
        OBVIOUS
      <3>2. \A i \in DOMAIN all : ranked[i] \in S
        OBVIOUS
      <3>3. ranked \in [DOMAIN all -> S]
        BY <3>2
      <3> HIDE DEF ranked, S
      <3> QED BY <3>1, <3>3
    <2>2. pair \in Seq(S)
      OBVIOUS
    <2> HIDE DEF S, ranked, pair
    <2> QED BY <2>1, <2>2
  <1> HIDE DEF most, few, line
  <1>3. wish \in Seq(Range(all))
    BY <1>2, KeptIn
  <1> HIDE DEF wish
  <1>4. Range(all) \subseteq D
    BY PlainIsSequence
  <1>5. Len(wish) \in Nat /\ DOMAIN wish = 1 .. Len(wish) /\ \A i \in DOMAIN wish : wish[i] \in D
    BY <1>3, <1>4
  <1>6. Len(index) \in Nat
    BY <1>5
  <1>7. taken \subseteq DOMAIN wish
    OBVIOUS
  <1> HIDE DEF index, taken
  <1>8. places \in Seq(taken)
    BY <1>6, KeptIn
  <1> HIDE DEF places
  <1>9. Len(places) \in Nat /\ DOMAIN places = 1 .. Len(places)
        /\ \A i \in DOMAIN places : places[i] \in DOMAIN wish
    BY <1>7, <1>8
  <1>10. chosen \in Seq(D)
    <2>1. DOMAIN chosen = 1 .. Len(places) /\ chosen = [i \in 1 .. Len(places) |-> chosen[i]]
      BY <1>9
    <2>2. \A i \in 1 .. Len(places) : chosen[i] \in D
      BY <1>5, <1>9
    <2> HIDE DEF chosen
    <2> QED BY <1>9, <2>1, <2>2
  <1>11. <<>> \in Seq(D)
    OBVIOUS
  <1> HIDE DEF chosen
  <1> QED BY <1>1, <1>10, <1>11

\* What StartHeldout evaluates: as many of the chosen as are left.
LEMMA HeldoutGroup ==
    ASSUME NEW cand, NEW s \in Seq(DOMAIN cand), NEW k \in Nat, k < Len(s), NEW best, best # None,
           NEW gen
    PROVE  ActiveOK(cand, best, Active("heldout", gen,
               [i \in 1 .. Len(s) - k |-> Evaluation(s[k + i], HeldoutRows, k + i - 1)]))
  <1> DEFINE n == Len(s) - k
             e(i) == Evaluation(s[k + i], HeldoutRows, k + i - 1)
             group == [i \in 1 .. n |-> e(i)]
             a == Active("heldout", gen, group)
  <1>1. n \in Nat /\ n # 0
    OBVIOUS
  <1>2. ASSUME NEW i \in 1 .. n PROVE EvalOK(cand, "heldout", e(i))
    <2> DEFINE x == s[k + i]
               m == k + i - 1
    <2>1. x \in DOMAIN cand /\ m \in Nat
      OBVIOUS
    <2> HIDE DEF x, m
    <2> DEFINE f == Evaluation(x, HeldoutRows, m)
    <2>2. DOMAIN f = EvalFields /\ f.cand = x /\ f.offset = m /\ f.scored = {}
          /\ f.rows = HeldoutRows
      BY DEF Evaluation, EvalFields
    <2> HIDE DEF f
    <2>3. EvalOK(cand, "heldout", f)
      BY <2>1, <2>2, RowsPlain DEF EvalOK
    <2> QED BY <2>3 DEF f, x, m
  <1> HIDE DEF n, e
  <1>3. DOMAIN group = 1 .. n /\ \A i \in 1 .. n : group[i] = e(i)
    OBVIOUS
  <1>4. group \in [1 .. n -> Range(group)]
    BY <1>3 DEF Range
  <1> HIDE DEF group
  <1>5. group \in Seq(Range(group)) /\ Len(group) = n
    BY <1>1, <1>4
  <1>6. Plain(group) /\ group # <<>>
    BY <1>1, <1>5 DEF Plain
  <1>7. DOMAIN a = {"stage", "gen", "evals"} /\ a.stage = "heldout" /\ a.evals = group
    BY DEF Active
  <1> HIDE DEF a
  <1>8. ActiveOK(cand, best, a)
    BY <1>2, <1>3, <1>6, <1>7 DEF ActiveOK
  <1> QED BY <1>8 DEF a, group, e, n

LEMMA StartHeldoutSound ==
    ASSUME NEW c, Live(c), c.pending = NoJob, c.phase = "Heldout", c.active.stage # "heldout"
    PROVE  Sound(StartHeldout(c))
  <1> DEFINE all       == HeldoutAll(c)
             S         == {x \in Range(all) : c.cand[x].held}
             evaluated == Keep(all, S)
             base      == IF evaluated # <<>> THEN evaluated ELSE all
             budgeted  == BudgetedHeldout(c, all, HeldoutCapacity)
             kept      == c.hidx # 0 \/ Breach
             chosen    == IF kept THEN base ELSE budgeted
             required  == Max({Len(chosen), MinimumHeldout(c, all)}) * NHeldout
             broke     == c.hidx = 0 /\ (chosen = <<>> \/ HeldoutCapacity < required \/ Breach)
             r         == Running(c)
             d         == IF c.hidx = 0 THEN r ELSE c
             group     == [i \in 1 .. Len(chosen) - c.hidx |->
                             Evaluation(chosen[c.hidx + i], HeldoutRows, c.hidx + i - 1)]
             winner    == SelectBestHeldout(c, chosen)
             a         == Active("heldout", c.gen, group)
             d1        == [d EXCEPT !.heldoutBest = winner]
             d2        == [d EXCEPT !.active = a]
             D         == DOMAIN c.cand
  <1>1. StartHeldout(c) =
          IF base = <<>> THEN ToFinalizing(c)
          ELSE IF broke THEN Terminalize(c, "Failed")
          ELSE IF c.hidx >= Len(chosen)
               THEN IF winner = Missing THEN <<Fail("missing score vector")>>
                    ELSE ToFinalizing(d1)
          ELSE <<Save(d2)>>
    BY DEF StartHeldout
  <1>2. Body(c) /\ DOMAIN c = CursorFields /\ c.hidx \in Nat
        /\ c.run = (IF c.hidx = 0 THEN "Ready" ELSE "Evaluating") /\ c.active.stage = "none"
    BY DEF Live, Untrained, Body, Stands
  <1>3. all \in Seq(D) /\ (all = <<>> <=> c.best = None)
    BY <1>2, HeldoutAllParts
  <1> HIDE DEF all, S
  <1>4. evaluated \in Seq(D)
    <2> HIDE DEF D
    <2> QED BY <1>3, KeptAmong
  <1>5. budgeted \in Seq(D)
    <2> HIDE DEF D
    <2> QED BY <1>3, BudgetedAmong
  <1> HIDE DEF evaluated, budgeted
  <1>6. base \in Seq(D) /\ (base = <<>> => c.best = None) /\ (c.best = None => all = <<>>)
    BY <1>3, <1>4
  <1>7. chosen \in Seq(D) /\ Len(chosen) \in Nat
    <2> HIDE DEF D, base, kept
    <2> QED BY <1>5, <1>6
  <1>8. /\ DOMAIN d = CursorFields
        /\ d.gen = c.gen /\ d.queue = c.queue /\ d.pidx = c.pidx
        /\ d.hidx = c.hidx /\ d.reg = c.reg /\ d.cand = c.cand
        /\ d.best = c.best /\ d.selected = c.selected /\ d.heldoutBest = c.heldoutBest
        /\ d.active = c.active /\ d.pending = c.pending
        /\ d.phase = c.phase /\ d.run \in {"RolloutRunning", "Evaluating"}
    <2>1. /\ DOMAIN r = CursorFields
        /\ r.gen = c.gen /\ r.queue = c.queue /\ r.pidx = c.pidx
        /\ r.hidx = c.hidx /\ r.reg = c.reg /\ r.cand = c.cand
        /\ r.best = c.best /\ r.selected = c.selected /\ r.heldoutBest = c.heldoutBest
        /\ r.active = c.active /\ r.pending = c.pending
        /\ r.phase = c.phase
        /\ r.run = IF c.run \in {"Ready", "Evaluating", "RolloutQueueing"}
                   THEN "RolloutRunning" ELSE c.run
      BY <1>2, RunningParts
    <2> HIDE DEF r
    <2>2. CASE c.hidx = 0
      BY <2>2, <1>2, <2>1
    <2>3. CASE c.hidx # 0
      BY <2>3, <1>2
    <2> QED BY <2>2, <2>3
  <1> HIDE DEF chosen, kept, d, r
  <1>9. base = <<>> => Sound(ToFinalizing(c))
    <2> HAVE base = <<>>
    <2>1. c.best = None
      BY <1>6
    <2>2. c.run = "Evaluating" \/ (c.run = "Ready" /\ c.best = None)
      BY <1>2, <2>1
    <2> QED BY <1>2, <2>2, ToFinalizingSound
  <1>10. Sound(Terminalize(c, "Failed"))
    BY <1>2, RunGoesOn, TerminalizeSound
  <1>11. Sound(<<Fail("missing score vector")>>)
    BY QuietFail, QuietIsSound
  <1>12. winner # Missing => Sound(ToFinalizing(d1))
    <2> HAVE winner # Missing
    <2>1. winner \in Maybe(D)
      <3>1. winner \in D \cup {None, Missing}
        <4> HIDE DEF D
        <4> QED BY <1>7, WinnerRegistered
      <3> HIDE DEF winner, D
      <3> QED BY <3>1 DEF Maybe
    <2> HIDE DEF winner
    <2>2. /\ DOMAIN d1 = CursorFields
        /\ d1.gen = c.gen /\ d1.queue = c.queue /\ d1.pidx = c.pidx
        /\ d1.hidx = c.hidx /\ d1.reg = c.reg /\ d1.cand = c.cand
        /\ d1.best = c.best /\ d1.selected = c.selected /\ d1.active = c.active
        /\ d1.pending = c.pending
        /\ d1.heldoutBest = winner /\ d1.run = d.run
      BY <1>8 DEF CursorFields
    <2> HIDE DEF d1
    <2>3. BestOK(d1.cand, d1.best, d1.selected, d1.heldoutBest)
      BY <1>2, <2>1, <2>2 DEF Body, BestOK, Maybe
    <2>4. Body(d1)
      BY <1>2, <2>2, <2>3 DEF Body
    <2> QED BY <1>8, <2>2, <2>4, ToFinalizingSound
  <1>13. base # <<>> /\ ~(c.hidx >= Len(chosen)) => Sound(<<Save(d2)>>)
    <2> HAVE base # <<>> /\ ~(c.hidx >= Len(chosen))
    <2>1. c.hidx < Len(chosen)
      BY <1>2, <1>7
    <2>2. c.best # None
      <3>1. all # <<>>
        <4>1. evaluated = <<>> => base = all
          OBVIOUS
        <4>2. all = <<>> => evaluated = <<>>
          <5> HAVE all = <<>>
          <5> DEFINE N == {}
          <5>1. all \in Seq(N)
            OBVIOUS
          <5> HIDE DEF N
          <5>2. Keep(all, S) \in Seq(N)
            BY <5>1, KeptAmong
          <5> QED BY <5>2 DEF N, evaluated
        <4> QED BY <4>1, <4>2
      <3> QED BY <1>3, <3>1
    <2>3. ActiveOK(c.cand, c.best, a)
      BY <1>2, <1>7, <2>1, <2>2, HeldoutGroup
    <2>4. a.stage = "heldout"
      BY DEF Active
    <2> HIDE DEF a
    <2>5. /\ DOMAIN d2 = CursorFields
        /\ d2.gen = c.gen /\ d2.queue = c.queue /\ d2.pidx = c.pidx
        /\ d2.hidx = c.hidx /\ d2.reg = c.reg /\ d2.cand = c.cand
        /\ d2.best = c.best /\ d2.selected = c.selected /\ d2.heldoutBest = c.heldoutBest
        /\ d2.pending = c.pending
        /\ d2.active = a /\ d2.run = d.run /\ d2.phase = c.phase
      BY <1>8 DEF CursorFields
    <2> HIDE DEF d2
    <2>6. Body(d2)
      BY <1>2, <2>3, <2>5 DEF Body
    <2>7. Stands(d2.phase, d2.active.stage, d2.run, d2.hidx, d2.best)
      BY <1>8, <2>4, <2>5 DEF Stands
    <2>8. PendingOK(d2.pending, d2.active.stage, d2.gen)
      BY <2>4, <2>5, NoPending
    <2>9. CursorOK(d2)
      BY <2>4, <2>5, <2>6, <2>7, <2>8 DEF CursorOK, Live, Untrained
    <2> QED BY <2>5, <2>9, SoundSave
  <1> HIDE DEF base, broke, winner, d1, d2, required
  <1> QED BY <1>1, <1>9, <1>10, <1>11, <1>12, <1>13

LEMMA HeldoutSound ==
    ASSUME NEW c, Live(c), c.pending = NoJob, c.phase = "Heldout" PROVE Sound(Heldout(c))
  BY EvaluateSound, StartHeldoutSound DEF RolloutStages, Stage, Heldout

-----------------------------------------------------------------------------
(* The ticks *)

LEMMA OnItsWay ==
    ASSUME GInv, ~Ended
    PROVE  /\ cur = NewCursor \/ Live(cur)
           /\ cur.phase = "Initializing" => cur = NewCursor
           /\ cur.pending # NoJob => Live(cur) /\ cur.pending \in DOMAIN jobs
           /\ cur.phase # "Initializing" => Live(cur)
  <1>1. cur = NewCursor \/ Live(cur)
    BY DEF GInv, CursorOK, EndOK, Ended
  <1>2. NewCursor.phase = "Initializing" /\ NewCursor.pending = NoJob
    BY DEF NewCursor
  <1>3. Live(cur) => cur.phase # "Initializing"
    BY DEF Live, Stands
  <1>4. cur.pending = NoJob \/ cur.pending \in DOMAIN jobs
    BY DEF GInv
  <1> QED BY <1>1, <1>2, <1>3, <1>4

LEMMA PhasesHold ==
    ASSUME GInv, \/ AdvanceInitializing \/ AdvanceSeedFullTrain \/ AdvanceGenerationStart
                 \/ AdvanceProposerWaiting \/ AdvanceCandidateMinibatch
                 \/ AdvanceCandidateFullTrain \/ AdvanceHeldout \/ AdvanceFinalizing
    PROVE  GInv'
  <1>1. CASE AdvanceInitializing
    BY <1>1, OnItsWay, InitializeRunSound, TickHolds DEF AdvanceInitializing, Free, GInv
  <1>2. CASE AdvanceSeedFullTrain
    BY <1>2, OnItsWay, SeedFullTrainSound, TickHolds DEF AdvanceSeedFullTrain, Free
  <1>3. CASE AdvanceGenerationStart
    <2>1. Live(cur) /\ cur.pending = NoJob /\ cur.phase = "GenerationStart"
      BY <1>3, OnItsWay DEF AdvanceGenerationStart, Free
    <2>2. PICK parent : Tick(GenerationStart(cur, parent))
      BY <1>3 DEF AdvanceGenerationStart
    <2>3. Sound(GenerationStart(cur, parent))
      BY <2>1, GenerationStartSound
    <2> QED BY <2>2, <2>3, TickHolds
  <1>4. CASE AdvanceProposerWaiting
    BY <1>4, OnItsWay, ProposerWaitingSound, TickHolds DEF AdvanceProposerWaiting, Free
  <1>5. CASE AdvanceCandidateMinibatch \/ AdvanceCandidateFullTrain
    BY <1>5, OnItsWay, EvaluateSound, TickHolds DEF AdvanceCandidateMinibatch,
       AdvanceCandidateFullTrain, Free, Live, Untrained, Stands, RolloutStages, Stage
  <1>6. CASE AdvanceHeldout
    BY <1>6, OnItsWay, HeldoutSound, TickHolds DEF AdvanceHeldout, Free
  <1>7. CASE AdvanceFinalizing
    BY <1>7, OnItsWay, FinalizeRunSound, TickHolds DEF AdvanceFinalizing, Free
  <1> QED BY <1>1, <1>2, <1>3, <1>4, <1>5, <1>6, <1>7

\* The frames that came do not touch who has been trained.
FramesGrow(fr, gr) ==
    /\ DOMAIN fr \subseteq DOMAIN gr /\ Numbers(gr)
    /\ \A x \in DOMAIN cur.cand : cur.cand[x].train =>
         \A r \in Range(TrainRows) :
           /\ TrainKey(x, r) \in DOMAIN gr <=> TrainKey(x, r) \in DOMAIN fr
           /\ TrainKey(x, r) \in DOMAIN fr => gr[TrainKey(x, r)] = fr[TrainKey(x, r)]

\* A row of the evaluation under way gets its frame.
LEMMA FrameAdded ==
    ASSUME Live(cur), NEW q, NEW reward \in Int,
           \E i \in DOMAIN cur.active.evals : cur.active.evals[i].cand = q[1]
    PROVE  FramesGrow(frames, Put(frames, <<q[1], cur.active.stage, q[2]>>, reward))
  <1> DEFINE key == <<q[1], cur.active.stage, q[2]>>
             gr == Put(frames, key, reward)
  <1>1. /\ DOMAIN gr = DOMAIN frames \cup {key} /\ gr[key] = reward
        /\ \A f \in DOMAIN frames : f # key => gr[f] = frames[f]
    BY DEF Put
  <1>2. Body(cur) /\ Numbers(frames)
    BY DEF Live, Body
  <1>3. PICK i \in DOMAIN cur.active.evals : cur.active.evals[i].cand = q[1]
    OBVIOUS
  <1>4. ASSUME NEW x \in DOMAIN cur.cand, cur.cand[x].train, NEW r PROVE TrainKey(x, r) # key
    <2> SUFFICES ASSUME TrainKey(x, r) = key PROVE FALSE
      OBVIOUS
    <2>1. x = q[1] /\ cur.active.stage = TrainStage(x)
      BY DEF TrainKey
    <2>2. CASE x = Seed
      <3>1. cur.active.stage = "seed_full_train"
        BY <2>1, <2>2 DEF TrainStage
      <3> QED BY <1>2, <1>4, <2>2, <3>1 DEF Body, ActiveOK, BestOK
    <2>3. CASE x # Seed
      <3>1. cur.active.stage = "candidate_full_train"
        BY <2>1, <2>3 DEF TrainStage
      <3> QED BY <1>3, <1>4, <2>1, <3>1 DEF Live, Untrained
    <2> QED BY <2>2, <2>3
  <1> HIDE DEF gr, key
  <1>5. Numbers(gr)
    BY <1>1, <1>2 DEF Numbers
  <1>6. ASSUME NEW x \in DOMAIN cur.cand, cur.cand[x].train, NEW r
        PROVE  /\ TrainKey(x, r) \in DOMAIN gr <=> TrainKey(x, r) \in DOMAIN frames
               /\ TrainKey(x, r) \in DOMAIN frames => gr[TrainKey(x, r)] = frames[TrainKey(x, r)]
    BY <1>1, <1>4, <1>6
  <1>7. FramesGrow(frames, gr)
    BY <1>1, <1>5, <1>6 DEF FramesGrow
  <1> QED BY <1>7 DEF gr, key

\* The same cursor with more frames.
LEMMA CursorStays ==
    ASSUME CursorOK(cur), cur' = cur, FramesGrow(frames, frames')
    PROVE  CursorOK(cur)'
  <1>1. CASE cur = NewCursor
    BY <1>1 DEF CursorOK
  <1>2. CASE DOMAIN cur = CursorFields /\ EndOK(cur) /\ cur.pending = NoJob
    <2>1. EndOK(cur)'
      BY <1>2 DEF EndOK, HasFrames, FramesGrow
    <2> QED BY <1>2, <2>1 DEF CursorOK
  <1>3. CASE Live(cur)
    <2>1. Lead(frames, cur.cand, cur.best) /\ Numbers(frames)
      BY <1>3 DEF Live, Body
    <2>2. Lead(frames', cur.cand, cur.best) /\ Numbers(frames')
      BY <2>1, LeadStays DEF FramesGrow
    <2>3. ActiveOK(cur.cand, cur.best, cur.active)'
      BY <1>3 DEF Live, Body, ActiveOK, EvalOK, FramesGrow
    <2>4. CandOK(cur.cand, cur.reg)'
      BY <1>3 DEF Live, Body, CandOK, HasFrames, FramesGrow
    <2>5. Body(cur)'
      BY <1>3, <2>2, <2>3, <2>4 DEF Live, Body
    <2> QED BY <1>3, <2>5 DEF Live, Untrained, CursorOK
  <1> QED BY <1>1, <1>2, <1>3 DEF CursorOK

LEMMA CursorRests ==
    ASSUME CursorOK(cur), cur' = cur, frames' = frames, Numbers(frames) PROVE CursorOK(cur)'
  BY CursorStays DEF FramesGrow

LEMMA JobsSettle ==
    ASSUME GInv, NEW k \in DOMAIN jobs, NEW j, JobOK(k, j), jobs' = [jobs EXCEPT ![k] = j]
    PROVE  DOMAIN jobs' = DOMAIN jobs /\ \A i \in DOMAIN jobs' : JobOK(i, jobs'[i])
  BY DEF GInv

\* The turn of the proposer, with a proposal list it may return.
LEMMA ExecuteProposerHolds == ASSUME GInv, ExecuteProposer PROVE GInv'
  <1> DEFINE k == cur.pending
  <1>1. Live(cur) /\ k \in DOMAIN jobs /\ k # NoJob /\ ~IsRollout(k)
    BY OnItsWay DEF ExecuteProposer, Pending
  <1>2. cur.gen \in Nat /\ cur.gen < MaxGenerations
    BY <1>1 DEF Live, Untrained, Body, PendingOK, IsRollout
  <1>3. PICK batch \in Batches[cur.gen] :
          Tick(<<Settle(k, [status |-> "completed", result |-> batch]),
                 LogRound(k, "Returned"),
                 LogRound(k, IF batch = <<>> THEN "ParseFailed" ELSE "ParsedOk"),
                 LogRound(k, "Closed"), Save(cur)>>)
    BY DEF ExecuteProposer
  <1>4. batch \in Seq(Proposed)
    <2>1. cur.gen \in 0 .. MaxGenerations - 1
      BY <1>2, GepaAssumption
    <2> QED BY <1>3, <2>1, GepaAssumption DEF Proposed
  <1> DEFINE j == [status |-> "completed", result |-> batch]
             v == Settle(k, j)
             x == LogRound(k, "Returned")
             y == LogRound(k, IF batch = <<>> THEN "ParseFailed" ELSE "ParsedOk")
             z == LogRound(k, "Closed")
             w == Save(cur)
  <1>5. JobOK(k, j)
    BY <1>1, <1>4 DEF JobOK
  <1> HIDE DEF j
  <1>6. /\ v.kind = "settle" /\ v.id = k /\ v.to = j /\ w.kind = "save" /\ w.to = cur
        /\ x.kind = "round" /\ y.kind = "round" /\ z.kind = "round"
    BY DEF Settle, LogRound, Save
  <1> HIDE DEF v, x, y, z, w
  <1> DEFINE p == <<v, x, y, z, w>>
             S == {v, x, y, z, w}
  <1>7. /\ p \in Seq(S) /\ Len(p) = 5
        /\ p[1] = v /\ p[2] = x /\ p[3] = y /\ p[4] = z /\ p[5] = w
    OBVIOUS
  <1> HIDE DEF p, S
  <1>8. CursorOK(cur)
    BY DEF GInv
  <1>9. ASSUME NEW i \in 1 .. Len(p) PROVE WriteOK(p[i]) /\ Follows(p, i)
    <2>1. i \in {1, 2, 3, 4, 5}
      BY <1>7
    <2>2. CASE i = 1
      BY <1>5, <1>6, <1>7, <2>2 DEF WriteOK, Follows, Kinds
    <2>3. CASE i \in {2, 3, 4}
      BY <1>6, <1>7, <2>3 DEF WriteOK, Follows, Kinds
    <2>4. CASE i = 5
      BY <1>6, <1>7, <2>4, <1>1, <1>8 DEF WriteOK, Follows, Kinds
    <2> QED BY <2>1, <2>2, <2>3, <2>4
  <1>10. Sound(p)
    BY <1>7, <1>9, PlainIsSequence DEF Sound
  <1>11. Tick(p)
    BY <1>3 DEF p, v, w, x, y, z, j
  <1> QED BY <1>10, <1>11, TickHolds

LEMMA ConsumeProposalsHolds == ASSUME GInv, ConsumeProposals PROVE GInv'
  <1> DEFINE k == cur.pending
             b == RunTo(cur, {"Proposing"}, "RolloutQueueing")
             q == jobs[k].result
             d == [b EXCEPT !.queue = q, !.pidx = 0, !.active = NoActive,
                            !.pending = NoJob, !.phase = "ProposerWaiting"]
  <1>1. /\ Live(cur) /\ Body(cur) /\ DOMAIN cur = CursorFields
        /\ k \in DOMAIN jobs /\ k # NoJob /\ ~IsRollout(k)
    BY OnItsWay DEF ConsumeProposals, Pending, Live, Untrained, Body
  <1>2. k[1] = "proposer" /\ cur.active.stage = "proposer"
    BY <1>1 DEF Live, Untrained, PendingOK, IsRollout
  <1>3. q \in Seq(Proposed)
    BY <1>1, <1>2 DEF ConsumeProposals, Pending, GInv, JobOK
  <1>4. cur.run = "Proposing"
    BY <1>1, <1>2 DEF Live, Untrained, Stands
  <1>5. /\ DOMAIN b = CursorFields
        /\ b.gen = cur.gen /\ b.queue = cur.queue /\ b.pidx = cur.pidx
        /\ b.hidx = cur.hidx /\ b.reg = cur.reg /\ b.cand = cur.cand
        /\ b.best = cur.best /\ b.selected = cur.selected /\ b.heldoutBest = cur.heldoutBest
        /\ b.active = cur.active /\ b.pending = cur.pending
        /\ b.run = IF cur.run \in {"Proposing"} THEN "RolloutQueueing" ELSE cur.run
    BY <1>1, RunToParts
  <1> HIDE DEF b, q
  <1>6. /\ DOMAIN d = CursorFields
        /\ d.gen = cur.gen /\ d.hidx = cur.hidx /\ d.reg = cur.reg
        /\ d.cand = cur.cand /\ d.best = cur.best /\ d.selected = cur.selected
        /\ d.heldoutBest = cur.heldoutBest
        /\ d.queue = q /\ d.pidx = 0 /\ d.active = NoActive /\ d.pending = NoJob
        /\ d.phase = "ProposerWaiting" /\ d.run = "RolloutQueueing"
    BY <1>4, <1>5 DEF CursorFields
  <1>7. ConsumeProposals => Tick(<<Save(d)>>)
    BY DEF ConsumeProposals, d, b, q
  <1> HIDE DEF d
  <1>8. ActiveOK(d.cand, d.best, d.active)
    BY <1>6, NoActiveOK
  <1>9. Body(d)
    BY <1>1, <1>3, <1>6, <1>8 DEF Body
  <1>10. CursorOK(d)
    BY <1>6, <1>9, NoActiveParts, NoPending DEF CursorOK, Live, Untrained, Stands
  <1>11. Sound(<<Save(d)>>)
    BY <1>6, <1>10, SoundSave
  <1> QED BY <1>7, <1>11, TickHolds

\* A job that settles and a run that ends.
LEMMA SettledSound ==
    ASSUME NEW k, NEW j, JobOK(k, j) PROVE Sound(<<Settle(k, j)>>)
  <1> DEFINE w == Settle(k, j)
  <1>1. w.kind = "settle" /\ w.id = k /\ w.to = j
    BY DEF Settle
  <1> HIDE DEF w
  <1>2. Plain(<<w>>) /\ Len(<<w>>) = 1 /\ <<w>>[1] = w
    BY PlainOne
  <1>3. Sound(<<w>>)
    BY <1>1, <1>2 DEF Sound, WriteOK, Follows, Kinds
  <1> QED BY <1>3 DEF w

LEMMA EndingSound ==
    ASSUME GInv, ~Ended, NEW phase \in {"Failed", "Cancelled"}
    PROVE  Sound(Terminalize(cur, phase))
  <1>1. CASE cur = NewCursor
    BY <1>1, TerminalizeSound DEF NewCursor, CursorFields, RunTerminal
  <1>2. CASE Live(cur)
    BY <1>2, RunGoesOn, TerminalizeSound DEF Live, Untrained, Body
  <1> QED BY <1>1, <1>2, OnItsWay

LEMMA JobFailsHolds == ASSUME GInv, JobFails PROVE GInv'
  <1> DEFINE j == [status |-> "failed", result |-> << >>]
             ws == <<Settle(cur.pending, j)>> \o Terminalize(cur, "Failed")
  <1>1. Complete(ws) /\ frames' = frames /\ ~Ended
    BY DEF JobFails, Pending
  <1>2. JobOK(cur.pending, j)
    BY DEF JobOK
  <1> HIDE DEF j
  <1>3. Sound(ws)
    BY <1>1, <1>2, SettledSound, EndingSound, SoundJoin
  <1> HIDE DEF ws
  <1> QED BY <1>1, <1>3, StoreHolds DEF Complete

LEMMA AbortHolds == ASSUME GInv, Abort PROVE GInv'
  <1> DEFINE j == [status |-> "cancelled", result |-> << >>]
             t == Terminalize(cur, "Cancelled")
             ws == CancelPending \o t
  <1>1. Tick(ws) /\ ~Ended
    BY DEF Abort
  <1>2. JobOK(cur.pending, j)
    BY DEF JobOK
  <1>3. Sound(CancelPending)
    BY <1>2, SettledSound, QuietNothing, QuietIsSound DEF CancelPending
  <1>4. Sound(t)
    BY <1>1, EndingSound
  <1> HIDE DEF t
  <1>5. Sound(ws)
    BY <1>3, <1>4, SoundJoin
  <1> HIDE DEF ws
  <1> QED BY <1>1, <1>5, TickHolds

-----------------------------------------------------------------------------
(* The outcomes of a batch *)

LEMMA ExecuteRolloutsHolds == ASSUME GInv, ExecuteRollouts PROVE GInv'
  <1> DEFINE k == cur.pending
  <1>1. k \in DOMAIN jobs /\ IsRollout(k)
    BY OnItsWay DEF ExecuteRollouts, Pending
  <1>2. PICK result \in Outcomes(k) : jobs' = [jobs EXCEPT ![k] = Done(result)]
    BY DEF ExecuteRollouts
  <1>3. JobOK(k, Done(result))
    <2>1. result \in [Range(k[2]) -> Rewards \cup {Failed}] /\ Rewards \cup {Failed} \subseteq Int
      <3> HIDE DEF k
      <3> QED BY GepaAssumption DEF Outcomes, Failed
    <2>2. result \in [Range(k[2]) -> Int]
      <3> HIDE DEF k
      <3> QED BY <2>1
    <2> QED BY <1>1, <2>2 DEF JobOK, IsRollout, Done
  <1>4. DOMAIN jobs' = DOMAIN jobs /\ \A i \in DOMAIN jobs' : JobOK(i, jobs'[i])
    BY <1>1, <1>2, <1>3, JobsSettle
  <1>5. cur' = cur /\ frames' = frames
    BY DEF ExecuteRollouts
  <1>6. CursorOK(cur)'
    BY <1>5, CursorRests DEF GInv
  <1> QED BY <1>4, <1>5, <1>6 DEF GInv, JobOK

LEMMA ConsumedParts ==
    ASSUME NEW e, DOMAIN e = EvalFields, NEW row, NEW reward
    PROVE  LET d == Consumed(e, row, reward) IN
           /\ DOMAIN d = EvalFields
           /\ d.cand = e.cand /\ d.rows = e.rows /\ d.offset = e.offset
           /\ d.scored = e.scored \/ (d.scored = e.scored \cup {row} /\ reward # Failed)
  <1> DEFINE d1 == [e EXCEPT !.failed = @ \cup {row}]
             d2 == [e EXCEPT !.scored = @ \cup {row}]
  <1>1. Consumed(e, row, reward) =
          IF row \in e.scored \/ (reward = Failed /\ row \in e.failed) THEN e
          ELSE IF reward = Failed THEN d1 ELSE d2
    BY DEF Consumed
  <1>2. DOMAIN d1 = EvalFields /\ d1.cand = e.cand /\ d1.rows = e.rows /\ d1.offset = e.offset
        /\ d1.scored = e.scored
    BY DEF EvalFields
  <1>3. DOMAIN d2 = EvalFields /\ d2.cand = e.cand /\ d2.rows = e.rows /\ d2.offset = e.offset
        /\ d2.scored = e.scored \cup {row}
    BY DEF EvalFields
  <1> HIDE DEF d1, d2
  <1> QED BY <1>1, <1>2, <1>3

\* A child changes its own evaluation, and the sample window.
LEMMA ConsumeIntoParts ==
    ASSUME NEW c, Body(c), NEW q, NEW reward
    PROVE  LET d == ConsumeInto(c, q, reward) IN
        /\ DOMAIN d = CursorFields
        /\ d.gen = c.gen /\ d.queue = c.queue /\ d.pidx = c.pidx
        /\ d.hidx = c.hidx /\ d.reg = c.reg /\ d.cand = c.cand
        /\ d.best = c.best /\ d.selected = c.selected /\ d.heldoutBest = c.heldoutBest
        /\ d.pending = c.pending
        /\ d.run = c.run /\ d.phase = c.phase
        /\ DOMAIN d.active = {"stage", "gen", "evals"} /\ d.active.stage = c.active.stage
        /\ Plain(d.active.evals) /\ Len(d.active.evals) = Len(c.active.evals)
        /\ DOMAIN d.active.evals = DOMAIN c.active.evals
        /\ \A i \in DOMAIN c.active.evals :
             d.active.evals[i] = IF c.active.evals[i].cand = q[1]
                                 THEN Consumed(c.active.evals[i], q[2], reward)
                                 ELSE c.active.evals[i]
  <1> DEFINE s == c.active.evals
             g(i) == IF s[i].cand = q[1] THEN Consumed(s[i], q[2], reward) ELSE s[i]
             t == [i \in DOMAIN s |-> g(i)]
             a == [c.active EXCEPT !.evals = t]
             w == Sampled(c.samples, reward = Failed)
             d == [c EXCEPT !.active.evals = t, !.samples = w]
  <1>1. ConsumeInto(c, q, reward) = d
    BY DEF ConsumeInto
  <1>2. DOMAIN c = CursorFields /\ DOMAIN c.active = {"stage", "gen", "evals"} /\ Plain(s)
    BY DEF Body, ActiveOK
  <1>3. Len(s) \in Nat /\ DOMAIN s = 1 .. Len(s)
    BY <1>2, PlainParts
  <1> HIDE DEF w
  <1>4. Plain(t) /\ Len(t) = Len(s) /\ DOMAIN t = DOMAIN s /\ \A i \in DOMAIN s : t[i] = g(i)
    <2> HIDE DEF g, s
    <2>1. DOMAIN t = DOMAIN s /\ \A i \in DOMAIN s : t[i] = g(i)
      OBVIOUS
    <2>2. t \in [1 .. Len(s) -> Range(t)]
      BY <1>3 DEF Range
    <2> HIDE DEF t
    <2>3. t \in Seq(Range(t)) /\ Len(t) = Len(s)
      BY <1>3, <2>2
    <2> QED BY <2>1, <2>3 DEF Plain
  <1> HIDE DEF t
  <1>5. DOMAIN a = {"stage", "gen", "evals"} /\ a.stage = c.active.stage /\ a.evals = t
    BY <1>2
  <1>6. /\ DOMAIN d = CursorFields
        /\ d.gen = c.gen /\ d.queue = c.queue /\ d.pidx = c.pidx
        /\ d.hidx = c.hidx /\ d.reg = c.reg /\ d.cand = c.cand
        /\ d.best = c.best /\ d.selected = c.selected /\ d.heldoutBest = c.heldoutBest
        /\ d.pending = c.pending
        /\ d.run = c.run /\ d.phase = c.phase /\ d.active = a
    BY <1>2 DEF CursorFields
  <1> HIDE DEF d, a
  <1>7. /\ DOMAIN d = CursorFields
        /\ d.gen = c.gen /\ d.queue = c.queue /\ d.pidx = c.pidx
        /\ d.hidx = c.hidx /\ d.reg = c.reg /\ d.cand = c.cand
        /\ d.best = c.best /\ d.selected = c.selected /\ d.heldoutBest = c.heldoutBest
        /\ d.pending = c.pending
        /\ d.run = c.run /\ d.phase = c.phase
        /\ DOMAIN d.active = {"stage", "gen", "evals"} /\ d.active.stage = c.active.stage
        /\ Plain(d.active.evals) /\ Len(d.active.evals) = Len(c.active.evals)
        /\ DOMAIN d.active.evals = DOMAIN c.active.evals
        /\ \A i \in DOMAIN c.active.evals :
             d.active.evals[i] = IF c.active.evals[i].cand = q[1]
                                 THEN Consumed(c.active.evals[i], q[2], reward)
                                 ELSE c.active.evals[i]
    BY <1>4, <1>5, <1>6
  <1> QED BY <1>1, <1>7

\* The cursor after a child: its frame is there if it was scored.
LEMMA ConsumedCursor ==
    ASSUME Live(cur), NEW q, NEW reward, NEW d, d = ConsumeInto(cur, q, reward), cur' = d,
           cur.active.stage \in RolloutStages,
           FramesGrow(frames, frames'),
           reward # Failed => <<q[1], cur.active.stage, q[2]>> \in DOMAIN frames'
    PROVE  Live(cur)' /\ cur'.pending = cur.pending
  <1>1. Body(cur) /\ Stands(cur.phase, cur.active.stage, cur.run, cur.hidx, cur.best)
        /\ PendingOK(cur.pending, cur.active.stage, cur.gen)
    BY DEF Live, Untrained
  <1>2. /\ DOMAIN d = CursorFields
        /\ d.gen = cur.gen /\ d.queue = cur.queue /\ d.pidx = cur.pidx
        /\ d.hidx = cur.hidx /\ d.reg = cur.reg /\ d.cand = cur.cand
        /\ d.best = cur.best /\ d.selected = cur.selected /\ d.heldoutBest = cur.heldoutBest
        /\ d.pending = cur.pending
        /\ d.run = cur.run /\ d.phase = cur.phase
        /\ DOMAIN d.active = {"stage", "gen", "evals"} /\ d.active.stage = cur.active.stage
        /\ Plain(d.active.evals) /\ Len(d.active.evals) = Len(cur.active.evals)
        /\ DOMAIN d.active.evals = DOMAIN cur.active.evals
        /\ \A i \in DOMAIN cur.active.evals :
             d.active.evals[i] = IF cur.active.evals[i].cand = q[1]
                                 THEN Consumed(cur.active.evals[i], q[2], reward)
                                 ELSE cur.active.evals[i]
    BY <1>1, ConsumeIntoParts
  <1>3. CandOK(cur.cand, cur.reg)'
    BY <1>2, <1>1 DEF Body, CandOK, HasFrames, FramesGrow
  <1>4. ActiveOK(cur.cand, cur.best, cur.active)'
    <2> DEFINE st == cur.active.stage
    <2>1. ASSUME NEW i \in DOMAIN cur.active.evals
          PROVE  LET e == d.active.evals[i] IN
                 /\ DOMAIN e = EvalFields /\ e.cand \in DOMAIN cur.cand /\ e.offset \in Nat
                 /\ Plain(e.rows)
                 /\ \A r \in e.scored : <<e.cand, st, r>> \in DOMAIN frames'
                 /\ st = "heldout" => e.rows = HeldoutRows
                 /\ st \in {"candidate_minibatch", "candidate_full_train"} => e.cand # Seed
                 /\ st = "candidate_minibatch" => ~cur.cand[e.cand].train
                 /\ e.cand = cur.active.evals[i].cand
      <3> DEFINE e == cur.active.evals[i]
                 f == Consumed(e, q[2], reward)
      <3>1. /\ DOMAIN e = EvalFields /\ e.cand \in DOMAIN cur.cand /\ e.offset \in Nat
            /\ Plain(e.rows)
            /\ \A r \in e.scored : <<e.cand, st, r>> \in DOMAIN frames'
            /\ st = "heldout" => e.rows = HeldoutRows
            /\ st \in {"candidate_minibatch", "candidate_full_train"} => e.cand # Seed
            /\ st = "candidate_minibatch" => ~cur.cand[e.cand].train
        BY <1>1 DEF Body, ActiveOK, EvalOK, FramesGrow
      <3>2. /\ DOMAIN f = EvalFields
            /\ f.cand = e.cand /\ f.rows = e.rows /\ f.offset = e.offset
            /\ f.scored = e.scored \/ (f.scored = e.scored \cup {q[2]} /\ reward # Failed)
        BY <3>1, ConsumedParts
      <3>3. d.active.evals[i] = IF e.cand = q[1] THEN f ELSE e
        BY <1>2
      <3>6. e.cand = cur.active.evals[i].cand
        OBVIOUS
      <3> HIDE DEF e, f, st
      <3>4. CASE e.cand = q[1]
        BY <3>1, <3>2, <3>4, <3>3, <3>6 DEF st
      <3>5. CASE e.cand # q[1]
        BY <3>1, <3>3, <3>5, <3>6
      <3> QED BY <3>4, <3>5
    <2>2. cur'.active = d.active /\ cur'.cand = cur.cand /\ cur'.best = cur.best
      BY <1>2
    <2>3. st # "none" /\ (st = "heldout" => cur.active.evals # <<>> /\ cur.best # None)
          /\ (st = "seed_full_train" => cur.best = None)
      BY <1>1 DEF Body, ActiveOK, RolloutStages, Stage
    <2>4. cur.active.evals # <<>> => d.active.evals # <<>>
      BY <1>1, PlainParts, <1>2 DEF Body, ActiveOK, Plain
    <2> QED BY <1>2, <2>1, <2>2, <2>3, <2>4 DEF ActiveOK, EvalOK
  <1>5. BestOK(cur.cand, cur.best, cur.selected, cur.heldoutBest)'
    BY <1>2, <1>1 DEF Body, BestOK
  <1>6. Body(cur)'
    <2>1. Lead(frames', cur.cand, cur.best) /\ Numbers(frames')
      BY <1>1, LeadStays DEF Body, FramesGrow
    <2> QED BY <1>1, <1>2, <1>3, <1>4, <1>5, <2>1 DEF Body
  <1>9. Untrained(cur.cand, cur.active)'
    <2>1. \A i \in DOMAIN cur.active.evals : d.active.evals[i].cand = cur.active.evals[i].cand
      BY <1>2, <1>1, ConsumedParts DEF Body, ActiveOK, EvalOK
    <2> QED BY <1>2, <2>1 DEF Live, Untrained
  <1>7. cur'.phase = cur.phase /\ cur'.active.stage = cur.active.stage /\ cur'.run = cur.run
        /\ cur'.hidx = cur.hidx /\ cur'.best = cur.best /\ cur'.gen = cur.gen
        /\ cur'.pending = cur.pending
    BY <1>2
  <1>8. Stands(cur.phase, cur.active.stage, cur.run, cur.hidx, cur.best)'
        /\ PendingOK(cur.pending, cur.active.stage, cur.gen)'
    BY <1>1, <1>7
  <1> QED BY <1>6, <1>7, <1>8, <1>9 DEF Live

\* A cursor with a batch of rollouts pending is not in the proposer stage.
LEMMA NotTheProposer ==
    ASSUME NEW c, Live(c), IsRollout(c.pending)
    PROVE  c.active.stage # "proposer" /\ Plain(c.pending[2])
  BY DEF Live, Untrained, PendingOK, IsRollout

\* Every child is one of the rows the batch asked for.
LEMMA ChildIsAsked ==
    ASSUME NEW k, Plain(k[2]), at \in Nat, at < Len(k[2])
    PROVE  Children(k)[at + 1] \in Range(k[2])
  <1> DEFINE s == k[2]
             S == {q \in Range(s) : jobs[k].result[q] # Failed}
             t == Keep(s, S) \o Keep(s, Range(s) \ S)
  <1>1. Children(k) = t
    BY DEF Children
  <1>2. S \subseteq Range(s)
    OBVIOUS
  <1> HIDE DEF S
  <1>3. t \in Seq(Range(s)) /\ Len(t) = Len(s)
    BY <1>2, KeptSplit
  <1> HIDE DEF t, s
  <1>4. Len(s) \in Nat
    BY PlainParts DEF s
  <1>5. at + 1 \in 1 .. Len(t)
    BY <1>3, <1>4 DEF s
  <1> QED BY <1>1, <1>3, <1>5 DEF s

LEMMA ConsumeChildHolds == ASSUME GInv, at \in Nat, ConsumeChild PROVE GInv'
  <1> DEFINE q      == Children(cur.pending)[at + 1]
             reward == jobs[cur.pending].result[q]
             d      == ConsumeInto(cur, q, reward)
             key    == <<q[1], cur.active.stage, q[2]>>
             known  == /\ cur.active.stage = cur.pending[1]
                       /\ \E i \in DOMAIN cur.active.evals : cur.active.evals[i].cand = q[1]
  <1>1. Live(cur) /\ cur.pending \in DOMAIN jobs /\ IsRollout(cur.pending) /\ cur.pending # NoJob
    BY OnItsWay DEF ConsumeChild, Consuming
  <1>2. /\ frames' = IF reward = Failed \/ ~known THEN frames ELSE Put(frames, key, reward)
        /\ IF ~known \/ BreakerTrips(d.samples) THEN cur' = cur ELSE cur' = d
        /\ jobs' = jobs
    BY DEF ConsumeChild, ConsumeChildFrom
  <1>3. cur' = cur \/ (known /\ cur' = d)
    BY <1>2
  <1>8. reward \in Int
    <2>1. Plain(cur.pending[2]) /\ at < Len(cur.pending[2])
      BY <1>1, NotTheProposer DEF ConsumeChild
    <2>2. q \in Range(cur.pending[2])
      BY <2>1, ChildIsAsked
    <2>3. jobs[cur.pending].result \in [Range(cur.pending[2]) -> Int]
      BY <1>1 DEF ConsumeChild, Consuming, GInv, JobOK
    <2> HIDE DEF q
    <2> QED BY <2>2, <2>3
  <1>4. FramesGrow(frames, frames')
    <2>1. known => FramesGrow(frames, Put(frames, key, reward))
      <3> HIDE DEF reward, q
      <3> QED BY <1>1, <1>8, FrameAdded
    <2>2. FramesGrow(frames, frames)
      BY DEF GInv, FramesGrow
    <2> HIDE DEF key, known, reward
    <2> QED BY <1>2, <2>1, <2>2
  <1>5. known /\ reward # Failed => key \in DOMAIN frames'
    <2>1. DOMAIN Put(frames, key, reward) = DOMAIN frames \cup {key}
      BY DEF Put
    <2> HIDE DEF key, known, reward
    <2> QED BY <1>2, <2>1
  <1>6. CASE cur' = cur
    BY <1>4, <1>6, CursorStays, <1>2 DEF GInv, JobOK, FramesGrow
  <1>7. CASE known /\ cur' = d
    <2>1. cur.active.stage \in RolloutStages
      BY <1>1, <1>7 DEF Live, Untrained, PendingOK, IsRollout
    <2>2. Live(cur)' /\ cur'.pending = cur.pending
      <3> HIDE DEF q, reward
      <3> QED BY <1>1, <1>4, <1>5, <1>7, <2>1, ConsumedCursor
    <2> QED BY <1>1, <1>2, <1>4, <2>2 DEF GInv, JobOK, CursorOK, FramesGrow
  <1> HIDE DEF known, d
  <1> QED BY <1>3, <1>6, <1>7

\* A cursor whose job is done with.
LEMMA JobDropped ==
    ASSUME NEW c, Live(c), c.active.stage # "proposer", NEW d, d = [c EXCEPT !.pending = NoJob]
    PROVE  Live(d) /\ d.pending = NoJob
  BY SameBody, NoPending DEF Live, Untrained, Body, CursorFields

\* A cursor that is right with the frames there are is right after the step.
LEMMA CursorPrimed ==
    ASSUME CursorOK(cur'), frames' = frames PROVE CursorOK(cur)'
  BY DEF CursorOK, EndOK, Live, Untrained, Body, CandOK, ActiveOK, EvalOK, HasFrames

LEMMA FinishConsumeHolds == ASSUME GInv, FinishConsume PROVE GInv'
  BY OnItsWay, JobDropped, NotTheProposer, CursorPrimed DEF FinishConsume, Consuming, CursorOK,
     GInv, JobOK

\* Rows that fail leave the cursor where it was.
LEMMA FailRowHolds ==
    ASSUME NEW c, Live(c), c.active.stage # "none", NEW q
    PROVE  Live(FailRow(c, q)) /\ FailRow(c, q).active.stage = c.active.stage
  <1> DEFINE d == ConsumeInto(c, q, Failed)
  <1>1. FailRow(c, q) = d
    BY DEF FailRow
  <1>2. Body(c)
    BY DEF Live, Untrained
  <1>3. /\ DOMAIN d = CursorFields
        /\ d.gen = c.gen /\ d.queue = c.queue /\ d.pidx = c.pidx
        /\ d.hidx = c.hidx /\ d.reg = c.reg /\ d.cand = c.cand
        /\ d.best = c.best /\ d.selected = c.selected /\ d.heldoutBest = c.heldoutBest
        /\ d.pending = c.pending
        /\ d.run = c.run /\ d.phase = c.phase
        /\ DOMAIN d.active = {"stage", "gen", "evals"} /\ d.active.stage = c.active.stage
        /\ Plain(d.active.evals) /\ Len(d.active.evals) = Len(c.active.evals)
        /\ DOMAIN d.active.evals = DOMAIN c.active.evals
        /\ \A i \in DOMAIN c.active.evals :
             d.active.evals[i] = IF c.active.evals[i].cand = q[1]
                                 THEN Consumed(c.active.evals[i], q[2], Failed)
                                 ELSE c.active.evals[i]
    BY <1>2, ConsumeIntoParts
  <1> HIDE DEF d
  <1>4. ASSUME NEW i \in DOMAIN c.active.evals
        PROVE  EvalOK(c.cand, c.active.stage, d.active.evals[i])
               /\ d.active.evals[i].cand = c.active.evals[i].cand
    <2> DEFINE e == c.active.evals[i]
               f == Consumed(e, q[2], Failed)
    <2>1. EvalOK(c.cand, c.active.stage, e)
      BY <1>2 DEF Body, ActiveOK
    <2>2. /\ DOMAIN f = EvalFields
          /\ f.cand = e.cand /\ f.rows = e.rows /\ f.offset = e.offset
          /\ f.scored = e.scored
      <3>1. DOMAIN e = EvalFields
        BY <2>1 DEF EvalOK
      <3> HIDE DEF e
      <3> QED BY <3>1, ConsumedParts
    <2>3. d.active.evals[i] \in {e, f}
      BY <1>3
    <2>6. e.cand = c.active.evals[i].cand
      OBVIOUS
    <2> HIDE DEF e, f
    <2>4. EvalOK(c.cand, c.active.stage, f)
      BY <2>1, <2>2 DEF EvalOK
    <2>5. f.cand = e.cand
      BY <2>2
    <2> QED BY <2>1, <2>3, <2>4, <2>5, <2>6
  <1>5. ActiveOK(d.cand, d.best, d.active)
    BY <1>2, PlainParts, <1>3, <1>4 DEF Body, ActiveOK, Plain
  <1>6. Body(d)
    BY <1>2, <1>3, <1>5 DEF Body
  <1>7. Live(d)
    <2>1. Untrained(d.cand, d.active)
      BY <1>3, <1>4 DEF Live, Untrained
    <2> QED BY <1>3, <1>6, <2>1 DEF Live
  <1> QED BY <1>1, <1>3, <1>7

LEMMA DegradedHolds ==
    ASSUME NEW c, Live(c), c.active.stage \notin {"none", "proposer"}, NEW s, Plain(s)
    PROVE  Live(DegradedRows(c, s)) /\ DegradedRows(c, s).active.stage # "proposer"
  <1>1. Len(s) \in Nat
    BY PlainParts
  <1>2. DegradedRows(c, s) = FailRowsResult(c, s)
    BY DEF DegradedRows, Fold, FailRowsResult, IsFailRows
  <1>3. PICK f : /\ f[0] = c /\ FailRowsResult(c, s) = f[Len(s)]
                 /\ \A n \in 1 .. Len(s) : f[n] = FailRow(f[n - 1], s[n])
    BY ONLY <1>1, FailRowsTurns
  <1> DEFINE G == {n \in Nat : Live(f[n]) /\ f[n].active.stage = c.active.stage}
  <1>4. 0 \in G
    BY <1>3
  <1>5. \A n \in 1 .. Len(s) : n - 1 \in G => n \in G
    BY <1>3, FailRowHolds
  <1> HIDE DEF G
  <1>6. \A n \in 0 .. Len(s) : n \in G
    BY <1>1, <1>4, <1>5, UpTo
  <1>7. Live(f[Len(s)]) /\ f[Len(s)].active.stage = c.active.stage
    BY <1>1, <1>6 DEF G
  <1> QED BY <1>2, <1>3, <1>7

LEMMA DegradeJobHolds == ASSUME GInv, DegradeJob PROVE GInv'
  <1> DEFINE k == cur.pending
             j == [status |-> "failed", result |-> << >>]
             d == Degraded(cur, k)
             m == [d EXCEPT !.pending = NoJob]
  <1>1. Live(cur) /\ k \in DOMAIN jobs /\ IsRollout(k) /\ k # NoJob
    BY OnItsWay DEF DegradeJob, Pending
  <1>2. /\ jobs' = [jobs EXCEPT ![k] = j] /\ frames' = frames
        /\ cur' = cur \/ cur' = m
    BY DEF DegradeJob
  <1>3. JobOK(k, j)
    BY DEF JobOK
  <1> HIDE DEF j
  <1>4. DOMAIN jobs' = DOMAIN jobs /\ \A i \in DOMAIN jobs' : JobOK(i, jobs'[i])
    BY <1>1, <1>2, <1>3, JobsSettle
  <1>5. CASE cur' = cur
    BY <1>2, <1>5, CursorRests, <1>4 DEF GInv, JobOK
  <1>6. CASE cur' = m
    <2>1. cur.active.stage \notin {"none", "proposer"} /\ Plain(k[2])
      BY <1>1, NotTheProposer DEF Live, Untrained, PendingOK, IsRollout, RolloutStages, Stage
    <2>2. Live(d) /\ d.active.stage # "proposer"
      BY <1>1, <2>1, DegradedHolds DEF Degraded
    <2> HIDE DEF d
    <2>3. Live(m) /\ m.pending = NoJob
      BY <2>2, JobDropped
    <2> HIDE DEF m
    <2>4. CursorOK(cur') /\ cur'.pending = NoJob
      BY <1>6, <2>3 DEF CursorOK
    <2>5. CursorOK(cur)'
      BY <1>2, <2>4, CursorPrimed
    <2>6. Numbers(frames)'
      BY <1>2 DEF GInv, Numbers
    <2> QED BY <1>4, <2>4, <2>5, <2>6 DEF GInv, JobOK
  <1> QED BY <1>2, <1>5, <1>6

-----------------------------------------------------------------------------
(* The theorems *)

LEMMA InitGInv == Init => GInv
  <1> SUFFICES ASSUME Init PROVE GInv
    OBVIOUS
  <1>1. cur = NewCursor /\ cur.pending = NoJob
    BY DEF Init, NewCursor
  <1>2. DOMAIN jobs = {}
    BY DEF Init
  <1>3. Numbers(frames)
    BY DEF Init, Numbers
  <1> QED BY <1>1, <1>2, <1>3 DEF GInv, CursorOK

\* A step that leaves the cursor, the jobs and the frames alone.
LEMMA IdleHolds ==
    ASSUME GInv, UNCHANGED <<cur, jobs, frames>>
    PROVE  GInv'
  BY CursorRests DEF GInv, JobOK

\* The child a tick is at, a number in every state.
LEMMA AtHolds == at \in Nat /\ [Next]_vars => (at \in Nat)'
  <1> SUFFICES ASSUME at \in Nat, [Next]_vars PROVE at' \in Nat
    OBVIOUS
  <1>1. ASSUME NEW ws, Tick(ws) PROVE at' = at
    BY <1>1 DEF Tick
  <1>2. CASE AdvanceInitializing \/ AdvanceSeedFullTrain \/ AdvanceGenerationStart
             \/ AdvanceProposerWaiting \/ AdvanceCandidateMinibatch
             \/ AdvanceCandidateFullTrain \/ AdvanceHeldout \/ AdvanceFinalizing
    BY <1>1, <1>2 DEF AdvanceInitializing, AdvanceSeedFullTrain, AdvanceGenerationStart,
       AdvanceProposerWaiting, AdvanceCandidateMinibatch, AdvanceCandidateFullTrain,
       AdvanceHeldout, AdvanceFinalizing
  <1>3. CASE ExecuteProposer \/ ConsumeProposals \/ Abort
    BY <1>1, <1>3 DEF ExecuteProposer, ConsumeProposals, Abort
  <1>4. CASE ExecuteRollouts \/ DegradeJob \/ JobFails
    BY <1>4 DEF ExecuteRollouts, DegradeJob, JobFails
  <1>5. CASE ConsumeChild
    <2>1. at' = at \/ at' = at + 1
      BY <1>5 DEF ConsumeChild, ConsumeChildFrom
    <2> QED BY <2>1
  <1>6. CASE FinishConsume \/ DieConsuming
    BY <1>6 DEF FinishConsume, DieConsuming
  <1>7. CASE Rest \/ UNCHANGED vars
    BY <1>7 DEF Rest, vars
  <1> QED BY <1>2, <1>3, <1>4, <1>5, <1>6, <1>7 DEF Next, Advance

LEMMA StepHolds == GInv /\ at \in Nat /\ [Next]_vars => GInv'
  <1> SUFFICES ASSUME GInv, at \in Nat, [Next]_vars PROVE GInv'
    OBVIOUS
  <1>1. CASE AdvanceInitializing \/ AdvanceSeedFullTrain \/ AdvanceGenerationStart
             \/ AdvanceProposerWaiting \/ AdvanceCandidateMinibatch
             \/ AdvanceCandidateFullTrain \/ AdvanceHeldout \/ AdvanceFinalizing
    BY <1>1, PhasesHold
  <1>2. CASE ExecuteRollouts
    BY <1>2, ExecuteRolloutsHolds
  <1>3. CASE ExecuteProposer
    BY <1>3, ExecuteProposerHolds
  <1>4. CASE ConsumeProposals
    BY <1>4, ConsumeProposalsHolds
  <1>5. CASE ConsumeChild
    BY <1>5, ConsumeChildHolds
  <1>6. CASE FinishConsume
    BY <1>6, FinishConsumeHolds
  <1>7. CASE DegradeJob
    BY <1>7, DegradeJobHolds
  <1>8. CASE JobFails
    BY <1>8, JobFailsHolds
  <1>9. CASE Abort
    BY <1>9, AbortHolds
  <1>10. CASE DieConsuming
    BY <1>10, IdleHolds DEF DieConsuming
  <1>11. CASE Rest
    BY <1>11, IdleHolds DEF Rest, vars
  <1>12. CASE UNCHANGED vars
    BY <1>12, IdleHolds DEF vars
  <1> QED
    BY <1>1, <1>2, <1>3, <1>4, <1>5, <1>6, <1>7, <1>8, <1>9, <1>10, <1>11, <1>12
       DEF Next, Advance

\* At every moment, also after a crash in the middle of a tick, the durable
\* cursor, the jobs and the sensor frames are as GInv says.
THEOREM RunIsSound == Spec => []GInv
  <1>1. Init => at \in Nat
    BY DEF Init
  <1> QED BY <1>1, InitGInv, AtHolds, StepHolds, PTL DEF Spec

LEMMA GInvMachine == GInv => MachineFollowsPhase
  <1> SUFFICES ASSUME GInv PROVE MachineFollowsPhase
    OBVIOUS
  <1>1. CASE cur = NewCursor
    BY <1>1 DEF NewCursor, MachineFollowsPhase, Terminal
  <1>2. CASE EndOK(cur)
    BY <1>2 DEF MachineFollowsPhase, EndOK, Terminal
  <1>3. CASE Live(cur)
    BY <1>3 DEF MachineFollowsPhase, Live, Untrained, Stands, Terminal, Going
  <1> QED BY <1>1, <1>2, <1>3 DEF GInv, CursorOK

LEMMA GInvCompleted == GInv => CompletedHasHeldout
  <1> SUFFICES ASSUME GInv, cur.phase = "Completed"
               PROVE  cur.deployment = cur.best /\ HasFrames(cur.best, "heldout", HeldoutRows)
    BY DEF CompletedHasHeldout
  <1>1. cur # NewCursor
    BY DEF NewCursor
  <1>2. ~Live(cur)
    BY DEF Live, Untrained, Stands
  <1> QED BY <1>1, <1>2 DEF GInv, CursorOK, EndOK

LEMMA ProductGrows == ASSUME NEW a \in Int, NEW b \in Int, NEW m \in Nat, a >= b
                      PROVE  a * m >= b * m
  <1>1. (a - b) * m >= 0
    OBVIOUS
  <1>2. (a - b) * m = a * m - b * m
    OBVIOUS
  <1> QED BY <1>1, <1>2

\* A sum over the rows a candidate has scored is a number.
LEMMA TrainSumIsInteger == ASSUME Numbers(frames), NEW x PROVE TrainSum(x) \in Int
  <1>1. IsFiniteSet(TrainScored(x))
    BY RowsFinite, FS_Subset DEF TrainScored
  <1>2. \A r \in TrainScored(x) : frames[<<x, TrainStage(x), r>>] \in Int
    BY DEF TrainScored, Numbers
  <1>3. SumUp(frames, x, TrainStage(x), TrainScored(x)) \in Int
    BY <1>1, <1>2, SumParts
  <1> QED BY <1>3 DEF TrainSum, SumOver, SumUp

\* Candidates with all their rows are compared by their totals.
LEMMA FullTrainRows ==
    ASSUME NEW x, FullIn(frames, x)
    PROVE  TrainScored(x) = Range(TrainRows) /\ TrainSum(x) = TotalIn(frames, x)
  <1>1. TrainScored(x) = Range(TrainRows)
    BY DEF FullIn, TrainScored, TrainKey
  <1> QED BY <1>1 DEF TrainSum, TotalIn, SumOver, SumUp

LEMMA GInvLeads == GInv => BestLeadsOnTrain
  <1> SUFFICES ASSUME GInv, ~Ended, cur.best # None,
                      NEW x \in Registered(cur), Selectable(cur, x)
               PROVE  TrainAtLeast(cur.best, x)
    BY DEF BestLeadsOnTrain
  <1> DEFINE b == cur.best
             m == Max({Cardinality(TrainScored(x)), 1})
  <1>1. cur # NewCursor
    BY DEF NewCursor
  <1>2. Body(cur) /\ Numbers(frames)
    BY <1>1 DEF GInv, CursorOK, EndOK, Ended, Live
  <1>3. x \in DOMAIN cur.cand /\ SelectableIn(frames, cur.cand[x], x)
    BY <1>2, RegisteredParts DEF Selectable, SelectableIn, TrainScored, TrainKey, Leading
  <1>4. x = b \/ (FullIn(frames, x) /\ FullIn(frames, b) /\ TotalIn(frames, b) >= TotalIn(frames, x))
    BY <1>2, <1>3 DEF Body, Lead
  <1>5. Cardinality(TrainScored(x)) \in Nat
    BY RowsFinite, FS_Subset, FS_CardinalityType DEF TrainScored
  <1>6. m \in Nat
    BY <1>5, MaxOfTwo
  <1>7. TrainSum(b) \in Int /\ TrainSum(x) \in Int
    BY <1>2, TrainSumIsInteger
  <1>8. TrainSum(b) >= TrainSum(x) /\ TrainScored(b) = TrainScored(x)
    <2>1. CASE x = b
      BY <1>7, <2>1
    <2>2. CASE x # b
      BY <1>4, <2>2, FullTrainRows
    <2> QED BY <2>1, <2>2
  <1>9. Max({Cardinality(TrainScored(b)), 1}) = m
    BY <1>8
  <1> HIDE DEF b, m
  <1>10. TrainSum(b) * m >= TrainSum(x) * m
    BY <1>6, <1>7, <1>8, ProductGrows
  <1> QED BY <1>9, <1>10 DEF TrainAtLeast, b, m

\* The phase of the durable cursor and the run machine restored with it agree,
\* whatever write of a tick the process died before.
THEOREM MachineAlwaysFollows == Spec => []MachineFollowsPhase
  <1> QED BY RunIsSound, GInvMachine, PTL

\* A completed run deployed its best candidate, and every heldout row of that
\* candidate was paid for and has its sensor frame.
THEOREM CompletedRunHasHeldout == Spec => []CompletedHasHeldout
  <1> QED BY RunIsSound, GInvCompleted, PTL

\* While a run is on its way its best candidate has been compared with every
\* candidate that may be selected: none of them did better on the train rows.
THEOREM BestAlwaysLeads == Spec => []BestLeadsOnTrain
  <1> QED BY RunIsSound, GInvLeads, PTL
=============================================================================
