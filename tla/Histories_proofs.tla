--------------------------- MODULE Histories_proofs ---------------------------
(***************************************************************************)
(* Proofs about the histories, for any bounds and answers of any length:   *)
(* the routes that M7 and Softruck draw keep the track of the vehicle; the *)
(* alarms of Softruck are told once, none lost; the timeline of Logica     *)
(* carries the ignition told last; the views of a period tell the same     *)
(* trips; the trips of Logica and of M7 are the drives, none lost, and the *)
(* map of Logica draws them whole.  And about ReverseGeocode, for any      *)
(* requests, coordinates, cities and lots: every point of a report has an  *)
(* address of its own coordinate.                                          *)
(*                                                                         *)
(* What the histories make of an answer is made item by item; the lemmas   *)
(* say what holds after every item (SeqParts_proofs has those about        *)
(* filters, sorts and sums), and the invariant of the steps says of which  *)
(* items the answer consists.  What a report tells comes from a lookup     *)
(* that other requests may have made, from the cache or from a call under  *)
(* way.  The invariant says of the cache that it holds coordinates only    *)
(* where there is no address, and of every lookup for which point it is    *)
(* and what it may have been given.                                        *)
(***************************************************************************)
EXTENDS MCHistories, SeqParts_proofs

-----------------------------------------------------------------------------
(* The route of M7.                                                        *)

PontosM7 == [ts : Int, ignicao : BOOLEAN, velocidade : Int, pos : Int, odometro : Int]

\* sanitizarPontosGps drops p, where ks are kept.
Perto(ks, p) ==
  /\ ks # <<>>
  /\ p.pos - ks[Len(ks)].pos \in -1..1 /\ p.ts - ks[Len(ks)].ts < 5

\* The points kept of the first n, for every n.
RotaRun(f, ps) ==
  /\ M7!Rota(ps) = f[Len(ps)]
  /\ \A n \in 0..Len(ps) : f[n] \in Seq(PontosM7)
  /\ f[0] = <<>>
  /\ \A n \in 1..Len(ps) :
       f[n] = IF Perto(f[n - 1], ps[n]) THEN f[n - 1] ELSE Append(f[n - 1], ps[n])

\* The route of M7 is its run over the points.
LEMMA RotaSteps ==
  ASSUME NEW ps \in Seq(PontosM7)
  PROVE  \E f : RotaRun(f, ps)
<1> DEFINE S == Seq(PontosM7)
           step == [n \in 1..Len(ps) |-> [t \in S |->
                      IF Perto(t, ps[n]) THEN t ELSE Append(t, ps[n])]]
           Body(f) == [n \in 0..Len(ps) |-> IF n = 0 THEN <<>>
                         ELSE IF Perto(f[n - 1], ps[n]) THEN f[n - 1] ELSE Append(f[n - 1], ps[n])]
           kept == CHOOSE f : f = Body(f)
<1>1. Len(ps) \in Nat /\ <<>> \in S /\ step \in Steps(Len(ps), S)
  BY DEF Steps
<1>2. PICK f : Runs(f, Len(ps), <<>>, step)
  <2> HIDE DEF S, step
  <2> QED
    BY <1>1, Recursion
<1>3. \A n \in 0..Len(ps) : f[n] \in S
  <2> HIDE DEF S, step
  <2> QED
    BY <1>1, <1>2, RunsIn
<1>4. /\ f[0] = <<>> /\ \A n \in 1..Len(ps) : f[n] = step[n][f[n - 1]]
      /\ f = [n \in 0..Len(ps) |-> f[n]]
  <2> HIDE DEF S, step
  <2> QED
    BY <1>1, <1>2 DEF Runs
<1>5. ASSUME NEW n \in 1..Len(ps)
      PROVE  f[n] = IF Perto(f[n - 1], ps[n]) THEN f[n - 1] ELSE Append(f[n - 1], ps[n])
  <2>1. f[n - 1] \in S
    BY <1>3
  <2> HIDE DEF S
  <2> QED
    BY <1>4, <2>1
<1>6. f = Body(f)
  BY <1>4, <1>5
<1>7. kept = Body(kept)
  <2> HIDE DEF Body
  <2> QED
    BY <1>6
<1>8. M7!Rota(ps) = kept[Len(ps)]
  BY DEF M7!Rota, M7!Last, Perto
<1>9. PICK g : g = kept
  OBVIOUS
<1> HIDE DEF kept
<1>10. g = Body(g)
  BY <1>7, <1>9
<1>11. g[0] = <<>>
  <2>1. 0 \in 0..Len(ps)
    BY <1>1
  <2> QED
    BY <1>10, <2>1
<1>12. ASSUME NEW n \in 1..Len(ps)
       PROVE  g[n] = IF Perto(g[n - 1], ps[n]) THEN g[n - 1] ELSE Append(g[n - 1], ps[n])
  <2>1. n \in 0..Len(ps) /\ n # 0
    BY <1>1
  <2> QED
    BY <1>10, <2>1
<1> DEFINE T == {n \in 0..Len(ps) : g[n] \in S}
<1>13. ASSUME NEW n \in 1..Len(ps), n - 1 \in T PROVE n \in T
  <2>1. g[n - 1] \in S /\ ps[n] \in PontosM7 /\ n \in 0..Len(ps)
    BY <1>13
  <2>2. Append(g[n - 1], ps[n]) \in S
    BY <2>1
  <2>3. g[n] \in S
    BY <1>12, <2>1, <2>2
  <2> QED
    BY <2>1, <2>3
<1>14. 0 \in T
  <2>1. 0 \in 0..Len(ps) /\ g[0] \in S
    BY <1>1, <1>11
  <2> QED
    BY <2>1
<1>15. 0..Len(ps) \subseteq T
  <2> HIDE DEF T
  <2> QED
    BY <1>1, <1>13, <1>14, UpTo
<1> QED
  BY <1>8, <1>9, <1>11, <1>12, <1>15 DEF RotaRun

\* The route drawn of points in order keeps their track.
LEMMA RotaKeeps ==
  ASSUME NEW ps \in Seq(PontosM7),
         \A i, j \in 1..Len(ps) : i < j => ps[i].ts <= ps[j].ts
  PROVE  /\ M7!Rota(ps) \in Seq(PontosM7)
         /\ \A i \in 1..Len(ps) : \E k \in 1..Len(M7!Rota(ps)) :
              /\ ps[i].pos - M7!Rota(ps)[k].pos \in -1..1
              /\ ps[i].ts - M7!Rota(ps)[k].ts \in 0..4
<1>1. PICK f : RotaRun(f, ps)
  BY RotaSteps
<1> DEFINE From(n) == \A k \in 1..Len(f[n]) : \E i \in 1..n : f[n][k] = ps[i]
           By(p, q) == p.pos - q.pos \in -1..1 /\ p.ts - q.ts \in 0..4
           All(n) == \A i \in 1..n : \E k \in 1..Len(f[n]) : By(ps[i], f[n][k])
           S == {n \in 0..Len(ps) : From(n) /\ All(n)}
<1>2. 0 \in S
  BY <1>1 DEF RotaRun
<1>3. ASSUME NEW n \in 1..Len(ps), n - 1 \in S PROVE n \in S
  <2>0. PICK a, b, p : a = f[n - 1] /\ b = f[n] /\ p = ps[n]
    OBVIOUS
  <2>1. /\ a \in Seq(PontosM7) /\ p \in PontosM7 /\ n \in 0..Len(ps)
        /\ \A k \in 1..Len(a) : \E i \in 1..n - 1 : a[k] = ps[i]
        /\ \A i \in 1..n - 1 : \E k \in 1..Len(a) : By(ps[i], a[k])
        /\ b = IF Perto(a, p) THEN a ELSE Append(a, p)
    BY <1>1, <1>3, <2>0 DEF RotaRun
  <2>2. CASE Perto(a, p)
    <3>1. b = a
      BY <2>1, <2>2
    <3>2. Len(a) \in 1..Len(a)
      BY <2>1, <2>2 DEF Perto
    <3>3. PICK j \in 1..n - 1 : a[Len(a)] = ps[j]
      BY <2>1, <3>2
    <3>4. ps[j].ts <= p.ts /\ ps[j].ts \in Int /\ p.ts \in Int
      <4>1. j \in 1..Len(ps) /\ j < n /\ ps[j] \in PontosM7
        OBVIOUS
      <4> QED
        BY <2>0, <2>1, <4>1 DEF PontosM7
    <3>5. By(p, a[Len(a)])
      <4>1. PICK q : q = a[Len(a)]
        OBVIOUS
      <4>2. p.pos - q.pos \in -1..1 /\ p.ts - q.ts < 5
        BY <2>2, <4>1 DEF Perto
      <4>3. q.ts <= p.ts /\ q.ts \in Int /\ p.ts \in Int
        BY <3>3, <3>4, <4>1
      <4>4. By(p, q)
        BY ONLY <4>2, <4>3
      <4> QED
        BY <4>1, <4>4
    <3>6. ASSUME NEW i \in 1..n PROVE \E k \in 1..Len(a) : By(ps[i], a[k])
      <4>1. CASE i = n
        BY <2>0, <3>2, <3>5, <4>1
      <4>2. CASE i # n
        <5>1. i \in 1..n - 1
          BY <4>2
        <5> QED
          BY <2>1, <5>1
      <4> QED
        BY <4>1, <4>2
    <3>7. \A k \in 1..Len(a) : \E i \in 1..n : a[k] = ps[i]
      BY <2>1
    <3> HIDE DEF By
    <3>a. f[n] = a
      BY <2>0, <3>1
    <3>8. From(n)
      BY <3>7, <3>a
    <3>9. All(n)
      BY <3>6, <3>a
    <3> HIDE DEF From, All
    <3> QED
      BY <2>1, <3>8, <3>9
  <2>3. CASE ~Perto(a, p)
    <3>1. /\ b = Append(a, p) /\ Len(b) = Len(a) + 1 /\ b[Len(a) + 1] = p
          /\ Len(a) \in Nat /\ \A k \in 1..Len(a) : b[k] = a[k]
      BY <2>1, <2>3
    <3>2. ASSUME NEW k \in 1..Len(b) PROVE \E i \in 1..n : b[k] = ps[i]
      <4>1. CASE k \in 1..Len(a)
        BY <2>1, <3>1, <4>1
      <4>2. CASE k = Len(a) + 1
        BY <2>0, <3>1, <4>2
      <4> QED
        BY <3>1, <4>1, <4>2
    <3>3. By(p, p)
      <4>1. p.pos \in Int /\ p.ts \in Int
        BY <2>1 DEF PontosM7
      <4> QED
        BY ONLY <4>1
    <3>4. ASSUME NEW i \in 1..n PROVE \E k \in 1..Len(b) : By(ps[i], b[k])
      <4> HIDE DEF By
      <4>1. CASE i = n
        <5>1. Len(a) + 1 \in 1..Len(b)
          BY <3>1
        <5> QED
          BY <2>0, <3>1, <3>3, <4>1, <5>1
      <4>2. CASE i # n
        <5>1. i \in 1..n - 1
          BY <4>2
        <5>2. PICK k \in 1..Len(a) : By(ps[i], a[k])
          BY <2>1, <5>1
        <5>3. k \in 1..Len(b) /\ b[k] = a[k]
          BY <3>1
        <5> QED
          BY <5>2, <5>3
      <4> QED
        BY <4>1, <4>2
    <3> HIDE DEF By
    <3>5. From(n)
      BY <2>0, <3>2
    <3>6. All(n)
      BY <2>0, <3>4
    <3> HIDE DEF From, All
    <3> QED
      BY <2>1, <3>5, <3>6
  <2> QED
    BY <2>2, <2>3
<1>4. Len(ps) \in Nat /\ Len(ps) \in 0..Len(ps)
  OBVIOUS
<1>5. Len(ps) \in S
  <2> HIDE DEF S
  <2>1. 0..Len(ps) \subseteq S
    BY <1>2, <1>3, <1>4, UpTo
  <2> QED
    BY <1>4, <2>1
<1>6. All(Len(ps)) /\ f[Len(ps)] \in Seq(PontosM7)
  BY <1>1, <1>4, <1>5 DEF RotaRun
<1> QED
  BY <1>1, <1>6 DEF RotaRun

-----------------------------------------------------------------------------
(* Softruck                                                                *)

Pontos == [type : {"DETAILED"}, act : Int, pos : Int]
Textos == {"panic", "sos", "accelerometer", "idle", "vibration", ""}
Alarmes == [type : {"ALARM"}, act : Int, pos : Int, tag : Textos, val : Textos, msg : Textos]

\* filterAndDeduplicateAlarms keeps a, where ks are kept.
Novo(ks, a) ==
  Softruck!Classificado(a) /\ \A k \in {ks[x] : x \in DOMAIN ks} : ~Softruck!Repete(k, a)

\* The alarms kept of the first n, for every n.
AlarmesRun(f, xs) ==
  /\ Softruck!Alarmes(xs) = f[Len(xs)]
  /\ \A n \in 0..Len(xs) : f[n] \in Seq(Alarmes)
  /\ f[0] = <<>>
  /\ \A n \in 1..Len(xs) :
       f[n] = IF Novo(f[n - 1], xs[n]) THEN Append(f[n - 1], xs[n]) ELSE f[n - 1]

\* The alarms told are their run over the alarms.
LEMMA AlarmesSteps ==
  ASSUME NEW xs \in Seq(Alarmes)
  PROVE  \E f : AlarmesRun(f, xs)
<1> DEFINE S == Seq(Alarmes)
           step == [n \in 1..Len(xs) |-> [t \in S |->
                      IF Novo(t, xs[n]) THEN Append(t, xs[n]) ELSE t]]
           Body(f) == [n \in 0..Len(xs) |-> IF n = 0 THEN <<>>
                         ELSE IF Novo(f[n - 1], xs[n]) THEN Append(f[n - 1], xs[n]) ELSE f[n - 1]]
           kept == CHOOSE f : f = Body(f)
<1>1. Len(xs) \in Nat /\ <<>> \in S /\ step \in Steps(Len(xs), S)
  BY DEF Steps
<1>2. PICK f : Runs(f, Len(xs), <<>>, step)
  <2> HIDE DEF S, step
  <2> QED
    BY <1>1, Recursion
<1>3. \A n \in 0..Len(xs) : f[n] \in S
  <2> HIDE DEF S, step
  <2> QED
    BY <1>1, <1>2, RunsIn
<1>4. /\ f[0] = <<>> /\ \A n \in 1..Len(xs) : f[n] = step[n][f[n - 1]]
      /\ f = [n \in 0..Len(xs) |-> f[n]]
  <2> HIDE DEF S, step
  <2> QED
    BY <1>1, <1>2 DEF Runs
<1>5. ASSUME NEW n \in 1..Len(xs)
      PROVE  f[n] = IF Novo(f[n - 1], xs[n]) THEN Append(f[n - 1], xs[n]) ELSE f[n - 1]
  <2>1. f[n - 1] \in S
    BY <1>3
  <2> HIDE DEF S
  <2> QED
    BY <1>4, <2>1
<1>6. f = Body(f)
  <2>1. \A n \in 0..Len(xs) :
          f[n] = IF n = 0 THEN <<>>
                 ELSE IF Novo(f[n - 1], xs[n]) THEN Append(f[n - 1], xs[n]) ELSE f[n - 1]
    BY <1>4, <1>5
  <2> QED
    BY ONLY <1>4, <2>1
<1>7. kept = Body(kept)
  <2> HIDE DEF Body
  <2> QED
    BY <1>6
<1>8. Softruck!Alarmes(xs) = kept[Len(xs)]
  BY DEF Softruck!Alarmes, Softruck!Range, Novo
<1>9. PICK g : g = kept
  OBVIOUS
<1> HIDE DEF kept
<1>10. g = Body(g)
  BY <1>7, <1>9
<1>11. g[0] = <<>>
  <2>1. 0 \in 0..Len(xs)
    BY <1>1
  <2> QED
    BY <1>10, <2>1
<1>12. ASSUME NEW n \in 1..Len(xs)
       PROVE  g[n] = IF Novo(g[n - 1], xs[n]) THEN Append(g[n - 1], xs[n]) ELSE g[n - 1]
  <2>1. n \in 0..Len(xs) /\ n # 0
    BY <1>1
  <2> QED
    BY <1>10, <2>1
<1> DEFINE T == {n \in 0..Len(xs) : g[n] \in S}
<1>13. ASSUME NEW n \in 1..Len(xs), n - 1 \in T PROVE n \in T
  <2>1. g[n - 1] \in S /\ xs[n] \in Alarmes /\ n \in 0..Len(xs)
    BY <1>13
  <2>2. Append(g[n - 1], xs[n]) \in S
    BY <2>1
  <2>3. g[n] \in S
    BY <1>12, <2>1, <2>2
  <2> QED
    BY <2>1, <2>3
<1>14. 0 \in T
  <2>1. 0 \in 0..Len(xs) /\ g[0] \in S
    BY <1>1, <1>11
  <2> QED
    BY <2>1
<1>15. 0..Len(xs) \subseteq T
  <2> HIDE DEF T
  <2> QED
    BY <1>1, <1>13, <1>14, UpTo
<1> QED
  BY <1>8, <1>9, <1>11, <1>12, <1>15 DEF AlarmesRun

\* An alarm repeats itself, and those that repeat it.
LEMMA RepeteIs ==
  ASSUME NEW a \in Alarmes, NEW b \in Alarmes
  PROVE  /\ Softruck!Repete(a, b) <=> Softruck!Repete(b, a)
         /\ Softruck!Repete(a, a)
  BY DEF Softruck!Repete, Softruck!Abs, Alarmes

\* Of alarms, those told do not repeat each other, and one of a known type is told or
\* repeats one that is.
LEMMA AlarmesKeep ==
  ASSUME NEW xs \in Seq(Alarmes)
  PROVE  LET ts == Softruck!Alarmes(xs) IN
         /\ ts \in Seq(Alarmes)
         /\ \A k \in 1..Len(ts) : Softruck!Classificado(ts[k])
         /\ \A k, l \in 1..Len(ts) : k # l => ~Softruck!Repete(ts[k], ts[l])
         /\ \A i \in 1..Len(xs) :
              Softruck!Classificado(xs[i]) =>
                \E k \in 1..Len(ts) : Softruck!Repete(ts[k], xs[i])
<1>1. PICK f : AlarmesRun(f, xs)
  BY AlarmesSteps
<1> DEFINE Known(n) == \A k \in 1..Len(f[n]) : Softruck!Classificado(f[n][k])
           Once(n) == \A k, l \in 1..Len(f[n]) : k # l => ~Softruck!Repete(f[n][k], f[n][l])
           All(n) == \A i \in 1..n :
                       Softruck!Classificado(xs[i]) =>
                         \E k \in 1..Len(f[n]) : Softruck!Repete(f[n][k], xs[i])
           S == {n \in 0..Len(xs) : Known(n) /\ Once(n) /\ All(n)}
<1>2. 0 \in S
  BY <1>1 DEF AlarmesRun
<1>3. ASSUME NEW n \in 1..Len(xs), n - 1 \in S PROVE n \in S
  <2>0. PICK a, b, p : a = f[n - 1] /\ b = f[n] /\ p = xs[n]
    OBVIOUS
  <2>1. /\ a \in Seq(Alarmes) /\ p \in Alarmes /\ n \in 0..Len(xs)
        /\ \A k \in 1..Len(a) : Softruck!Classificado(a[k])
        /\ \A k, l \in 1..Len(a) : k # l => ~Softruck!Repete(a[k], a[l])
        /\ \A i \in 1..n - 1 :
             Softruck!Classificado(xs[i]) =>
               \E k \in 1..Len(a) : Softruck!Repete(a[k], xs[i])
        /\ b = IF Novo(a, p) THEN Append(a, p) ELSE a
    BY <1>1, <1>3, <2>0 DEF AlarmesRun
  <2>2. CASE ~Novo(a, p)
    <3>1. b = a
      BY <2>1, <2>2
    <3>2. ASSUME NEW i \in 1..n, Softruck!Classificado(xs[i])
          PROVE  \E k \in 1..Len(a) : Softruck!Repete(a[k], xs[i])
      <4>1. CASE i = n
        BY <2>0, <2>1, <2>2, <3>2, <4>1 DEF Novo
      <4>2. CASE i # n
        <5>1. i \in 1..n - 1
          BY <4>2
        <5> QED
          BY <2>1, <3>2, <5>1
      <4> QED
        BY <4>1, <4>2
    <3>3. Known(n) /\ Once(n)
      BY <2>0, <2>1, <3>1
    <3>4. All(n)
      BY <2>0, <3>1, <3>2
    <3> HIDE DEF Known, Once, All
    <3> QED
      BY <2>1, <3>3, <3>4
  <2>3. CASE Novo(a, p)
    <3>1. /\ b = Append(a, p) /\ Len(b) = Len(a) + 1 /\ b[Len(a) + 1] = p
          /\ Len(a) \in Nat /\ \A k \in 1..Len(a) : b[k] = a[k] /\ a[k] \in Alarmes
          /\ \A k \in 1..Len(b) : k \in 1..Len(a) \/ k = Len(a) + 1
      BY <2>1, <2>3
    <3>2. /\ Softruck!Classificado(p)
          /\ \A k \in 1..Len(a) : ~Softruck!Repete(a[k], p) /\ ~Softruck!Repete(p, a[k])
      <4>1. Softruck!Classificado(p) /\ \A k \in 1..Len(a) : ~Softruck!Repete(a[k], p)
        BY <2>1, <2>3 DEF Novo
      <4> QED
        BY <2>1, <3>1, <4>1, RepeteIs
    <3>3. ASSUME NEW k \in 1..Len(b) PROVE Softruck!Classificado(b[k])
      BY <2>1, <3>1, <3>2
    <3>4. ASSUME NEW k \in 1..Len(b), NEW l \in 1..Len(b), k # l
          PROVE  ~Softruck!Repete(b[k], b[l])
      BY <2>1, <3>1, <3>2, <3>4
    <3>5. ASSUME NEW i \in 1..n, Softruck!Classificado(xs[i])
          PROVE  \E k \in 1..Len(b) : Softruck!Repete(b[k], xs[i])
      <4>1. CASE i = n
        <5>1. Len(a) + 1 \in 1..Len(b) /\ Softruck!Repete(p, p)
          BY <2>1, <3>1, RepeteIs
        <5> QED
          BY <2>0, <3>1, <4>1, <5>1
      <4>2. CASE i # n
        <5>1. i \in 1..n - 1
          BY <4>2
        <5>2. PICK k \in 1..Len(a) : Softruck!Repete(a[k], xs[i])
          BY <2>1, <3>5, <5>1
        <5>3. k \in 1..Len(b) /\ b[k] = a[k]
          BY <3>1
        <5> QED
          BY <5>2, <5>3
      <4> QED
        BY <4>1, <4>2
    <3>6. Known(n)
      BY <2>0, <3>3
    <3>7. Once(n)
      BY <2>0, <3>4
    <3>8. All(n)
      BY <2>0, <3>5
    <3> HIDE DEF Known, Once, All
    <3> QED
      BY <2>1, <3>6, <3>7, <3>8
  <2> QED
    BY <2>2, <2>3
<1>4. Len(xs) \in Nat /\ Len(xs) \in 0..Len(xs)
  OBVIOUS
<1>5. Len(xs) \in S
  <2> HIDE DEF S
  <2>1. 0..Len(xs) \subseteq S
    BY <1>2, <1>3, <1>4, UpTo
  <2> QED
    BY <1>4, <2>1
<1>6. /\ Known(Len(xs)) /\ Once(Len(xs)) /\ All(Len(xs))
      /\ f[Len(xs)] \in Seq(Alarmes) /\ Softruck!Alarmes(xs) = f[Len(xs)]
  BY <1>1, <1>4, <1>5 DEF AlarmesRun
<1>7. PICK ts : ts = f[Len(xs)]
  OBVIOUS
<1> QED
  BY <1>6, <1>7

\* What is kept of some points, and the last course.
Tracos == [kept : Seq(Pontos), rumo : Int]

\* One step of simplifyRoutePoints.
Segue(a, p) ==
  LET q == a.kept[Len(a.kept)]
  IN  IF Softruck!Abs(p.pos - q.pos) < 2 THEN a
      ELSE [kept |-> IF \/ a.rumo # 0 /\ a.rumo # Softruck!Rumo(q, p)
                        \/ Softruck!Abs(p.pos - q.pos) >= 6
                     THEN Append(a.kept, p) ELSE a.kept,
            rumo |-> Softruck!Rumo(q, p)]

Comeco(s) == [kept |-> <<s[1]>>, rumo |-> 0]

\* A point is left out or comes last, and one far from the last kept is not left out.
LEMMA SegueIs ==
  ASSUME NEW a \in Tracos, NEW p \in Pontos
  PROVE  /\ Segue(a, p) \in Tracos
         /\ Segue(a, p).kept \in {a.kept, Append(a.kept, p)}
         /\ a.kept # <<>> /\ Softruck!Abs(p.pos - a.kept[Len(a.kept)].pos) >= 6 =>
              Segue(a, p).kept = Append(a.kept, p)
<1>1. PICK q : q = a.kept[Len(a.kept)]
  OBVIOUS
<1>2. PICK r : r = Softruck!Rumo(q, p)
  OBVIOUS
<1>3. r \in Int
  BY <1>2 DEF Softruck!Rumo
<1>4. /\ a.kept \in Seq(Pontos) /\ Append(a.kept, p) \in Seq(Pontos)
  BY DEF Tracos
<1>5. CASE Softruck!Abs(p.pos - q.pos) < 2
  <2>1. Segue(a, p) = a
    BY <1>1, <1>5 DEF Segue
  <2>2. a.kept # <<>> => Softruck!Abs(p.pos - q.pos) \in Int
    <3> SUFFICES ASSUME a.kept # <<>> PROVE Softruck!Abs(p.pos - q.pos) \in Int
      OBVIOUS
    <3>1. q \in Pontos
      BY <1>1, <1>4
    <3>2. q.pos \in Int /\ p.pos \in Int
      BY <3>1 DEF Pontos
    <3> QED
      BY <3>2 DEF Softruck!Abs
  <2>3. ~(a.kept # <<>> /\ Softruck!Abs(p.pos - q.pos) >= 6)
    BY <1>5, <2>2
  <2> QED
    BY <1>1, <2>1, <2>3
<1>6. CASE ~(Softruck!Abs(p.pos - q.pos) < 2)
  <2>1. PICK k \in {a.kept, Append(a.kept, p)} :
          /\ Segue(a, p) = [kept |-> k, rumo |-> r]
          /\ Softruck!Abs(p.pos - q.pos) >= 6 => k = Append(a.kept, p)
    BY <1>1, <1>2, <1>6 DEF Segue
  <2>2. k \in Seq(Pontos)
    BY <1>4
  <2> QED
    BY <1>1, <1>3, <2>1, <2>2 DEF Tracos
<1> QED
  BY <1>5, <1>6

\* What is kept of the first n points, for every n.
SimplesRun(f, s) ==
  /\ \A n \in 0..Len(s) : f[n] \in Tracos
  /\ f[1].kept = <<s[1]>>
  /\ \A n \in 2..Len(s) : f[n] = Segue(f[n - 1], s[n])

\* The simplified route is its run over the points in order.
LEMMA SimplesSteps ==
  ASSUME NEW ps \in Seq(Pontos), Softruck!PorInstante(ps) \in Seq(Pontos),
         Len(Softruck!PorInstante(ps)) > 2, Len(ps) > 2
  PROVE  LET s == Softruck!PorInstante(ps) IN
         \E f : /\ SimplesRun(f, s)
                /\ Softruck!Simplificada(ps) = Append(f[Len(s) - 1].kept, s[Len(s)])
<1> DEFINE s == Softruck!PorInstante(ps)
           step == [n \in 1..Len(s) |-> [t \in Tracos |->
                      IF n < 2 THEN Comeco(s) ELSE Segue(t, s[n])]]
           Body(f) == [n \in 0..Len(s) |-> IF n < 2 THEN Comeco(s) ELSE Segue(f[n - 1], s[n])]
           upTo == CHOOSE f : f = Body(f)
<1>1. Len(s) \in Nat /\ Comeco(s) \in Tracos
  <2>1. s[1] \in Pontos
    OBVIOUS
  <2>2. <<s[1]>> \in Seq(Pontos)
    BY <2>1
  <2> QED
    BY <2>2 DEF Comeco, Tracos
<1>2. step \in Steps(Len(s), Tracos)
  <2> SUFFICES ASSUME NEW n \in 1..Len(s), NEW t \in Tracos
               PROVE  (IF n < 2 THEN Comeco(s) ELSE Segue(t, s[n])) \in Tracos
    BY DEF Steps
  <2>1. s[n] \in Pontos
    OBVIOUS
  <2>2. Segue(t, s[n]) \in Tracos
    BY <2>1, SegueIs
  <2> QED
    BY <1>1, <2>2
<1>3. PICK f : Runs(f, Len(s), Comeco(s), step)
  <2> HIDE DEF step
  <2> QED
    BY <1>1, <1>2, Recursion
<1>4. \A n \in 0..Len(s) : f[n] \in Tracos
  <2> HIDE DEF step
  <2> QED
    BY <1>1, <1>2, <1>3, RunsIn
<1>5. /\ f[0] = Comeco(s) /\ \A n \in 1..Len(s) : f[n] = step[n][f[n - 1]]
      /\ f = [n \in 0..Len(s) |-> f[n]]
  <2> HIDE DEF step
  <2>1. 0 \in 0..Len(s) /\ \A n \in 1..Len(s) : n \in 0..Len(s) /\ n # 0
    BY <1>1
  <2> QED
    BY <1>3, <2>1 DEF Runs
<1>6. ASSUME NEW n \in 1..Len(s)
      PROVE  f[n] = IF n < 2 THEN Comeco(s) ELSE Segue(f[n - 1], s[n])
  <2>1. n - 1 \in 0..Len(s)
    OBVIOUS
  <2>2. f[n - 1] \in Tracos
    BY <1>4, <2>1
  <2> QED
    BY <1>5, <2>2
<1>7. f = Body(f)
  <2>1. \A n \in 0..Len(s) : f[n] = IF n < 2 THEN Comeco(s) ELSE Segue(f[n - 1], s[n])
    <3> SUFFICES ASSUME NEW n \in 0..Len(s)
                 PROVE  f[n] = IF n < 2 THEN Comeco(s) ELSE Segue(f[n - 1], s[n])
      OBVIOUS
    <3>1. CASE n = 0
      BY <1>5, <3>1
    <3>2. CASE n # 0
      <4>1. n \in 1..Len(s)
        BY <3>2
      <4> QED
        BY <1>6, <4>1
    <3> QED
      BY <3>1, <3>2
  <2> QED
    BY ONLY <1>5, <2>1
<1>8. upTo = Body(upTo)
  <2> HIDE DEF Body
  <2> QED
    BY <1>7
<1>9. Softruck!Simplificada(ps) = Append(upTo[Len(s) - 1].kept, s[Len(s)])
  <2>1. Softruck!Simplificada(ps) =
          IF Len(ps) <= 2 THEN ps ELSE Append(upTo[Len(s) - 1].kept, s[Len(s)])
    BY ONLY Zenon DEF Softruck!Simplificada, Softruck!Last, Segue, Comeco
  <2>2. ~(Len(ps) <= 2)
    OBVIOUS
  <2> HIDE DEF upTo
  <2> QED
    BY <2>1, <2>2
<1>10. PICK g : g = upTo
  OBVIOUS
<1> HIDE DEF upTo
<1>11. g = Body(g)
  BY <1>8, <1>10
<1>12. ASSUME NEW n \in 0..Len(s)
       PROVE  g[n] = IF n < 2 THEN Comeco(s) ELSE Segue(g[n - 1], s[n])
  BY <1>11
<1> DEFINE T == {n \in 0..Len(s) : g[n] \in Tracos}
<1>13. ASSUME NEW n \in 1..Len(s), n - 1 \in T PROVE n \in T
  <2>1. g[n - 1] \in Tracos /\ s[n] \in Pontos /\ n \in 0..Len(s)
    BY <1>13
  <2>2. Segue(g[n - 1], s[n]) \in Tracos
    BY <2>1, SegueIs
  <2>3. g[n] \in Tracos
    BY <1>1, <1>12, <2>1, <2>2
  <2> QED
    BY <2>1, <2>3
<1>14. 0 \in T
  <2>1. 0 \in 0..Len(s) /\ g[0] \in Tracos
    BY <1>1, <1>12
  <2> QED
    BY <2>1
<1>15. 0..Len(s) \subseteq T
  <2> HIDE DEF T
  <2> QED
    BY <1>1, <1>13, <1>14, UpTo
<1>16. g[1].kept = <<s[1]>>
  <2>1. g[1] = Comeco(s)
    BY <1>12
  <2> QED
    BY <2>1 DEF Comeco
<1>17. \A n \in 2..Len(s) : g[n] = Segue(g[n - 1], s[n])
  BY <1>12
<1> QED
  BY <1>9, <1>10, <1>15, <1>16, <1>17 DEF SimplesRun

\* t has points of s, in their order, ends with its last, and for every point of s has
\* one at or before it that is less than 30 m away.
KeepsTo(t, s) ==
  /\ \A k \in 1..Len(t) : \E i \in 1..Len(s) : t[k] = s[i]
  /\ \A k, l \in 1..Len(t) : k < l => t[k].act <= t[l].act
  /\ \A i \in 1..Len(s) : \E k \in 1..Len(t) :
       t[k].act <= s[i].act /\ Softruck!Abs(t[k].pos - s[i].pos) < 6
  /\ Len(t) \in 1..Len(t) /\ t[Len(t)] = s[Len(s)]

\* The simplified route keeps to the points from which it is made.
LEMMA SimplesKeep ==
  ASSUME NEW ps \in Seq(Pontos), NEW s \in Seq(Pontos), s = Softruck!PorInstante(ps),
         Len(s) > 2, Len(ps) > 2,
         \A i, j \in 1..Len(s) : i < j => s[i].act <= s[j].act
  PROVE  \E t \in Seq(Pontos) : t = Softruck!Simplificada(ps) /\ KeepsTo(t, s)
<1>1. PICK f : /\ SimplesRun(f, s)
               /\ Softruck!Simplificada(ps) = Append(f[Len(s) - 1].kept, s[Len(s)])
  BY SimplesSteps
<1> DEFINE By(p, q) == q.act <= p.act /\ Softruck!Abs(q.pos - p.pos) < 6
           From(a, n) == \A k \in 1..Len(a) : \E i \in 1..n : a[k] = s[i]
           InOrder(a) == \A k, l \in 1..Len(a) : k < l => a[k].act <= a[l].act
           All(a, n) == \A i \in 1..n : \E k \in 1..Len(a) : By(s[i], a[k])
           Good(a, n) == a # <<>> /\ From(a, n) /\ InOrder(a) /\ All(a, n)
           S == {n \in 0..Len(s) : n = 0 \/ Good(f[n].kept, n)}
<1>2. ASSUME NEW i \in 1..Len(s) PROVE s[i] \in Pontos /\ s[i].act \in Int /\ s[i].pos \in Int
  <2>1. s[i] \in Pontos
    OBVIOUS
  <2> QED
    BY <2>1 DEF Pontos
<1>a. ASSUME NEW i \in 1..Len(s) PROVE By(s[i], s[i])
  BY <1>2 DEF Softruck!Abs
\* A point more.
<1>3. ASSUME NEW n \in 2..Len(s), NEW a \in Seq(Pontos), Good(a, n - 1)
      PROVE  Good(Append(a, s[n]), n)
  <2>1. PICK b : b = Append(a, s[n])
    OBVIOUS
  <2>2. /\ Len(b) = Len(a) + 1 /\ b[Len(a) + 1] = s[n] /\ Len(a) \in Nat /\ b # <<>>
        /\ \A k \in 1..Len(a) : b[k] = a[k]
        /\ \A k \in 1..Len(b) : k \in 1..Len(a) \/ k = Len(a) + 1
    <3>1. s[n] \in Pontos
      BY <1>2
    <3> QED
      BY <2>1, <3>1
  <2>3. ASSUME NEW k \in 1..Len(a) PROVE a[k].act <= s[n].act
    <3>1. PICK i \in 1..n - 1 : a[k] = s[i]
      BY <1>3
    <3>2. i \in 1..Len(s) /\ n \in 1..Len(s) /\ i < n
      OBVIOUS
    <3> QED
      BY <3>1, <3>2
  <2>4. ASSUME NEW k \in 1..Len(b) PROVE \E i \in 1..n : b[k] = s[i]
    <3>1. CASE k \in 1..Len(a)
      <4>1. PICK i \in 1..n - 1 : a[k] = s[i]
        BY <1>3, <3>1
      <4> QED
        BY <2>2, <3>1, <4>1
    <3>2. CASE k = Len(a) + 1
      <4>1. n \in 1..n
        OBVIOUS
      <4> QED
        BY <2>2, <3>2, <4>1
    <3> QED
      BY <2>2, <3>1, <3>2
  <2>5. ASSUME NEW k \in 1..Len(b), NEW l \in 1..Len(b), k < l PROVE b[k].act <= b[l].act
    <3>1. k \in 1..Len(a)
      BY <2>2, <2>5
    <3>2. CASE l \in 1..Len(a)
      BY <1>3, <2>2, <2>5, <3>1, <3>2
    <3>3. CASE l = Len(a) + 1
      BY <2>2, <2>3, <3>1, <3>3
    <3> QED
      BY <2>2, <3>2, <3>3
  <2>6. ASSUME NEW i \in 1..n PROVE \E k \in 1..Len(b) : By(s[i], b[k])
    <3>1. CASE i = n
      <4>1. Len(a) + 1 \in 1..Len(b) /\ n \in 1..Len(s)
        BY <2>2
      <4>2. By(s[n], s[n])
        BY <1>a, <4>1
      <4> HIDE DEF By
      <4> QED
        BY <2>2, <3>1, <4>1, <4>2
    <3>2. CASE i # n
      <4> HIDE DEF By
      <4>1. i \in 1..n - 1
        BY <3>2
      <4>2. PICK k \in 1..Len(a) : By(s[i], a[k])
        BY <1>3, <4>1
      <4>3. k \in 1..Len(b) /\ b[k] = a[k]
        BY <2>2
      <4> QED
        BY <4>2, <4>3
    <3> QED
      BY <3>1, <3>2
  <2> HIDE DEF By
  <2> QED
    BY <2>1, <2>2, <2>4, <2>5, <2>6
<1>4. 1 \in S
  <2>1. f[1].kept = <<s[1]>> /\ 1 \in 0..Len(s) /\ 1 \in 1..Len(s)
    BY <1>1 DEF SimplesRun
  <2>2. By(s[1], s[1])
    BY <1>a, <2>1
  <2> HIDE DEF By
  <2>3. PICK a : a = <<s[1]>>
    OBVIOUS
  <2>4. a # <<>> /\ Len(a) = 1 /\ a[1] = s[1]
    BY <2>3
  <2>5. /\ \A k \in 1..Len(a) : k = 1
        /\ \A i \in 1..1 : i = 1
        /\ 1 \in 1..Len(a) /\ 1 \in 1..1
    BY <2>4
  <2>6. From(a, 1)
    BY <2>4, <2>5
  <2>7. All(a, 1)
    BY <2>2, <2>4, <2>5
  <2>8. InOrder(a)
    BY <2>5
  <2>9. Good(a, 1)
    BY <2>4, <2>6, <2>7, <2>8
  <2> HIDE DEF Good
  <2> QED
    BY <2>1, <2>3, <2>9
<1>5. ASSUME NEW n \in 1..Len(s), n - 1 \in S PROVE n \in S
  <2>1. CASE n = 1
    BY <1>4, <2>1
  <2>2. CASE n # 1
    <3>1. n \in 2..Len(s) /\ n - 1 \in 0..Len(s) /\ n \in 0..Len(s)
      BY <2>2
    <3>2. PICK a : a = f[n - 1].kept
      OBVIOUS
    <3>3. /\ f[n - 1] \in Tracos /\ a \in Seq(Pontos) /\ s[n] \in Pontos
          /\ f[n] = Segue(f[n - 1], s[n])
      BY <1>1, <1>2, <3>1, <3>2 DEF SimplesRun, Tracos
    <3>4. Good(a, n - 1)
      BY <1>5, <2>2, <3>2
    <3>5. CASE f[n].kept = Append(a, s[n])
      <4>1. Good(Append(a, s[n]), n)
        BY <1>3, <3>1, <3>3, <3>4
      <4> HIDE DEF Good
      <4> QED
        BY <3>1, <3>5, <4>1
    <3>6. CASE f[n].kept # Append(a, s[n])
      <4>1. f[n].kept = a /\ ~(Softruck!Abs(s[n].pos - a[Len(a)].pos) >= 6)
        BY <3>2, <3>3, <3>4, <3>6, SegueIs
      <4>2. Len(a) \in 1..Len(a)
        BY <3>3, <3>4
      <4>3. PICK i \in 1..n - 1 : a[Len(a)] = s[i]
        BY <3>4, <4>2
      <4>4. i \in 1..Len(s) /\ i < n
        BY <3>1
      <4>5. s[i].act <= s[n].act
        BY <4>4
      <4>6. By(s[n], a[Len(a)])
        <5>1. s[i].pos \in Int /\ s[n].pos \in Int
          BY <1>2, <4>4
        <5>2. PICK q : q = a[Len(a)]
          OBVIOUS
        <5>3. q.pos \in Int /\ q.act <= s[n].act
          BY <4>3, <4>5, <5>1, <5>2
        <5>4. ~(Softruck!Abs(s[n].pos - q.pos) >= 6)
          BY <4>1, <5>2
        <5>5. By(s[n], q)
          BY ONLY <5>1, <5>3, <5>4 DEF Softruck!Abs
        <5> QED
          BY <5>2, <5>5
      <4> HIDE DEF By
      <4>7. ASSUME NEW j \in 1..n PROVE \E k \in 1..Len(a) : By(s[j], a[k])
        <5>1. CASE j = n
          BY <4>2, <4>6, <5>1
        <5>2. CASE j # n
          <6>1. j \in 1..n - 1
            BY <5>2
          <6> QED
            BY <3>4, <6>1
        <5> QED
          BY <5>1, <5>2
      <4>8. ASSUME NEW k \in 1..Len(a) PROVE \E j \in 1..n : a[k] = s[j]
        <5>1. PICK j \in 1..n - 1 : a[k] = s[j]
          BY <3>4
        <5> QED
          BY <5>1
      <4>9. Good(a, n)
        BY <3>4, <4>7, <4>8
      <4> HIDE DEF Good
      <4> QED
        BY <3>1, <4>1, <4>9
    <3> QED
      BY <3>5, <3>6
  <2> QED
    BY <2>1, <2>2
<1>6. 0..Len(s) \subseteq S
  <2>1. 0 \in S /\ Len(s) \in Nat
    OBVIOUS
  <2> HIDE DEF S
  <2> QED
    BY <1>5, <2>1, UpTo
<1>7. PICK m, a : m = Len(s) /\ a = f[m - 1].kept
  OBVIOUS
<1>8. m \in 2..Len(s) /\ m - 1 \in 0..Len(s) /\ m - 1 # 0
  BY <1>7
<1>9. a \in Seq(Pontos) /\ Good(a, m - 1)
  <2>1. f[m - 1] \in Tracos
    BY <1>1, <1>8 DEF SimplesRun
  <2>2. m - 1 \in S
    <3> HIDE DEF S
    <3> QED
      BY <1>6, <1>8
  <2> HIDE DEF Good
  <2> QED
    BY <1>7, <1>8, <2>1, <2>2 DEF Tracos
<1>10. PICK t : t = Append(a, s[m])
  OBVIOUS
<1>11. t \in Seq(Pontos) /\ Good(t, m) /\ t = Softruck!Simplificada(ps)
  <2>1. s[m] \in Pontos
    BY <1>2, <1>8
  <2> HIDE DEF Good
  <2> QED
    BY <1>1, <1>3, <1>7, <1>8, <1>9, <1>10, <2>1
<1>12. /\ \A k \in 1..Len(t) : \E i \in 1..Len(s) : t[k] = s[i]
       /\ \A k, l \in 1..Len(t) : k < l => t[k].act <= t[l].act
  BY <1>7, <1>11
<1>13. ASSUME NEW i \in 1..Len(s)
       PROVE  \E k \in 1..Len(t) : By(s[i], t[k])
  <2> HIDE DEF By
  <2> QED
    BY <1>7, <1>11
<1>14. Len(t) \in 1..Len(t) /\ t[Len(t)] = s[Len(s)]
  <2>1. s[m] \in Pontos /\ a \in Seq(Pontos)
    BY <1>2, <1>8, <1>9
  <2>2. Len(t) = Len(a) + 1 /\ Len(a) \in Nat /\ t[Len(a) + 1] = s[m]
    BY ONLY <1>10, <2>1
  <2> QED
    BY ONLY <1>7, <2>2
<1> HIDE DEF By
<1>15. \A i \in 1..Len(s) : \E k \in 1..Len(t) :
         t[k].act <= s[i].act /\ Softruck!Abs(t[k].pos - s[i].pos) < 6
  BY ONLY <1>13 DEF By
<1> QED
  BY ONLY <1>11, <1>12, <1>14, <1>15 DEF KeepsTo

\* SeqParts is one module.
LEMMA SameParts ==
  /\ \A s, is : M7!Those(s, is) = Those(s, is)
  /\ \A s, is : Softruck!Those(s, is) = Those(s, is)
  /\ \A s, key : Softruck!Sorted(s, key) = Sorted(s, key)
<1>1. \A s, is : M7!Those(s, is) = Those(s, is)
  BY ONLY Zenon DEF M7!Those, Those
<1>2. \A s, is : Softruck!Those(s, is) = Those(s, is)
  BY ONLY Zenon DEF Softruck!Those, Those
<1>3. \A s, key : Softruck!Sorted(s, key) = Sorted(s, key)
  BY ONLY Zenon DEF Softruck!Sorted, Sorted, Softruck!Ranked, Ranked
<1> QED
  BY <1>1, <1>2, <1>3

Items(s) == {s[i] : i \in 1..Len(s)}

\* The points of a route by their instants.
LEMMA PorInstanteIs ==
  ASSUME NEW ps \in Seq(Pontos)
  PROVE  LET s == Softruck!PorInstante(ps) IN
         /\ s \in Seq(Pontos) /\ Len(s) = Len(ps) /\ Items(s) = Items(ps)
         /\ \A i, j \in 1..Len(s) : i < j => s[i].act <= s[j].act
<1>1. PICK key : key = [i \in DOMAIN ps |-> ps[i].act]
  OBVIOUS
<1>2. ASSUME NEW i \in 1..Len(ps) PROVE key[i] = ps[i].act /\ key[i] \in Int
  <2>1. i \in DOMAIN ps /\ ps[i] \in Pontos
    OBVIOUS
  <2>2. key[i] = ps[i].act
    BY <1>1, <2>1
  <2> QED
    BY <2>1, <2>2 DEF Pontos
<1>3. PICK s : s = Sorted(ps, key)
  OBVIOUS
<1>4. Softruck!PorInstante(ps) = s
  BY <1>1, <1>3, SameParts DEF Softruck!PorInstante
<1>5. PICK r : /\ s \in Seq(Pontos) /\ Len(s) = Len(ps)
               /\ IsRank(r, Len(ps), key) /\ \A i \in 1..Len(ps) : s[i] = ps[r[i]]
  BY <1>2, <1>3, SortedIs
<1>6. /\ r \in [1..Len(ps) -> 1..Len(ps)]
      /\ \A j \in 1..Len(ps) : \E i \in 1..Len(ps) : r[i] = j
      /\ \A i, k \in 1..Len(ps) : i < k => key[r[i]] <= key[r[k]]
  BY <1>5 DEF IsRank
<1>7. Items(s) = Items(ps)
  <2>1. \A i \in 1..Len(ps) : r[i] \in 1..Len(ps)
    BY <1>6
  <2>2. Items(s) \subseteq Items(ps)
    BY <1>5, <2>1 DEF Items
  <2>3. Items(ps) \subseteq Items(s)
    <3> SUFFICES ASSUME NEW j \in 1..Len(ps) PROVE ps[j] \in Items(s)
      BY DEF Items
    <3>1. PICK i \in 1..Len(ps) : r[i] = j
      BY <1>6
    <3>2. s[i] = ps[j] /\ i \in 1..Len(s)
      BY <1>5, <3>1
    <3> QED
      BY <3>2 DEF Items
  <2> QED
    BY <2>2, <2>3
<1>8. ASSUME NEW i \in 1..Len(s), NEW j \in 1..Len(s), i < j PROVE s[i].act <= s[j].act
  <2>1. r[i] \in 1..Len(ps) /\ r[j] \in 1..Len(ps) /\ key[r[i]] <= key[r[j]]
    BY <1>5, <1>6, <1>8
  <2>2. s[i].act = key[r[i]] /\ s[j].act = key[r[j]]
    BY <1>2, <1>5, <2>1
  <2> QED
    BY <2>1, <2>2
<1> QED
  BY <1>4, <1>5, <1>7, <1>8

\* Two places do not hold three items.
LEMMA FewItems ==
  ASSUME NEW A, NEW s \in Seq(A), Len(s) <= 2
  PROVE  ~(Cardinality(Items(s)) > 2)
<1>1. CASE Len(s) = 0
  <2>1. Items(s) = {}
    BY <1>1 DEF Items
  <2>2. Cardinality({}) = 0
    BY FS_EmptySet
  <2> QED
    BY <2>1, <2>2
<1>2. PICK a, b : a = s[1] /\ b = s[2]
  OBVIOUS
<1>3. IsFiniteSet({a}) /\ Cardinality({a}) = 1
  BY FS_Singleton
<1>4. CASE Len(s) = 1
  <2>1. Items(s) = {a}
    BY <1>2, <1>4 DEF Items
  <2> QED
    BY <1>3, <2>1
<1>5. CASE Len(s) = 2
  <2>1. PICK S, T : S = {a} /\ T = S \cup {b}
    OBVIOUS
  <2>2. IsFiniteSet(S) /\ Cardinality(S) = 1
    BY <1>3, <2>1
  <2>3. Items(s) = T
    <3>1. 1..Len(s) = {1, 2}
      BY <1>5
    <3> QED
      BY <1>2, <2>1, <3>1 DEF Items
  <2>4. Cardinality(T) = IF b \in S THEN Cardinality(S) ELSE Cardinality(S) + 1
    BY <2>1, <2>2, FS_AddElement
  <2>5. Cardinality(T) = 1 \/ Cardinality(T) = 2
    BY <2>2, <2>4
  <2> QED
    BY <2>3, <2>5
<1>6. Len(s) = 0 \/ Len(s) = 1 \/ Len(s) = 2
  <2>1. PICK n \in Nat : n = Len(s)
    OBVIOUS
  <2>2. n <= 2
    BY <2>1
  <2>3. n = 0 \/ n = 1 \/ n = 2
    BY ONLY <2>2
  <2> QED
    BY <2>1, <2>3
<1> QED
  BY <1>1, <1>4, <1>5, <1>6

\* The route of some points.
LEMMA RouteOf ==
  ASSUME NEW ps \in Seq(Pontos)
  PROVE  LET t == Softruck!Simplificada(ps) IN
         /\ t \in Seq(Pontos) /\ Items(t) \subseteq Items(ps)
         /\ Cardinality(Items(ps)) > 2 =>
              \A k, l \in 1..Len(t) : k < l => t[k].act <= t[l].act
         /\ \A p \in Items(ps) :
              /\ \E q \in Items(t) : q.act <= p.act /\ Softruck!Abs(q.pos - p.pos) < 6
              /\ \E q \in Items(t) : p.act <= q.act
<1>1. CASE Len(ps) <= 2
  <2>1. Softruck!Simplificada(ps) = ps
    BY <1>1 DEF Softruck!Simplificada
  <2>2. ASSUME NEW p \in Items(ps) PROVE p.act <= p.act /\ Softruck!Abs(p.pos - p.pos) < 6
    <3>1. p \in Pontos
      BY DEF Items
    <3> QED
      BY <3>1 DEF Pontos, Softruck!Abs
  <2> QED
    BY <1>1, <2>1, <2>2, FewItems
<1>2. CASE ~(Len(ps) <= 2)
  <2>1. PICK s : s = Softruck!PorInstante(ps)
    OBVIOUS
  <2>2. /\ s \in Seq(Pontos) /\ Len(s) = Len(ps) /\ Items(s) = Items(ps)
        /\ \A i, j \in 1..Len(s) : i < j => s[i].act <= s[j].act
    BY <2>1, PorInstanteIs
  <2>3. Len(s) > 2 /\ Len(ps) > 2
    BY <1>2, <2>2
  <2>4. PICK t \in Seq(Pontos) :
          t = Softruck!Simplificada(ps) /\ KeepsTo(t, s)
    <3>1. Softruck!PorInstante(ps) \in Seq(Pontos)
      BY <2>1, <2>2
    <3> QED
      BY <2>1, <2>2, <2>3, <3>1, SimplesKeep
  <2>5. /\ Items(t) \subseteq Items(ps)
        /\ \A k, l \in 1..Len(t) : k < l => t[k].act <= t[l].act
    BY <2>2, <2>4 DEF Items, KeepsTo
  <2>6. \A p \in Items(s) : \E q \in Items(t) :
          q.act <= p.act /\ Softruck!Abs(q.pos - p.pos) < 6
    BY <2>4 DEF Items, KeepsTo
  <2>7. ASSUME NEW p \in Items(s) PROVE \E q \in Items(t) : p.act <= q.act
    <3>1. Len(t) \in 1..Len(t) /\ t[Len(t)] = s[Len(s)]
      BY <2>4 DEF KeepsTo
    <3>2. PICK i \in 1..Len(s) : p = s[i]
      BY DEF Items
    <3>3. Len(s) \in 1..Len(s) /\ s[i] \in Pontos
      BY <2>2, <2>3
    <3>4. CASE i = Len(s)
      <4>1. s[i].act <= s[i].act
        BY <3>3 DEF Pontos
      <4> QED
        BY <3>1, <3>2, <3>4, <4>1 DEF Items
    <3>5. CASE i # Len(s)
      <4>1. i < Len(s)
        BY <3>3, <3>5
      <4>2. s[i].act <= s[Len(s)].act
        BY <2>2, <3>3, <4>1
      <4> QED
        BY <3>1, <3>2, <4>2 DEF Items
    <3> QED
      BY <3>4, <3>5
  <2> QED
    BY <2>2, <2>4, <2>5, <2>6, <2>7
<1> QED
  BY <1>1, <1>2

-----------------------------------------------------------------------------
(* The features of a day                                                   *)

Features == Pontos \cup Alarmes

OfType(x, ty) == Those(x, {i \in DOMAIN x : x[i].type = ty})

\* The features of a type are all those of the type.
LEMMA OfTypeIs ==
  ASSUME NEW x \in Seq(Features), NEW ty, NEW B, \A f \in Features : f.type = ty => f \in B
  PROVE  /\ OfType(x, ty) \in Seq(B)
         /\ Items(OfType(x, ty)) = {f \in Items(x) : f.type = ty}
<1>1. PICK is : is = {i \in DOMAIN x : x[i].type = ty}
  OBVIOUS
<1>2. PICK t : t = Those(x, is)
  OBVIOUS
<1>a. t \in Seq(Features) /\ ArePart(t, x, is)
  BY <1>2, ThoseAre
<1>b. is \cap (1..Len(x)) = {i \in 1..Len(x) : x[i].type = ty}
  BY <1>1
<1>3. /\ \A k \in 1..Len(t) : \E i \in 1..Len(x) : t[k] = x[i] /\ x[i].type = ty
      /\ \A i \in 1..Len(x) : x[i].type = ty => \E k \in 1..Len(t) : t[k] = x[i]
  BY <1>a, <1>b DEF ArePart
<1>4. ASSUME NEW k \in 1..Len(t) PROVE t[k] \in B /\ t[k] \in Items(x) /\ t[k].type = ty
  <2>1. PICK i \in 1..Len(x) : t[k] = x[i] /\ x[i].type = ty
    BY <1>3
  <2>2. x[i] \in Features
    OBVIOUS
  <2> QED
    BY <2>1, <2>2 DEF Items
<1>5. t \in Seq(B)
  <2>1. Len(t) \in Nat /\ t = [k \in 1..Len(t) |-> t[k]]
    BY <1>a
  <2>2. t \in [1..Len(t) -> B]
    BY <1>4, <2>1
  <2> QED
    BY <2>1, <2>2
<1>6. \A i \in 1..Len(x) : x[i].type = ty => x[i] \in Items(t)
  BY <1>3 DEF Items
<1>7. Items(t) = {f \in Items(x) : f.type = ty}
  BY <1>4, <1>6 DEF Items
<1>8. OfType(x, ty) = t
  BY <1>1, <1>2 DEF OfType
<1> QED
  BY <1>5, <1>7, <1>8

\* The pipeline draws its points and tells its alarms.
LEMMA PipelineIs ==
  ASSUME NEW x \in Seq(Features)
  PROVE  /\ Softruck!Pipeline(x).rota = Softruck!Simplificada(OfType(x, "DETAILED"))
         /\ Softruck!Pipeline(x).alarmes = Softruck!Alarmes(OfType(x, "ALARM"))
         /\ OfType(x, "DETAILED") \in Seq(Pontos)
         /\ OfType(x, "ALARM") \in Seq(Alarmes)
<1>1. \A ty : Softruck!Those(x, {i \in DOMAIN x : x[i].type = ty}) = OfType(x, ty)
  BY SameParts DEF OfType
<1>2. \A f \in Features : f.type = "DETAILED" => f \in Pontos
  BY DEF Features, Pontos, Alarmes
<1>3. \A f \in Features : f.type = "ALARM" => f \in Alarmes
  BY DEF Features, Pontos, Alarmes
<1>4. OfType(x, "DETAILED") \in Seq(Pontos)
  BY <1>2, OfTypeIs
<1>5. OfType(x, "ALARM") \in Seq(Alarmes)
  BY <1>3, OfTypeIs
<1>6. /\ Softruck!Pipeline(x).rota = Softruck!Simplificada(OfType(x, "DETAILED"))
      /\ Softruck!Pipeline(x).alarmes = Softruck!Alarmes(OfType(x, "ALARM"))
  BY <1>1 DEF Softruck!Pipeline
<1> QED
  BY <1>4, <1>5, <1>6

-----------------------------------------------------------------------------
(* The requests of the histories.                                          *)

\* The items of a sequence are its range.
LEMMA RangeIs ==
  ASSUME NEW A, NEW s \in Seq(A)
  PROVE  Softruck!Range(s) = Items(s) /\ M7!Range(s) = Items(s)
BY DEF Softruck!Range, M7!Range, Items

InOrder(ps) == \A i, j \in 1..Len(ps) : i < j => ps[i].ts <= ps[j].ts

RotasOK ==
  pedido = "rotas" =>
    /\ entrada \in Seq(PontosM7) /\ InOrder(entrada)
    /\ estado = "respondido" => resposta = M7!Rota(M7!NoPeriodo(entrada))

GeomOK ==
  pedido = "softruck_geom" =>
    /\ entrada \in Seq(Features)
    /\ estado = "respondido" =>
         \E x \in Seq(Features) : Items(x) = Items(entrada) /\ resposta = Softruck!Pipeline(x)

\* M7 gives the points in order, and the answer is the route of those of the period.
LEMMA RotasNext == RotasOK /\ [MCNext]_MCvars => RotasOK'
<1> SUFFICES ASSUME RotasOK, [MCNext]_MCvars, pedido' = "rotas"
             PROVE  /\ entrada' \in Seq(PontosM7) /\ InOrder(entrada)'
                    /\ estado' = "respondido" => resposta' = M7!Rota(M7!NoPeriodo(entrada))'
  BY DEF RotasOK
<1>1. /\ pedido = "rotas"
      /\ \/ \E g \in {3, 6}, d \in {0, 1} : M7!PontoDaRota(g, d)
         \/ \E b \in BOOLEAN : M7!Answer(b)
         \/ estado' = "erro" /\ UNCHANGED <<pedido, entrada, resposta>>
         \/ UNCHANGED <<pedido, entrada, estado, resposta>>
  BY DEF MCNext, MCvars, OfHistory, OfReport, historyVars,
     M7!Ponto, M7!PontoDaRota, M7!Trajeto, M7!Receive, M7!Answer, M7!AnswerError,
     Logica!Posicao, Logica!Registro, Logica!Receive, Logica!Answer, Logica!AnswerFallback,
     Logica!AnswerPdf, Logica!AnswerError, Softruck!ByKeys, Softruck!Geom, Softruck!Answer,
     Softruck!AnswerError, Softruck!Ponto, Softruck!Alarme, Softruck!Feature,
     Softruck!AnswerGeom, Softruck!Open, M7!Pedidos, Logica!Pedidos
<1>2. /\ entrada \in Seq(PontosM7) /\ InOrder(entrada)
      /\ estado = "respondido" => resposta = M7!Rota(M7!NoPeriodo(entrada))
  BY <1>1 DEF RotasOK
<1>3. CASE \E g \in {3, 6}, d \in {0, 1} : M7!PontoDaRota(g, d)
  <2>1. PICK g \in {3, 6}, d \in {0, 1} : M7!PontoDaRota(g, d)
    BY <1>3
  <2>2. PICK p : p = [ts |-> M7!Agora + g, ignicao |-> TRUE, velocidade |-> 5,
                      pos |-> M7!Aqui + d, odometro |-> M7!None]
    OBVIOUS
  <2>3. entrada' = Append(entrada, p) /\ estado = "aberto" /\ estado' = estado
    BY <2>1, <2>2 DEF M7!PontoDaRota, M7!Receive
  <2>4. PICK n \in Nat : n = Len(entrada)
    BY <1>2
  <2>5. ASSUME NEW i \in 1..n PROVE entrada[i] \in PontosM7 /\ entrada[i].ts \in Int
    <3>1. entrada[i] \in PontosM7
      BY <1>2, <2>4
    <3> QED
      BY <3>1 DEF PontosM7
  <2>6. /\ M7!Agora \in Int /\ M7!Aqui \in Int
        /\ n > 0 => M7!Agora = entrada[n].ts
    <3>1. CASE entrada = <<>>
      BY <2>4, <3>1 DEF M7!Agora, M7!Aqui
    <3>2. CASE entrada # <<>>
      <4>1. n > 0 /\ entrada[n] \in PontosM7
        BY <1>2, <2>4, <3>2
      <4>2. M7!Agora = entrada[n].ts /\ M7!Aqui = entrada[n].pos
        BY <2>4, <3>2 DEF M7!Agora, M7!Aqui, M7!Last
      <4> QED
        BY <4>1, <4>2 DEF PontosM7
    <3> QED
      BY <3>1, <3>2
  <2>7. p \in PontosM7 /\ p.ts = M7!Agora + g
    BY <2>2, <2>6 DEF PontosM7, M7!None
  <2>8. PICK t : t = entrada'
    OBVIOUS
  <2>9. /\ t \in Seq(PontosM7) /\ Len(t) = n + 1 /\ t[n + 1] = p
        /\ \A i \in 1..n : t[i] = entrada[i]
    BY <1>2, <2>3, <2>4, <2>7, <2>8
  <2>10. ASSUME NEW i \in 1..n PROVE entrada[i].ts <= p.ts
    <3>1. entrada[i].ts <= entrada[n].ts
      <4>1. CASE i < n
        <5>1. n \in 1..Len(entrada) /\ i \in 1..Len(entrada)
          BY <2>4
        <5> QED
          BY <1>2, <4>1, <5>1 DEF InOrder
      <4>2. CASE i = n
        BY <2>5, <4>2
      <4> QED
        BY <4>1, <4>2
    <3>2. n \in 1..n /\ entrada[n].ts \in Int /\ entrada[i].ts \in Int
      BY <2>5
    <3> QED
      BY <2>6, <2>7, <3>1, <3>2
  <2>11. ASSUME NEW i \in 1..Len(t), NEW j \in 1..Len(t), i < j PROVE t[i].ts <= t[j].ts
    <3>1. i \in 1..n /\ (j \in 1..n \/ j = n + 1)
      BY <2>9, <2>11
    <3>2. CASE j \in 1..n
      BY <1>2, <2>4, <2>9, <2>11, <3>1, <3>2 DEF InOrder
    <3>3. CASE j = n + 1
      BY <2>9, <2>10, <3>1, <3>3
    <3> QED
      BY <3>1, <3>2, <3>3
  <2> QED
    BY <2>3, <2>8, <2>9, <2>11 DEF InOrder
<1>4. CASE \E b \in BOOLEAN : M7!Answer(b)
  <2>1. PICK b \in BOOLEAN : M7!Answer(b)
    BY <1>4
  <2>2. /\ ~b /\ entrada' = entrada
        /\ resposta' = M7!Responder(M7!NoPeriodo(entrada))
    BY <1>1, <2>1 DEF M7!Answer
  <2>3. resposta' = M7!Rota(M7!NoPeriodo(entrada))
    BY <1>1, <2>2 DEF M7!Responder
  <2>4. InOrder(entrada)'
    BY <1>2, <2>2 DEF InOrder
  <2>5. M7!Rota(M7!NoPeriodo(entrada))' = M7!Rota(M7!NoPeriodo(entrada))
    BY <2>2 DEF M7!Rota, M7!NoPeriodo
  <2> QED
    BY <1>2, <2>2, <2>3, <2>4, <2>5
<1>5. CASE estado' = "erro" /\ UNCHANGED <<pedido, entrada, resposta>>
  BY <1>2, <1>5 DEF InOrder
<1>6. CASE UNCHANGED <<pedido, entrada, estado, resposta>>
  <2>1. InOrder(entrada)'
    BY <1>2, <1>6 DEF InOrder
  <2>2. M7!Rota(M7!NoPeriodo(entrada))' = M7!Rota(M7!NoPeriodo(entrada))
    BY <1>6 DEF M7!Rota, M7!NoPeriodo
  <2> QED
    BY <1>2, <1>6, <2>1, <2>2
<1> QED
  BY <1>1, <1>3, <1>4, <1>5, <1>6

\* A sequence may have one item more.
LEMMA AppendItems ==
  ASSUME NEW A, NEW s \in Seq(A), NEW x \in A
  PROVE  Append(s, x) \in Seq(A)
  OBVIOUS

\* A sequence turned around has the same items.
LEMMA ReverseItems ==
  ASSUME NEW A, NEW s \in Seq(A)
  PROVE  Softruck!Reverse(s) \in Seq(A) /\ Items(Softruck!Reverse(s)) = Items(s)
<1>1. PICK t : t = Softruck!Reverse(s)
  OBVIOUS
<1>a. PICK n \in Nat : n = Len(s)
  OBVIOUS
<1>2. t = [i \in 1..n |-> s[(n - i) + 1]]
  BY <1>1, <1>a DEF Softruck!Reverse
<1>3. \A i \in 1..n : s[i] \in A /\ (n - i) + 1 \in 1..n /\ (n - ((n - i) + 1)) + 1 = i
  BY <1>a
<1>4. t \in Seq(A) /\ Len(t) = n /\ \A i \in 1..n : t[i] = s[(n - i) + 1]
  BY <1>2, <1>3
<1>5. Items(t) \subseteq Items(s)
  BY <1>a, <1>3, <1>4 DEF Items
<1>6. ASSUME NEW i \in 1..n PROVE s[i] \in Items(t)
  <2>1. t[(n - i) + 1] = s[i] /\ (n - i) + 1 \in 1..Len(t)
    BY <1>3, <1>4
  <2> QED
    BY <2>1 DEF Items
<1>7. Items(s) \subseteq Items(t)
  BY <1>a, <1>6 DEF Items
<1> QED
  BY <1>1, <1>4, <1>5, <1>7

\* An alarm of Softruck is a feature of the model.
LEMMA AlarmeIs ==
  ASSUME Softruck!Agora \in Int, Softruck!Aqui \in Int, NEW g \in Int,
         NEW y \in Textos, NEW v \in Textos, NEW m \in Textos, Softruck!Alarme(g, 40, y, v, m)
  PROVE  \E f \in Features : Softruck!Feature(f)
<1>1. PICK f : f = [type |-> "ALARM", act |-> Softruck!Agora + g, pos |-> Softruck!Aqui + 40,
                    tag |-> y, val |-> v, msg |-> m]
  OBVIOUS
<1>2. f \in Features
  BY <1>1 DEF Features, Alarmes
<1>3. Softruck!Feature(f)
  BY <1>1 DEF Softruck!Alarme
<1> QED
  BY <1>2, <1>3

\* Softruck gives features, in one order or the other, and the answer is made of them.
LEMMA GeomNext == GeomOK /\ [MCNext]_MCvars => GeomOK'
<1> SUFFICES ASSUME GeomOK, [MCNext]_MCvars, pedido' = "softruck_geom"
             PROVE  /\ entrada' \in Seq(Features)
                    /\ estado' = "respondido" =>
                         \E x \in Seq(Features) :
                           Items(x) = Items(entrada') /\ resposta' = Softruck!Pipeline(x)
  BY DEF GeomOK, Items
<1>1. /\ pedido = "softruck_geom"
      /\ \/ \E p \in {-2, 1, 3, 6} : Softruck!Ponto(p)
         \/ \E g \in {150, 301}, tag \in {"panic", "sos", "accelerometer", "idle"} :
              Softruck!Alarme(g, 40, tag, "vibration", "")
         \/ \E b \in BOOLEAN : Softruck!AnswerGeom(b)
         \/ UNCHANGED <<pedido, entrada, estado, resposta>>
  BY DEF MCNext, MCvars, OfHistory, OfReport, historyVars,
     M7!Ponto, M7!PontoDaRota, M7!Trajeto, M7!Receive, M7!Answer, M7!AnswerError,
     Logica!Posicao, Logica!Registro, Logica!Receive, Logica!Answer, Logica!AnswerFallback,
     Logica!AnswerPdf, Logica!AnswerError, Softruck!ByKeys, Softruck!Geom, Softruck!Answer,
     Softruck!AnswerError, Softruck!Ponto, Softruck!Alarme, Softruck!Feature,
     Softruck!AnswerGeom, Softruck!Open, M7!Pedidos, Logica!Pedidos
<1>2. /\ entrada \in Seq(Features)
      /\ estado = "respondido" =>
           \E x \in Seq(Features) : Items(x) = Items(entrada) /\ resposta = Softruck!Pipeline(x)
  BY <1>1 DEF GeomOK
<1>3. Softruck!Agora \in Int /\ Softruck!Aqui \in Int
  <2>1. CASE entrada = <<>>
    BY <2>1 DEF Softruck!Agora, Softruck!Aqui
  <2>2. CASE entrada # <<>>
    <3>1. PICK f : f = entrada[Len(entrada)]
      OBVIOUS
    <3>2. f \in Features
      BY <1>2, <2>2, <3>1
    <3>3. f.act \in Int /\ f.pos \in Int
      BY <3>2 DEF Features, Pontos, Alarmes
    <3>4. Softruck!Agora = f.act /\ Softruck!Aqui = f.pos
      BY <2>2, <3>1 DEF Softruck!Agora, Softruck!Aqui, Softruck!Last
    <3> QED
      BY <3>3, <3>4
  <2> QED
    BY <2>1, <2>2
<1>4. ASSUME NEW f \in Features, Softruck!Feature(f)
      PROVE  entrada' \in Seq(Features) /\ estado' = "aberto"
  <2>1. entrada' = Append(entrada, f) /\ estado' = "aberto"
    BY <1>4 DEF Softruck!Feature, Softruck!Open
  <2> QED
    BY <1>2, <2>1, AppendItems
<1>5. CASE \E p \in {-2, 1, 3, 6} : Softruck!Ponto(p)
  <2>1. PICK p \in {-2, 1, 3, 6} : Softruck!Ponto(p)
    BY <1>5
  <2>2. PICK f : f = [type |-> "DETAILED", act |-> Softruck!Agora + 30, pos |-> Softruck!Aqui + p]
    OBVIOUS
  <2>3. f \in Features /\ Softruck!Feature(f)
    BY <1>3, <2>1, <2>2 DEF Features, Pontos, Softruck!Ponto
  <2> QED
    BY <1>4, <2>3
<1>6. CASE \E g \in {150, 301}, tag \in {"panic", "sos", "accelerometer", "idle"} :
             Softruck!Alarme(g, 40, tag, "vibration", "")
  <2>1. PICK g \in {150, 301}, ty \in {"panic", "sos", "accelerometer", "idle"} :
          Softruck!Alarme(g, 40, ty, "vibration", "")
    BY <1>6
  <2>2. ty \in Textos /\ "vibration" \in Textos /\ "" \in Textos
    BY DEF Textos
  <2>3. PICK v \in Textos, m \in Textos : Softruck!Alarme(g, 40, ty, v, m)
    BY <2>1, <2>2, Zenon
  <2>4. g \in Int
    OBVIOUS
  <2>5. \E f \in Features : Softruck!Feature(f)
    BY <1>3, <2>2, <2>3, <2>4, AlarmeIs
  <2> QED
    BY <1>4, <2>5
<1>7. CASE \E b \in BOOLEAN : Softruck!AnswerGeom(b)
  <2>1. PICK b \in BOOLEAN : Softruck!AnswerGeom(b)
    BY <1>7
  <2>2. PICK x : x = IF b THEN Softruck!Reverse(entrada) ELSE entrada
    OBVIOUS
  <2>3. entrada' = entrada /\ resposta' = Softruck!Pipeline(x)
    BY <2>1, <2>2 DEF Softruck!AnswerGeom
  <2>4. x \in Seq(Features) /\ Items(x) = Items(entrada)
    BY <1>2, <2>2, ReverseItems
  <2> QED
    BY <1>2, <2>3, <2>4
<1>8. CASE UNCHANGED <<pedido, entrada, estado, resposta>>
  BY <1>2, <1>8
<1> QED
  BY <1>1, <1>5, <1>6, <1>7, <1>8

-----------------------------------------------------------------------------
\* A route of points in order has what M7 promises of it.
LEMMA RotasPromise == RotasOK => M7!RouteKeepsTrack
<1> SUFFICES ASSUME RotasOK, pedido = "rotas", estado = "respondido"
             PROVE  \A p \in M7!Range(M7!NoPeriodo(entrada)) :
                      \E q \in M7!Range(resposta) :
                        p.pos - q.pos \in -1..1 /\ p.ts - q.ts \in 0..4
  BY DEF M7!RouteKeepsTrack, M7!Answered
<1>1. PICK ps, t : ps = M7!NoPeriodo(entrada) /\ t = M7!Rota(ps)
  OBVIOUS
<1>2. entrada \in Seq(PontosM7) /\ InOrder(entrada) /\ resposta = t
  BY <1>1 DEF RotasOK
<1>3. PICK is : ps = Those(entrada, is)
  BY <1>1, SameParts DEF M7!NoPeriodo
<1>4. ps \in Seq(PontosM7)
  BY <1>2, <1>3, ThoseAre
<1>5. InOrder(ps)
  <2> DEFINE key == [p \in PontosM7 |-> p.ts]
  <2>1. key \in [PontosM7 -> Int]
    BY DEF PontosM7
  <2>2. \A i \in 1..Len(entrada) : key[entrada[i]] = entrada[i].ts
    BY <1>2
  <2>3. \A i, j \in 1..Len(entrada) : i < j => key[entrada[i]] <= key[entrada[j]]
    BY <1>2, <2>2 DEF InOrder
  <2>4. \A i \in 1..Len(ps) : key[ps[i]] = ps[i].ts
    BY <1>4
  <2> HIDE DEF key
  <2>5. \A k, l \in 1..Len(ps) : k < l => key[ps[k]] <= key[ps[l]]
    BY <1>2, <1>3, <2>1, <2>3, ThoseInOrder
  <2> QED
    BY <2>4, <2>5 DEF InOrder
<1>6. /\ t \in Seq(PontosM7)
      /\ \A i \in 1..Len(ps) : \E k \in 1..Len(t) :
           ps[i].pos - t[k].pos \in -1..1 /\ ps[i].ts - t[k].ts \in 0..4
  BY <1>1, <1>4, <1>5, RotaKeeps DEF InOrder
<1>7. M7!Range(ps) = Items(ps) /\ M7!Range(t) = Items(t)
  BY <1>4, <1>6, RangeIs
<1>8. ASSUME NEW p \in Items(ps)
      PROVE  \E q \in Items(t) : p.pos - q.pos \in -1..1 /\ p.ts - q.ts \in 0..4
  <2>1. PICK i \in 1..Len(ps) : p = ps[i]
    BY DEF Items
  <2>2. PICK k \in 1..Len(t) : ps[i].pos - t[k].pos \in -1..1 /\ ps[i].ts - t[k].ts \in 0..4
    BY <1>6
  <2>3. t[k] \in Items(t)
    BY DEF Items
  <2> QED
    BY <2>1, <2>2, <2>3
<1> QED
  BY ONLY <1>1, <1>2, <1>7, <1>8

\* The instance counts as the module does.
LEMMA SameCardinality == \A S : Softruck!Cardinality(S) = Cardinality(S)
BY DEF Softruck!Cardinality, Cardinality

\* What RouteStaysByTheTrack says of the route t.
Drawn(t, track) ==
  /\ Softruck!Range(t) \subseteq track
  /\ Softruck!Cardinality(track) > 2 =>
       \A i, j \in DOMAIN t : i < j => t[i].act <= t[j].act
  /\ \A p \in track :
       /\ \E q \in Softruck!Range(t) : q.act <= p.act /\ Softruck!Abs(q.pos - p.pos) < 6
       /\ \E q \in Softruck!Range(t) : p.act <= q.act

\* A route of the pipeline has what Softruck promises of it.
LEMMA RoutePromise == GeomOK => Softruck!RouteStaysByTheTrack
<1> SUFFICES ASSUME GeomOK, pedido = "softruck_geom", estado = "respondido"
             PROVE  Drawn(resposta.rota, {f \in Softruck!Range(entrada) : f.type = "DETAILED"})
  BY DEF Softruck!RouteStaysByTheTrack, Softruck!Answered, Drawn
<1>a. PICK track : track = {f \in Softruck!Range(entrada) : f.type = "DETAILED"}
  OBVIOUS
<1>b. PICK t : t = resposta.rota
  OBVIOUS
<1>1. PICK x \in Seq(Features) : Items(x) = Items(entrada) /\ resposta = Softruck!Pipeline(x)
  BY DEF GeomOK
<1>2. entrada \in Seq(Features)
  BY DEF GeomOK
<1>3. PICK ps : ps = OfType(x, "DETAILED")
  OBVIOUS
<1>4. Softruck!Range(entrada) = Items(entrada)
  BY <1>2, RangeIs
<1>5. ps \in Seq(Pontos) /\ Items(ps) = track
  BY <1>1, <1>3, <1>4, <1>a, PipelineIs, OfTypeIs
<1>6. t = Softruck!Simplificada(ps)
  BY <1>b, <1>1, <1>3, PipelineIs
<1>7. /\ t \in Seq(Pontos) /\ Items(t) \subseteq track
      /\ Cardinality(track) > 2 =>
           \A k, l \in 1..Len(t) : k < l => t[k].act <= t[l].act
      /\ \A p \in track :
           /\ \E q \in Items(t) : q.act <= p.act /\ Softruck!Abs(q.pos - p.pos) < 6
           /\ \E q \in Items(t) : p.act <= q.act
  BY <1>5, <1>6, RouteOf
<1>8. Softruck!Range(t) = Items(t) /\ DOMAIN t = 1..Len(t)
  BY <1>7, RangeIs
<1>9. Drawn(t, track)
  BY ONLY <1>7, <1>8, SameCardinality DEF Drawn
<1> QED
  BY <1>a, <1>b, <1>9

\* So have its alarms.
LEMMA AlarmesPromise == GeomOK => Softruck!AlarmsAreToldOnce
<1> SUFFICES ASSUME GeomOK, pedido = "softruck_geom", estado = "respondido"
             PROVE  Softruck!AlarmsAreToldOnce
  BY DEF Softruck!AlarmsAreToldOnce, Softruck!Answered
<1>1. PICK x \in Seq(Features) : Items(x) = Items(entrada) /\ resposta = Softruck!Pipeline(x)
  BY DEF GeomOK
<1>2. entrada \in Seq(Features)
  BY DEF GeomOK
<1>3. PICK xs : xs = OfType(x, "ALARM")
  OBVIOUS
<1>4. PICK t : t = Softruck!Alarmes(xs)
  OBVIOUS
<1>5. xs \in Seq(Alarmes) /\ Items(xs) = {f \in Items(entrada) : f.type = "ALARM"}
  BY <1>1, <1>3, PipelineIs, OfTypeIs
<1>6. resposta.alarmes = t
  BY <1>1, <1>3, <1>4, PipelineIs
<1>7. /\ t \in Seq(Alarmes)
      /\ \A k \in 1..Len(t) : Softruck!Classificado(t[k])
      /\ \A k, l \in 1..Len(t) : k # l => ~Softruck!Repete(t[k], t[l])
      /\ \A i \in 1..Len(xs) :
           Softruck!Classificado(xs[i]) =>
             \E k \in 1..Len(t) : Softruck!Repete(t[k], xs[i])
  BY <1>4, <1>5, AlarmesKeep
<1>8. /\ Softruck!Range(t) = Items(t) /\ Softruck!Range(entrada) = Items(entrada)
      /\ DOMAIN t = 1..Len(t)
  BY <1>2, <1>7, RangeIs
<1>9. ASSUME NEW f \in Items(entrada), f.type = "ALARM"
      PROVE  IF f.tag = "accelerometer" \/ Softruck!Tipo(f) = "UNKNOWN"
             THEN f \notin Items(t) ELSE \E a \in Items(t) : Softruck!Repete(a, f)
  <2>1. PICK i \in 1..Len(xs) : xs[i] = f
    BY <1>5, <1>9 DEF Items
  <2>2. Softruck!Classificado(f) <=> ~(f.tag = "accelerometer" \/ Softruck!Tipo(f) = "UNKNOWN")
    BY DEF Softruck!Classificado
  <2>3. CASE Softruck!Classificado(f)
    BY <1>7, <2>1, <2>2, <2>3 DEF Items
  <2>4. CASE ~Softruck!Classificado(f)
    BY <1>7, <2>2, <2>4 DEF Items
  <2> QED
    BY <2>3, <2>4
<1> QED
  BY <1>6, <1>7, <1>8, <1>9 DEF Softruck!AlarmsAreToldOnce

\* Nothing is given or answered at first.
LEMMA HistoriesInit == MCInit => RotasOK /\ GeomOK
<1> SUFFICES ASSUME MCInit PROVE RotasOK /\ GeomOK
  OBVIOUS
<1>1. /\ pedido = "rotas" => entrada = <<>> /\ estado = "aberto"
      /\ pedido = "softruck_geom" => entrada = <<>> /\ estado = "aberto"
  BY DEF MCInit, M7!Init, M7!Pedidos, Logica!Init, Logica!Pedidos, Softruck!Init
<1>2. \A A : <<>> \in Seq(A)
  OBVIOUS
<1>3. InOrder(<<>>)
  BY DEF InOrder
<1> QED
  BY <1>1, <1>2, <1>3 DEF RotasOK, GeomOK

\* RoutesKeepTheTrack, for any bounds and any number of points: the route of M7 keeps a
\* point near every point, the simplified one of Softruck too, from the first to the last,
\* and both in order.
THEOREM RoutesKeepTheTrackHolds == MCSpec => []RoutesKeepTheTrack
<1>1. RotasOK /\ GeomOK => RoutesKeepTheTrack
  BY RotasPromise, RoutePromise DEF RoutesKeepTheTrack
<1> QED
  BY <1>1, HistoriesInit, RotasNext, GeomNext, PTL DEF MCSpec

\* AlarmsAreToldOnce, for any bounds and any number of alarms.
THEOREM AlarmsAreToldOnceHolds == MCSpec => []AlarmsAreToldOnce
<1>1. GeomOK => AlarmsAreToldOnce
  BY AlarmesPromise DEF AlarmsAreToldOnce
<1>2. MCInit => GeomOK
  BY HistoriesInit
<1> QED
  BY <1>1, <1>2, GeomNext, PTL DEF MCSpec

-----------------------------------------------------------------------------
(* The timeline of Logica.                                                 *)

Registros == [parada : BOOLEAN, ts : Int, pos : Int, ignicao : {"", "LIGADA", "DESLIGADA"}]

\* SeqParts is one module for the history of Logica too.
LEMMA SamePartsLogica ==
  /\ \A s, is : Logica!Those(s, is) = Those(s, is)
  /\ \A s, key : Logica!Sorted(s, key) = Sorted(s, key)
  /\ \A f, m : Logica!SumOf(f, m) = SumOf(f, m)
  /\ \A s : Logica!Range(s) = {s[x] : x \in DOMAIN s}
<1>1. \A s, is : Logica!Those(s, is) = Those(s, is)
  BY ONLY Zenon DEF Logica!Those, Those
<1>2. \A s, key : Logica!Sorted(s, key) = Sorted(s, key)
  BY ONLY Zenon DEF Logica!Sorted, Sorted, Logica!Ranked, Ranked
<1>3. \A f, m : Logica!SumOf(f, m) = SumOf(f, m)
  BY ONLY Zenon DEF Logica!SumOf, SumOf
<1>4. \A s : Logica!Range(s) = {s[x] : x \in DOMAIN s}
  BY ONLY Zenon DEF Logica!Range
<1> QED
  BY <1>1, <1>2, <1>3, <1>4

\* The records without the second ones of an instant and a place.
LEMMA UnicosAre ==
  ASSUME NEW rs \in Seq(Registros)
  PROVE  LET us == Logica!Unicos(rs) IN
         /\ us \in Seq(Registros)
         /\ \A k \in 1..Len(us) : us[k] \in Items(rs)
         /\ \A k, l \in 1..Len(us) : k # l => <<us[k].ts, us[k].pos>> # <<us[l].ts, us[l].pos>>
<1> DEFINE key(i) == <<rs[i].ts, rs[i].pos>>
           first  == {i \in DOMAIN rs : \A j \in 1..i - 1 : key(j) # key(i)}
<1>1. PICK us, is : us = Logica!Unicos(rs) /\ is = first
  OBVIOUS
<1>2. us = Those(rs, is)
  BY <1>1, SamePartsLogica DEF Logica!Unicos
<1>3. PICK r : us \in Seq(Registros) /\ IsPart(r, us, rs, is)
  BY <1>2, ThosePart
<1>4. ASSUME NEW k \in 1..Len(us) PROVE us[k] = rs[r[k]] /\ r[k] \in is /\ r[k] \in 1..Len(rs)
  BY <1>3 DEF IsPart
<1>5. \A i \in is : i \in 1..Len(rs) /\ \A j \in 1..i - 1 : key(j) # key(i)
  BY <1>1
<1>6. ASSUME NEW k \in 1..Len(us), NEW l \in 1..Len(us), k < l
      PROVE  <<us[k].ts, us[k].pos>> # <<us[l].ts, us[l].pos>>
  <2>1. r[k] < r[l] /\ r[k] \in 1..Len(rs) /\ r[l] \in 1..Len(rs) /\ r[l] \in is
    BY <1>3, <1>4, <1>6 DEF IsPart
  <2>2. r[k] \in 1..r[l] - 1
    BY <2>1
  <2>3. key(r[k]) # key(r[l])
    BY <1>5, <2>1, <2>2
  <2> QED
    BY <1>4, <2>3
<1>7. \A k, l \in 1..Len(us) : k # l => <<us[k].ts, us[k].pos>> # <<us[l].ts, us[l].pos>>
  <2> SUFFICES ASSUME NEW k \in 1..Len(us), NEW l \in 1..Len(us), k # l
               PROVE  <<us[k].ts, us[k].pos>> # <<us[l].ts, us[l].pos>>
    OBVIOUS
  <2>1. CASE k < l
    BY <1>6, <2>1
  <2>2. CASE l < k
    BY <1>6, <2>2
  <2> QED
    BY <2>1, <2>2
<1>8. \A k \in 1..Len(us) : us[k] \in Items(rs)
  BY <1>4 DEF Items
<1> QED
  BY <1>1, <1>3, <1>7, <1>8

\* The records by their instants.
LEMMA PorOrdemIs ==
  ASSUME NEW rs \in Seq(Registros)
  PROVE  LET s == Logica!PorOrdem(rs) IN
         /\ s \in Seq(Registros) /\ Items(s) = Items(rs) /\ Len(s) = Len(rs)
         /\ \A i, j \in 1..Len(s) : i < j => Logica!Ordem(s[i]) <= Logica!Ordem(s[j])
         /\ \E r \in [1..Len(rs) -> 1..Len(rs)] :
              /\ \A i, j \in 1..Len(rs) : r[i] = r[j] => i = j
              /\ \A i \in 1..Len(rs) : s[i] = rs[r[i]]
<1>1. PICK key : key = [i \in DOMAIN rs |-> Logica!Ordem(rs[i])]
  OBVIOUS
<1>2. ASSUME NEW i \in 1..Len(rs) PROVE key[i] = Logica!Ordem(rs[i]) /\ key[i] \in Int
  <2>1. i \in DOMAIN rs /\ rs[i] \in Registros
    OBVIOUS
  <2>2. key[i] = Logica!Ordem(rs[i])
    BY <1>1, <2>1
  <2>3. rs[i].ts \in Int
    BY <2>1 DEF Registros
  <2>4. Meianoite \in Int
    BY HistoriesAssumption
  <2> QED
    BY <2>2, <2>3, <2>4 DEF Logica!Ordem
<1>3. PICK s : s = Sorted(rs, key)
  OBVIOUS
<1>4. Logica!PorOrdem(rs) = s
  BY <1>1, <1>3, SamePartsLogica DEF Logica!PorOrdem
<1>5. PICK r : /\ s \in Seq(Registros) /\ Len(s) = Len(rs)
               /\ IsRank(r, Len(rs), key) /\ \A i \in 1..Len(rs) : s[i] = rs[r[i]]
  BY <1>2, <1>3, SortedIs
<1>6. /\ r \in [1..Len(rs) -> 1..Len(rs)]
      /\ \A j \in 1..Len(rs) : \E i \in 1..Len(rs) : r[i] = j
      /\ \A i, k \in 1..Len(rs) : i < k => key[r[i]] <= key[r[k]]
  BY <1>5 DEF IsRank
<1>7. \A i, j \in 1..Len(rs) : r[i] = r[j] => i = j
  <2>1. Len(rs) \in Nat
    OBVIOUS
  <2> QED
    BY <1>5, <2>1, RankInjective
<1>8. Items(s) = Items(rs)
  <2>1. \A i \in 1..Len(rs) : r[i] \in 1..Len(rs)
    BY <1>6
  <2>2. Items(s) \subseteq Items(rs)
    BY <1>5, <2>1 DEF Items
  <2>3. Items(rs) \subseteq Items(s)
    <3> SUFFICES ASSUME NEW j \in 1..Len(rs) PROVE rs[j] \in Items(s)
      BY DEF Items
    <3>1. PICK i \in 1..Len(rs) : r[i] = j
      BY <1>6
    <3>2. s[i] = rs[j] /\ i \in 1..Len(s)
      BY <1>5, <3>1
    <3> QED
      BY <3>2 DEF Items
  <2> QED
    BY <2>2, <2>3
<1>9. ASSUME NEW i \in 1..Len(s), NEW j \in 1..Len(s), i < j
      PROVE  Logica!Ordem(s[i]) <= Logica!Ordem(s[j])
  <2>1. r[i] \in 1..Len(rs) /\ r[j] \in 1..Len(rs) /\ key[r[i]] <= key[r[j]]
    BY <1>5, <1>6, <1>9
  <2>2. Logica!Ordem(s[i]) = key[r[i]] /\ Logica!Ordem(s[j]) = key[r[j]]
    BY <1>2, <1>5, <2>1
  <2> QED
    BY <2>1, <2>2
<1> QED
  BY <1>4, <1>5, <1>6, <1>7, <1>8, <1>9

\* A greatest number of a set is the one that Max chooses.
LEMMA MaxIs ==
  ASSUME NEW S, S \subseteq Int, NEW m \in S, \A k \in S : k <= m
  PROVE  Logica!Max(S) = m
<1>1. \A k \in S : m >= k
  OBVIOUS
<1>2. \A x \in S : (\A k \in S : x >= k) => x = m
  OBVIOUS
<1> QED
  BY <1>1, <1>2 DEF Logica!Max

\* A record with the ignition that the last one up to it told, none if none did.
LEMMA PreenchidaIs ==
  ASSUME NEW s \in Seq(Registros)
  PROVE  LET t == Logica!Preenchida(s) IN
         /\ t \in Seq(Registros) /\ Len(t) = Len(s)
         /\ \A i \in 1..Len(s) :
              /\ t[i].ts = s[i].ts /\ t[i].pos = s[i].pos
              /\ \/ t[i].ignicao = "" /\ \A j \in 1..i : s[j].ignicao = ""
                 \/ \E m \in 1..i : /\ s[m].ignicao # "" /\ t[i].ignicao = s[m].ignicao
                                    /\ \A j \in 1..i : s[j].ignicao # "" => j <= m
<1>1. PICK t : t = Logica!Preenchida(s)
  OBVIOUS
<1>2. ASSUME NEW i \in 1..Len(s)
      PROVE  /\ t[i] \in Registros
             /\ t[i].ts = s[i].ts /\ t[i].pos = s[i].pos
             /\ \/ t[i].ignicao = "" /\ \A j \in 1..i : s[j].ignicao = ""
                \/ \E m \in 1..i : /\ s[m].ignicao # "" /\ t[i].ignicao = s[m].ignicao
                                   /\ \A j \in 1..i : s[j].ignicao # "" => j <= m
  <2>1. PICK told : told = {j \in 1..i : s[j].ignicao # ""}
    OBVIOUS
  <2>a. i \in DOMAIN s
    OBVIOUS
  <2>2. t[i] = IF told = {} THEN s[i]
               ELSE [s[i] EXCEPT !.ignicao = s[Logica!Max(told)].ignicao]
    BY <1>1, <2>1, <2>a, Zenon DEF Logica!Preenchida
  <2>3. s[i] \in Registros /\ \A j \in 1..i : j \in 1..Len(s)
    OBVIOUS
  <2>4. CASE told = {}
    <3>1. \A j \in 1..i : s[j].ignicao = ""
      BY <2>1, <2>4
    <3>2. i \in 1..i
      OBVIOUS
    <3> QED
      BY <2>2, <2>3, <2>4, <3>1, <3>2
  <2>5. CASE told # {}
    <3>1. PICK n \in told : TRUE
      BY <2>5
    <3>b. i \in Nat /\ 1..i \subseteq 0..i
      OBVIOUS
    <3>2. i \in Nat /\ told \subseteq 0..i
      BY <2>1, <3>b
    <3>3. PICK m \in told : \A k \in told : k <= m
      BY <3>1, <3>2, Greatest
    <3>a. told \subseteq Int
      BY <3>2
    <3>4. Logica!Max(told) = m
      BY <3>3, <3>a, MaxIs
    <3>5. m \in 1..i /\ s[m].ignicao # ""
      BY <2>1
    <3>c. s[m] \in Registros
      <4>1. m \in 1..Len(s)
        BY <2>3, <3>5
      <4> QED
        BY <4>1
    <3>6. t[i] = [s[i] EXCEPT !.ignicao = s[m].ignicao] /\ s[m] \in Registros
      BY ONLY <2>2, <2>5, <3>4, <3>c
    <3>7. t[i] \in Registros /\ t[i].ts = s[i].ts /\ t[i].pos = s[i].pos
          /\ t[i].ignicao = s[m].ignicao
      BY <2>3, <3>6 DEF Registros
    <3>8. \A j \in 1..i : s[j].ignicao # "" => j <= m
      BY <2>1, <3>3
    <3> QED
      BY <3>5, <3>7, <3>8
  <2> QED
    BY <2>4, <2>5
<1>3. \E g : t = [i \in DOMAIN s |-> g[i]]
  <2> DEFINE g == [i \in DOMAIN s |->
                     LET told == {j \in 1..i : s[j].ignicao # ""}
                     IN  IF told = {} THEN s[i]
                         ELSE [s[i] EXCEPT !.ignicao = s[Logica!Max(told)].ignicao]]
  <2>1. t = g
    BY <1>1 DEF Logica!Preenchida
  <2>2. g = [i \in DOMAIN s |-> g[i]]
    BY Zenon
  <2> HIDE DEF g
  <2> QED
    BY <2>1, <2>2
<1>4. t \in Seq(Registros) /\ Len(t) = Len(s)
  <2>1. DOMAIN s = 1..Len(s) /\ Len(s) \in Nat
    OBVIOUS
  <2>2. DOMAIN t = 1..Len(s) /\ t = [i \in 1..Len(s) |-> t[i]]
    BY <1>3, <2>1
  <2>3. \A i \in 1..Len(s) : t[i] \in Registros
    BY <1>2
  <2> QED
    BY ONLY <2>1, <2>2, <2>3
<1> QED
  BY <1>1, <1>2, <1>4

\* The request for the PDF: Logica gives records, and the answer is their timeline.
PdfOK ==
  pedido = "logica_pdf" =>
    /\ entrada \in Seq(Registros)
    /\ estado = "respondido" => resposta = Logica!LinhaDoTempo(Logica!Registros(entrada))

\* A record of Logica is one of the model.
LEMMA RegistroIs ==
  ASSUME NEW p \in BOOLEAN, NEW t, t \in {Logica!None, 1, 2}, NEW x, x \in {0, 1},
         NEW ig, ig \in {"", "LIGADA", "DESLIGADA"}
  PROVE  [parada |-> p, ts |-> t, pos |-> x, ignicao |-> ig] \in Registros
<1>1. t \in Int
  BY ONLY t \in {Logica!None, 1, 2} DEF Logica!None
<1>2. x \in Int
  BY ONLY x \in {0, 1}
<1> QED
  BY <1>1, <1>2 DEF Registros

\* Logica gives records, and the answer is their timeline.
LEMMA PdfNext == PdfOK /\ [MCNext]_MCvars => PdfOK'
<1> SUFFICES ASSUME PdfOK, [MCNext]_MCvars, pedido' = "logica_pdf"
             PROVE  /\ entrada' \in Seq(Registros)
                    /\ estado' = "respondido" =>
                         resposta' = Logica!LinhaDoTempo(Logica!Registros(entrada'))
  BY DEF PdfOK, Logica!LinhaDoTempo, Logica!Registros
<1>1. /\ pedido = "logica_pdf"
      /\ \/ \E p \in BOOLEAN, ts \in {Logica!None, 1, 2}, pos \in {0, 1},
              ig \in {"", "LIGADA", "DESLIGADA"} : Logica!Registro(p, ts, pos, ig)
         \/ Logica!AnswerPdf
         \/ estado' = "erro" /\ UNCHANGED <<pedido, entrada, resposta>>
         \/ UNCHANGED <<pedido, entrada, estado, resposta>>
  BY DEF MCNext, MCvars, OfHistory, OfReport, historyVars,
     M7!Ponto, M7!PontoDaRota, M7!Trajeto, M7!Receive, M7!Answer, M7!AnswerError,
     Logica!Posicao, Logica!Registro, Logica!Receive, Logica!Answer, Logica!AnswerFallback,
     Logica!AnswerPdf, Logica!AnswerError, Softruck!ByKeys, Softruck!Geom, Softruck!Answer,
     Softruck!AnswerError, Softruck!Ponto, Softruck!Alarme, Softruck!Feature,
     Softruck!AnswerGeom, Softruck!Open, M7!Pedidos, Logica!Pedidos
<1>2. /\ entrada \in Seq(Registros)
      /\ estado = "respondido" => resposta = Logica!LinhaDoTempo(Logica!Registros(entrada))
  BY <1>1 DEF PdfOK
<1>3. CASE \E p \in BOOLEAN, ts \in {Logica!None, 1, 2}, pos \in {0, 1},
             ig \in {"", "LIGADA", "DESLIGADA"} : Logica!Registro(p, ts, pos, ig)
  <2>1. PICK p \in BOOLEAN, ts \in {Logica!None, 1, 2}, pos \in {0, 1},
             ig \in {"", "LIGADA", "DESLIGADA"} : Logica!Registro(p, ts, pos, ig)
    BY <1>3
  <2>2. PICK r : r = [parada |-> p, ts |-> ts, pos |-> pos, ignicao |-> ig]
    OBVIOUS
  <2>3. r \in Registros
    BY <2>2, RegistroIs
  <2>4. entrada' = Append(entrada, r) /\ estado = "aberto" /\ estado' = estado
    BY <2>1, <2>2 DEF Logica!Registro, Logica!Receive
  <2> QED
    BY <1>2, <2>3, <2>4, AppendItems
<1>4. CASE Logica!AnswerPdf
  BY <1>2, <1>4 DEF Logica!AnswerPdf
<1>5. CASE estado' = "erro" /\ UNCHANGED <<pedido, entrada, resposta>>
  BY <1>2, <1>5
<1>6. CASE UNCHANGED <<pedido, entrada, estado, resposta>>
  BY <1>2, <1>6
<1> QED
  BY <1>1, <1>3, <1>4, <1>5, <1>6

\* The positions and the stops are the records.
LEMMA RegistrosAre ==
  ASSUME NEW xs \in Seq(Registros)
  PROVE  LET rs == Logica!Registros(xs) IN rs \in Seq(Registros) /\ Items(rs) = Items(xs)
<1> DEFINE no  == {i \in DOMAIN xs : ~xs[i].parada}
           yes == {i \in DOMAIN xs : xs[i].parada}
<1>1. PICK s, t : s = Those(xs, no) /\ t = Those(xs, yes)
  OBVIOUS
<1>2. Logica!Registros(xs) = s \o t
  BY <1>1, SamePartsLogica DEF Logica!Registros
<1>3. /\ s \in Seq(Registros) /\ ArePart(s, xs, no)
      /\ t \in Seq(Registros) /\ ArePart(t, xs, yes)
  BY <1>1, ThoseAre
<1>a. Len(s) \in Nat /\ Len(t) \in Nat
  BY <1>3
<1>b. PICK u : u = s \o t
  OBVIOUS
<1>4. PICK k \in Nat, m \in Nat : k = Len(s) /\ m = Len(t) /\ u = s \o t
  BY <1>a, <1>b, Zenon
<1>5. /\ u \in Seq(Registros) /\ Len(u) = k + m
      /\ \A n \in 1..k : u[n] = s[n]
      /\ \A n \in 1..m : u[k + n] = t[n]
  BY <1>3, <1>4
<1>6. ASSUME NEW n \in 1..k + m PROVE u[n] \in Items(xs)
  <2>1. CASE n \in 1..k
    BY <1>3, <1>4, <1>5, <2>1 DEF ArePart, Items
  <2>2. CASE n \notin 1..k
    <3>1. n - k \in 1..m /\ n = k + (n - k)
      BY <2>2
    <3>2. u[n] = t[n - k]
      BY <1>5, <3>1
    <3> QED
      BY <1>3, <1>4, <3>1, <3>2 DEF ArePart, Items
  <2> QED
    BY <2>1, <2>2
<1>7. ASSUME NEW i \in 1..Len(xs) PROVE xs[i] \in Items(u)
  <2>0. i \in DOMAIN xs
    OBVIOUS
  <2>1. CASE i \in no
    <3>1. PICK n \in 1..k : s[n] = xs[i]
      BY <1>3, <1>4, <2>1 DEF ArePart
    <3>2. n \in 1..Len(u) /\ u[n] = xs[i]
      BY <1>5, <3>1
    <3> QED
      BY <3>2 DEF Items
  <2>2. CASE i \in yes
    <3>1. PICK n \in 1..m : t[n] = xs[i]
      BY <1>3, <1>4, <2>2 DEF ArePart
    <3>2. k + n \in 1..Len(u) /\ u[k + n] = xs[i]
      BY <1>5, <3>1
    <3> QED
      BY <3>2 DEF Items
  <2> QED
    BY <2>0, <2>1, <2>2
<1>8. Items(u) = Items(xs)
  BY <1>5, <1>6, <1>7 DEF Items
<1> QED
  BY <1>2, <1>4, <1>5, <1>8

\* What TimelineCarriesIgnition says of the record x, where kept told their ignition.
Carries(x, kept) ==
  LET before == {k \in kept : Logica!Ordem(k) < Logica!Ordem(x)}
      last   == {k \in before : \A l \in before : Logica!Ordem(l) <= Logica!Ordem(k)}
      now    == {k \in kept : Logica!Ordem(k) = Logica!Ordem(x)}
  IN  x.ignicao \in {k.ignicao : k \in now \cup last}
                      \cup (IF before = {} THEN {""} ELSE {})

\* kept are those of ss that tell their ignition.
Keeps(kept, ss) ==
  /\ \A j \in 1..Len(ss) : ss[j].ignicao # "" => ss[j] \in kept
  /\ \A k \in kept : \E j \in 1..Len(ss) : k = ss[j] /\ ss[j].ignicao # ""

\* o has the instants of ss, which are in order.
Instants(o, ss) ==
  /\ o \in [1..Len(ss) -> Int]
  /\ \A j \in 1..Len(ss) : Logica!Ordem(ss[j]) = o[j]
  /\ \A j, k \in 1..Len(ss) : j < k => o[j] <= o[k]

\* m is the last of ss up to i that tells its ignition, and x has it.
FromLast(x, ss, i, m) ==
  /\ ss[m].ignicao # "" /\ x.ignicao = ss[m].ignicao
  /\ \A j \in 1..i : ss[j].ignicao # "" => j <= m

\* None of ss up to i tells its ignition, and x has none.
FromNone(x, ss, i) == x.ignicao = "" /\ \A j \in 1..i : ss[j].ignicao = ""

\* Of records in order, the last one up to i that told its ignition carries it to i.
LEMMA LastCarries ==
  ASSUME NEW ss \in Seq(Registros), NEW o, Instants(o, ss), NEW kept, Keeps(kept, ss),
         NEW i \in 1..Len(ss), NEW x, Logica!Ordem(x) = o[i],
         FromNone(x, ss, i) \/ \E m \in 1..i : FromLast(x, ss, i, m)
  PROVE  Carries(x, kept)
<1>1. PICK before : before = {k \in kept : Logica!Ordem(k) < Logica!Ordem(x)}
  OBVIOUS
<1>2. PICK last : last = {k \in before : \A l \in before : Logica!Ordem(l) <= Logica!Ordem(k)}
  OBVIOUS
<1>3. PICK now : now = {k \in kept : Logica!Ordem(k) = Logica!Ordem(x)}
  OBVIOUS
<1>4. \A j, k \in 1..Len(ss) : j <= k => o[j] <= o[k] /\ o[j] \in Int /\ o[k] \in Int
  <2> SUFFICES ASSUME NEW j \in 1..Len(ss), NEW k \in 1..Len(ss), j <= k
               PROVE  o[j] <= o[k] /\ o[j] \in Int /\ o[k] \in Int
    OBVIOUS
  <2>1. o[j] \in Int /\ o[k] \in Int /\ (j < k => o[j] <= o[k])
    BY DEF Instants
  <2> QED
    BY <2>1
<1>5. ASSUME NEW k \in before
      PROVE  \E j \in 1..i : k = ss[j] /\ ss[j].ignicao # "" /\ Logica!Ordem(k) = o[j]
  <2>1. k \in kept /\ Logica!Ordem(k) < o[i]
    BY ONLY Logica!Ordem(x) = o[i], k \in before, <1>1
  <2>2. PICK j \in 1..Len(ss) : k = ss[j] /\ ss[j].ignicao # ""
    BY <2>1 DEF Keeps
  <2>3. Logica!Ordem(k) = o[j] /\ o[j] \in Int /\ o[i] \in Int
    BY <2>2 DEF Instants
  <2>4. i < j => o[i] <= o[j]
    BY DEF Instants
  <2>5. j \in 1..i
    BY ONLY <2>1, <2>3, <2>4, j \in 1..Len(ss), i \in 1..Len(ss)
  <2> QED
    BY <2>2, <2>3, <2>5
<1>6. CASE FromNone(x, ss, i)
  <2>1. before = {}
    BY ONLY <1>5, <1>6 DEF FromNone
  <2>2. x.ignicao = ""
    BY <1>6 DEF FromNone
  <2> QED
    BY ONLY <1>1, <2>1, <2>2 DEF Carries
<1>7. CASE \E m \in 1..i : FromLast(x, ss, i, m)
  <2>1. PICK m \in 1..i : FromLast(x, ss, i, m)
    BY <1>7
  <2>2. m \in 1..Len(ss) /\ m <= i
    OBVIOUS
  <2>3. ss[m] \in kept /\ Logica!Ordem(ss[m]) = o[m] /\ x.ignicao = ss[m].ignicao
    BY <2>1, <2>2 DEF FromLast, Keeps, Instants
  <2>4. o[m] <= o[i] /\ o[m] \in Int /\ o[i] \in Int
    BY <1>4, <2>2
  <2>5. ASSUME NEW l \in before PROVE Logica!Ordem(l) <= o[m]
    <3>1. PICK j \in 1..i : l = ss[j] /\ ss[j].ignicao # "" /\ Logica!Ordem(l) = o[j]
      BY <1>5
    <3>2. j <= m
      BY <2>1, <3>1 DEF FromLast
    <3>3. j \in 1..Len(ss)
      OBVIOUS
    <3> QED
      BY <1>4, <2>2, <3>1, <3>2, <3>3
  <2>6. ss[m] \in now \cup last
    <3>1. CASE o[m] = o[i]
      BY ONLY Logica!Ordem(x) = o[i], <1>3, <2>3, <3>1
    <3>2. CASE o[m] # o[i]
      <4>1. o[m] < o[i]
        BY ONLY <2>4, <3>2
      <4>2. ss[m] \in before
        BY ONLY Logica!Ordem(x) = o[i], <1>1, <2>3, <4>1
      <4> QED
        BY ONLY <1>2, <2>3, <2>5, <4>2
    <3> QED
      BY <3>1, <3>2
  <2>7. x.ignicao \in {k.ignicao : k \in now \cup last}
    BY ONLY <2>3, <2>6
  <2> QED
    BY ONLY <1>1, <1>2, <1>3, <2>7 DEF Carries
<1> QED
  BY <1>6, <1>7

\* A timeline of records has what the PDF promises of it.
LEMMA TimelinePromise == PdfOK => TimelineCarriesIgnition
<1> SUFFICES ASSUME PdfOK, pedido = "logica_pdf", estado = "respondido"
             PROVE  TimelineCarriesIgnition
  BY DEF TimelineCarriesIgnition, Logica!TimelineCarriesIgnition, Logica!Answered
<1>1. PICK rs, us, ss, ts : /\ rs = Logica!Registros(entrada) /\ us = Logica!Unicos(rs)
                            /\ ss = Logica!PorOrdem(us) /\ ts = Logica!Preenchida(ss)
  OBVIOUS
<1>2. entrada \in Seq(Registros) /\ resposta = ts
  BY <1>1 DEF PdfOK, Logica!LinhaDoTempo
<1>3. rs \in Seq(Registros) /\ Items(rs) = Items(entrada)
  BY <1>1, <1>2, RegistrosAre
<1>4. /\ us \in Seq(Registros)
      /\ \A k \in 1..Len(us) : us[k] \in Items(rs)
      /\ \A k, l \in 1..Len(us) : k # l => <<us[k].ts, us[k].pos>> # <<us[l].ts, us[l].pos>>
  BY <1>1, <1>3, UnicosAre
<1>5. PICK r \in [1..Len(us) -> 1..Len(us)] :
        /\ ss \in Seq(Registros) /\ Items(ss) = Items(us) /\ Len(ss) = Len(us)
        /\ \A i, j \in 1..Len(ss) : i < j => Logica!Ordem(ss[i]) <= Logica!Ordem(ss[j])
        /\ \A i, j \in 1..Len(us) : r[i] = r[j] => i = j
        /\ \A i \in 1..Len(us) : ss[i] = us[r[i]]
  BY <1>1, <1>4, PorOrdemIs
<1>6. /\ ts \in Seq(Registros) /\ Len(ts) = Len(ss)
      /\ \A i \in 1..Len(ss) : ts[i].ts = ss[i].ts /\ ts[i].pos = ss[i].pos
  <2>1. ss \in Seq(Registros)
    BY ONLY <1>5
  <2> QED
    BY ONLY <1>1, <2>1, PreenchidaIs
<1>7. /\ Logica!Range(entrada) = Items(entrada) /\ Logica!Range(us) = Items(us)
      /\ Logica!Range(ts) = Items(ts)
  BY <1>2, <1>4, <1>6, SamePartsLogica DEF Items
<1>8. PICK kept : /\ kept = {k \in Logica!Range(entrada) : k.ignicao # ""} \cap Logica!Range(us)
  OBVIOUS
<1>9. Keeps(kept, ss)
  <2>1. \A j \in 1..Len(ss) : ss[j] \in Items(us)
    BY <1>5 DEF Items
  <2>2. Items(us) \subseteq Items(entrada)
    BY <1>3, <1>4 DEF Items
  <2>3. \A k \in Items(us) : \E j \in 1..Len(ss) : k = ss[j]
    BY <1>5 DEF Items
  <2>4. \A k : k \in kept <=> k \in Items(entrada) /\ k \in Items(us) /\ k.ignicao # ""
    BY ONLY <1>7, <1>8
  <2>5. ASSUME NEW j \in 1..Len(ss), ss[j].ignicao # "" PROVE ss[j] \in kept
    <3>1. ss[j] \in Items(us) /\ ss[j] \in Items(entrada)
      BY ONLY <2>1, <2>2
    <3> QED
      BY ONLY <2>4, <2>5, <3>1
  <2>6. ASSUME NEW k \in kept PROVE \E j \in 1..Len(ss) : k = ss[j] /\ ss[j].ignicao # ""
    <3>1. k \in Items(us) /\ k.ignicao # ""
      BY ONLY <2>4, <2>6
    <3>2. PICK j \in 1..Len(ss) : k = ss[j]
      BY ONLY <2>3, <3>1
    <3> QED
      BY ONLY <3>1, <3>2
  <2> QED
    BY ONLY <2>5, <2>6 DEF Keeps
<1>10. ASSUME NEW i \in DOMAIN ts, NEW j \in DOMAIN ts, i < j
       PROVE  /\ Logica!Ordem(ts[i]) <= Logica!Ordem(ts[j])
              /\ <<ts[i].ts, ts[i].pos>> # <<ts[j].ts, ts[j].pos>>
  <2>1. i \in 1..Len(ss) /\ j \in 1..Len(ss)
    BY <1>6
  <2>2. Logica!Ordem(ts[i]) = Logica!Ordem(ss[i]) /\ Logica!Ordem(ts[j]) = Logica!Ordem(ss[j])
    BY <1>6, <2>1 DEF Logica!Ordem
  <2>3. r[i] # r[j] /\ r[i] \in 1..Len(us) /\ r[j] \in 1..Len(us)
    BY <1>5, <1>10, <2>1
  <2>4. <<ss[i].ts, ss[i].pos>> # <<ss[j].ts, ss[j].pos>>
    BY <1>4, <1>5, <2>1, <2>3
  <2> QED
    BY <1>5, <1>6, <1>10, <2>1, <2>2, <2>4
<1>11. PICK o : o = [j \in 1..Len(ss) |-> Logica!Ordem(ss[j])]
  OBVIOUS
<1>12. ASSUME NEW j \in 1..Len(ss) PROVE o[j] = Logica!Ordem(ss[j]) /\ o[j] \in Int
  <2>1. ss[j] \in Registros
    BY <1>5
  <2>2. ss[j].ts \in Int
    BY <2>1 DEF Registros
  <2>3. Meianoite \in Int
    BY HistoriesAssumption
  <2> QED
    BY <1>11, <2>2, <2>3 DEF Logica!Ordem
<1>13. ASSUME NEW x \in Items(ts) PROVE Carries(x, kept)
  <2>1. PICK i \in 1..Len(ss) : x = ts[i]
    BY <1>6 DEF Items
  <2>2. Logica!Ordem(x) = o[i]
    BY <1>6, <1>12, <2>1 DEF Logica!Ordem
  <2>3. FromNone(x, ss, i) \/ \E m \in 1..i : FromLast(x, ss, i, m)
    BY <1>1, <1>5, <2>1, PreenchidaIs DEF FromNone, FromLast
  <2>4. Instants(o, ss)
    <3>1. o \in [1..Len(ss) -> Int]
      BY <1>11, <1>12
    <3> QED
      BY <1>5, <1>12, <3>1 DEF Instants
  <2>5. ss \in Seq(Registros)
    BY <1>5
  <2> QED
    BY <1>9, <2>2, <2>3, <2>4, <2>5, LastCarries
<1>14. resposta = ts /\ Logica!Unicos(Logica!Registros(entrada)) = us
  BY <1>1, <1>2
<1>15. Logica!TimelineCarriesIgnition
  BY ONLY <1>7, <1>8, <1>10, <1>13, <1>14 DEF Logica!TimelineCarriesIgnition, Carries
<1> QED
  BY <1>15 DEF TimelineCarriesIgnition

\* TimelineCarriesIgnition, for any bounds and any number of records: what is kept of
\* each instant is in order, and the ignition told last before a record is the one it
\* has.
THEOREM TimelineCarriesIgnitionHolds == MCSpec => []TimelineCarriesIgnition
<1>1. MCInit => PdfOK
  <2> SUFFICES ASSUME MCInit, pedido = "logica_pdf" PROVE entrada = <<>> /\ estado = "aberto"
    BY DEF PdfOK
  <2> QED
    BY DEF MCInit, M7!Init, M7!Pedidos, Logica!Init, Logica!Pedidos, Softruck!Init
<1> QED
  BY <1>1, PdfNext, TimelinePromise, PTL DEF MCSpec

-----------------------------------------------------------------------------
(* The views of a period of Softruck.                                      *)

Segs == [inicio : Int, dis : Nat, dur : Nat]

Inicio == [s \in Segs |-> s.inicio]
Metros == [s \in Segs |-> s.dis]

\* SeqParts is one module for the history of Softruck, FlattenSeq the community module's.
LEMMA SamePartsSoftruck ==
  /\ \A f, m : Softruck!SumOf(f, m) = SumOf(f, m)
  /\ \A ss : Softruck!FlattenSeq(ss) = Logica!FlattenSeq(ss)
<1>1. \A f, m : Softruck!SumOf(f, m) = SumOf(f, m)
  BY ONLY Zenon DEF Softruck!SumOf, SumOf
<1>2. \A ss : Softruck!FlattenSeq(ss) = Logica!FlattenSeq(ss)
  BY ONLY Zenon DEF Softruck!FlattenSeq, Logica!FlattenSeq
<1> QED
  BY <1>1, <1>2

\* FlattenSeq puts one sequence after the other.
LEMMA FlattenSteps ==
  ASSUME NEW A, NEW ss \in Seq(Seq(A))
  PROVE  \E g : JoinRun(g, A, ss) /\ Logica!FlattenSeq(ss) = g[Len(ss)]
<1> DEFINE S == Seq(A)
           step == [n \in 1..Len(ss) |-> [t \in S |-> t \o ss[n]]]
           Body(f) == [i \in 1..Len(ss) |-> IF i = 1 THEN ss[i] ELSE f[i - 1] \o ss[i]]
           flatten == CHOOSE f : f = Body(f)
<1>0. Len(ss) \in Nat /\ <<>> \in S /\ \A n \in 1..Len(ss) : ss[n] \in S
  OBVIOUS
<1>1. step \in Steps(Len(ss), S)
  <2>1. ASSUME NEW n \in 1..Len(ss), NEW t \in S PROVE t \o ss[n] \in S
    <3>1. ss[n] \in S
      BY <1>0
    <3> QED
      BY <3>1
  <2> HIDE DEF S
  <2> QED
    BY <2>1 DEF Steps
<1>2. PICK g : Runs(g, Len(ss), <<>>, step)
  <2> HIDE DEF S, step
  <2> QED
    BY <1>0, <1>1, Recursion
<1>3. \A n \in 0..Len(ss) : g[n] \in S
  <2> HIDE DEF S, step
  <2> QED
    BY <1>0, <1>1, <1>2, RunsIn
<1>4. /\ g[0] = <<>> /\ \A n \in 1..Len(ss) : g[n] = step[n][g[n - 1]]
  <2> HIDE DEF S, step
  <2>1. /\ 0 \in 0..Len(ss) /\ \A n \in 1..Len(ss) : n \in 0..Len(ss) /\ n # 0
    BY <1>0
  <2> QED
    BY <1>2, <2>1 DEF Runs
<1>5. ASSUME NEW n \in 1..Len(ss) PROVE g[n] = g[n - 1] \o ss[n]
  <2>1. g[n - 1] \in S
    BY <1>3
  <2> QED
    BY <1>4, <2>1
<1>6. JoinRun(g, A, ss)
  BY <1>3, <1>4, <1>5 DEF JoinRun
<1>7. CASE Len(ss) = 0
  <2>1. ss = <<>>
    BY <1>7
  <2>2. Logica!FlattenSeq(ss) = <<>>
    BY <1>7, <2>1 DEF Logica!FlattenSeq
  <2> QED
    BY <1>4, <1>6, <1>7, <2>2
<1>8. CASE Len(ss) # 0
  <2> DEFINE h == [i \in 1..Len(ss) |-> g[i]]
  <2>1. h = Body(h)
    <3> SUFFICES ASSUME NEW i \in 1..Len(ss)
                 PROVE  g[i] = IF i = 1 THEN ss[i] ELSE h[i - 1] \o ss[i]
      OBVIOUS
    <3>1. CASE i = 1
      <4>1. ss[i] \in Seq(A)
        BY <1>0
      <4>2. <<>> \o ss[i] = ss[i]
        BY <4>1
      <4>3. g[i] = g[i - 1] \o ss[i]
        BY <1>5
      <4>4. i - 1 = 0
        BY <3>1
      <4> QED
        BY <1>4, <3>1, <4>2, <4>3, <4>4
    <3>2. CASE i # 1
      <4>1. i - 1 \in 1..Len(ss)
        BY <3>2
      <4>2. h[i - 1] = g[i - 1]
        BY <4>1
      <4> QED
        BY <1>5, <3>2, <4>2
    <3> QED
      BY <3>1, <3>2
  <2>2. flatten = Body(flatten)
    <3> HIDE DEF Body, h
    <3> QED
      BY <2>1
  <2>3. Logica!FlattenSeq(ss) = flatten[Len(ss)]
    BY <1>8 DEF Logica!FlattenSeq
  <2>4. PICK f : f = flatten
    OBVIOUS
  <2> HIDE DEF flatten
  <2>5. f = Body(f)
    BY <2>2, <2>4
  <2>6. \A n \in 1..Len(ss) : f[n] = IF n = 1 THEN ss[n] ELSE f[n - 1] \o ss[n]
    BY <2>5
  <2> DEFINE T == {n \in 0..Len(ss) : n > 0 => f[n] = g[n]}
  <2>7. 0 \in T
    BY <1>0
  <2>8. ASSUME NEW n \in 1..Len(ss), n - 1 \in T PROVE n \in T
    <3>1. g[n] = g[n - 1] \o ss[n] /\ f[n] = IF n = 1 THEN ss[n] ELSE f[n - 1] \o ss[n]
      BY <1>5, <2>6
    <3>a. n \in 0..Len(ss)
      BY <1>0
    <3>2. CASE n = 1
      <4>1. ss[n] \in Seq(A)
        BY <1>0
      <4>2. <<>> \o ss[n] = ss[n]
        BY <4>1
      <4>3. n - 1 = 0
        BY <3>2
      <4> QED
        BY <1>4, <3>1, <3>2, <3>a, <4>2, <4>3
    <3>3. CASE n # 1
      <4>1. f[n - 1] = g[n - 1]
        BY <2>8, <3>3
      <4> QED
        BY <3>1, <3>3, <3>a, <4>1
    <3> QED
      BY <3>2, <3>3
  <2>9. Len(ss) \in T
    <3> HIDE DEF T
    <3>1. 0..Len(ss) \subseteq T
      BY <1>0, <2>7, <2>8, UpTo
    <3>2. Len(ss) \in 0..Len(ss)
      BY <1>0
    <3> QED
      BY <3>1, <3>2
  <2>10. f[Len(ss)] = g[Len(ss)]
    BY <1>0, <1>8, <2>9
  <2> QED
    BY <1>6, <2>3, <2>4, <2>10
<1> QED
  BY <1>7, <1>8

\* t has the valid segments of s, no other, and in their order.
ValidosDe(t, s) ==
  /\ t \in Seq(Segs) /\ Rises(t, Inicio)
  /\ \A i \in 1..Len(t) : \E j \in 1..Len(s) : t[i] = s[j] /\ Softruck!Valido(s[j])
  /\ \A j \in 1..Len(s) : Softruck!Valido(s[j]) => \E i \in 1..Len(t) : s[j] = t[i]

\* Without length, without distance.
SemMetros(s) == \A i \in 1..Len(s) : Softruck!Valido(s[i]) \/ s[i].dis = 0

LEMMA ValidosAre ==
  ASSUME NEW s \in Seq(Segs), Distinct(s, Inicio), SemMetros(s)
  PROVE  /\ ValidosDe(Softruck!PorInicio(Softruck!Validos(s)), s)
         /\ Value(Metros, Softruck!PorInicio(Softruck!Validos(s))) = Value(Metros, s)
<1>a. Inicio \in [Segs -> Int] /\ Metros \in [Segs -> Int]
  BY DEF Inicio, Metros, Segs
<1>1. PICK is : is = {i \in DOMAIN s : Softruck!Valido(s[i])}
  OBVIOUS
<1>2. PICK v : v = Those(s, is)
  OBVIOUS
<1>3. Softruck!Validos(s) = v
  BY <1>1, <1>2, SameParts DEF Softruck!Validos
<1>4. v \in Seq(Segs) /\ ArePart(v, s, is)
  BY <1>2, ThoseAre
<1>5. Distinct(v, Inicio)
  BY <1>2, ThoseDistinct
<1>6. PICK key : key = [i \in DOMAIN v |-> v[i].inicio]
  OBVIOUS
<1>7. \A i \in 1..Len(v) : key[i] = Inicio[v[i]] /\ key[i] \in Int
  <2> TAKE i \in 1..Len(v)
  <2>1. i \in DOMAIN v /\ v[i] \in Segs
    BY <1>4
  <2> QED
    BY <1>6, <2>1 DEF Inicio, Segs
<1>8. PICK t : t = Sorted(v, key)
  OBVIOUS
<1>9. Softruck!PorInicio(v) = t
  BY <1>6, <1>8, SameParts DEF Softruck!PorInicio
<1>b. \A i \in 1..Len(v) : key[i] = Inicio[v[i]]
  BY <1>7
<1>c. \A i \in 1..Len(v) : key[i] \in Int
  BY <1>7
<1>10. t \in Seq(Segs) /\ Rises(t, Inicio) /\ SameItems(t, v)
  BY <1>4, <1>5, <1>8, <1>a, <1>b, SortedRises
<1>11. Value(Metros, t) = Value(Metros, v)
  BY <1>4, <1>8, <1>a, <1>c, SortedValue
<1>12. Value(Metros, v) = Value(Metros, s)
  <2>1. ASSUME NEW i \in 1..Len(s), i \notin is PROVE Metros[s[i]] = 0
    <3>1. s[i] \in Segs /\ i \in DOMAIN s
      OBVIOUS
    <3>2. ~Softruck!Valido(s[i])
      BY <1>1, <2>1, <3>1
    <3>3. s[i].dis = 0
      BY <3>2 DEF SemMetros
    <3> QED
      BY <3>1, <3>3 DEF Metros
  <2> QED
    BY <1>2, <1>a, <2>1, ThoseValue
<1>13. ASSUME NEW i \in 1..Len(t)
       PROVE  \E j \in 1..Len(s) : t[i] = s[j] /\ Softruck!Valido(s[j])
  <2>1. PICK k \in 1..Len(v) : t[i] = v[k]
    BY <1>10 DEF SameItems
  <2>2. PICK j \in is \cap (1..Len(s)) : v[k] = s[j]
    BY <1>4 DEF ArePart
  <2> QED
    BY <1>1, <2>1, <2>2
<1>14. ASSUME NEW j \in 1..Len(s), Softruck!Valido(s[j]) PROVE \E i \in 1..Len(t) : s[j] = t[i]
  <2>1. j \in is \cap (1..Len(s))
    BY <1>1, <1>14
  <2>2. PICK k \in 1..Len(v) : v[k] = s[j]
    BY <1>4, <2>1 DEF ArePart
  <2>3. PICK i \in 1..Len(t) : v[k] = t[i]
    BY <1>10, <2>2 DEF SameItems
  <2> QED
    BY <2>2, <2>3
<1> QED
  BY <1>3, <1>9, <1>10, <1>11, <1>12, <1>13, <1>14 DEF ValidosDe

\* What Softruck has of day d: its trips start on it, each at another instant, and one
\* that is not valid has no length.
DiaOK(a, d) ==
  /\ a.segs \in Seq(Segs)
  /\ \A i \in 1..Len(a.segs) : 10 * d <= a.segs[i].inicio /\ a.segs[i].inicio < 10 * (d + 1)
  /\ Distinct(a.segs, Inicio) /\ SemMetros(a.segs)

\* tt has the valid segments of each of the days ss that has one, in their order; r says
\* which day it is.
DiasDe(r, tt, ss) ==
  /\ \A k \in 1..Len(tt) : r[k] \in 1..Len(ss) /\ ValidosDe(tt[k], ss[r[k]]) /\ tt[k] # <<>>
  /\ \A k, l \in 1..Len(tt) : k < l => r[k] < r[l]
  /\ \A d \in 1..Len(ss) : (\E i \in 1..Len(ss[d]) : Softruck!Valido(ss[d][i]))
                           => \E k \in 1..Len(tt) : r[k] = d

\* The segments of every day ss are its own.
EmDias(ss) ==
  /\ \A d \in 1..Len(ss) : Distinct(ss[d], Inicio) /\ SemMetros(ss[d])
  /\ \A d, e \in 1..Len(ss) : d < e => Before(ss[d], ss[e], Inicio)

\* The valid segments of the days, day by day, are those of all of them.
LEMMA DaysTell ==
  ASSUME NEW ss \in Seq(Seq(Segs)), EmDias(ss), NEW g, JoinRun(g, Segs, ss),
         NEW tt \in Seq(Seq(Segs)), NEW r, DiasDe(r, tt, ss), NEW h, JoinRun(h, Segs, tt)
  PROVE  /\ Distinct(g[Len(ss)], Inicio) /\ SemMetros(g[Len(ss)])
         /\ g[Len(ss)] \in Seq(Segs) /\ ValidosDe(h[Len(tt)], g[Len(ss)])
<1>n. PICK n \in Nat : n = Len(ss)
  OBVIOUS
<1>d. /\ \A d \in 1..n : Distinct(ss[d], Inicio) /\ SemMetros(ss[d])
      /\ \A d, e \in 1..n : d < e => Before(ss[d], ss[e], Inicio)
  BY <1>n DEF EmDias
<1>r. /\ \A k \in 1..Len(tt) : r[k] \in 1..n /\ ValidosDe(tt[k], ss[r[k]])
      /\ \A k, l \in 1..Len(tt) : k < l => r[k] < r[l]
      /\ \A d \in 1..n : (\E i \in 1..Len(ss[d]) : Softruck!Valido(ss[d][i]))
                          => \E k \in 1..Len(tt) : r[k] = d
  BY <1>n DEF DiasDe
<1>a. Inicio \in [Segs -> Int]
  BY DEF Inicio, Segs
<1>1. PICK F : F = g[n]
  OBVIOUS
<1>2. PICK T : T = h[Len(tt)]
  OBVIOUS
<1>3. Distinct(F, Inicio)
  BY <1>1, <1>a, <1>n, <1>d, JoinedDistinct
<1>4. AreJoined(F, Segs, ss)
  BY <1>1, <1>n, JoinedAre
<1>5. AreJoined(T, Segs, tt)
  BY <1>2, JoinedAre
<1>6. ASSUME NEW k \in 1..Len(tt), NEW l \in 1..Len(tt), k < l
      PROVE  Before(tt[k], tt[l], Inicio)
  <2>0. ValidosDe(tt[k], ss[r[k]]) /\ ValidosDe(tt[l], ss[r[l]])
    BY <1>r
  <2>1. r[k] \in 1..n /\ r[l] \in 1..n /\ r[k] < r[l]
    BY <1>6, <1>r
  <2>2. Before(ss[r[k]], ss[r[l]], Inicio)
    BY <1>d, <2>1
  <2> SUFFICES ASSUME NEW i \in 1..Len(tt[k]), NEW j \in 1..Len(tt[l])
               PROVE  Inicio[tt[k][i]] < Inicio[tt[l][j]]
    BY DEF Before
  <2>3. PICK x \in 1..Len(ss[r[k]]) : tt[k][i] = ss[r[k]][x]
    BY <2>0 DEF ValidosDe
  <2>4. PICK y \in 1..Len(ss[r[l]]) : tt[l][j] = ss[r[l]][y]
    BY <2>0 DEF ValidosDe
  <2> QED
    BY <2>2, <2>3, <2>4 DEF Before
<1>7. \A k \in 1..Len(tt) : Rises(tt[k], Inicio)
  BY <1>r DEF ValidosDe
<1>8. Rises(T, Inicio)
  BY <1>2, <1>6, <1>7, <1>a, JoinedRise
<1>9. ASSUME NEW i \in 1..Len(T) PROVE \E j \in 1..Len(F) : T[i] = F[j] /\ Softruck!Valido(F[j])
  <2>1. PICK k \in 1..Len(tt) : \E j \in 1..Len(tt[k]) : T[i] = tt[k][j]
    BY <1>5 DEF AreJoined
  <2>2. PICK j \in 1..Len(tt[k]) : T[i] = tt[k][j]
    BY <2>1
  <2>a. ValidosDe(tt[k], ss[r[k]])
    BY <1>r
  <2>3. PICK x \in 1..Len(ss[r[k]]) : tt[k][j] = ss[r[k]][x] /\ Softruck!Valido(ss[r[k]][x])
    BY <2>a DEF ValidosDe
  <2>4. r[k] \in 1..Len(ss)
    BY <1>n, <1>r
  <2>5. PICK y \in 1..Len(F) : F[y] = ss[r[k]][x]
    BY <1>4, <2>4 DEF AreJoined
  <2> QED
    BY <2>2, <2>3, <2>5
<1>10. ASSUME NEW j \in 1..Len(F), Softruck!Valido(F[j]) PROVE \E i \in 1..Len(T) : F[j] = T[i]
  <2>1. PICK d \in 1..Len(ss) : \E x \in 1..Len(ss[d]) : F[j] = ss[d][x]
    BY <1>4 DEF AreJoined
  <2>2. PICK x \in 1..Len(ss[d]) : F[j] = ss[d][x]
    BY <2>1
  <2>3. d \in 1..n /\ Softruck!Valido(ss[d][x])
    BY <1>10, <1>n, <2>2
  <2>4. PICK k \in 1..Len(tt) : r[k] = d
    BY <1>r, <2>3
  <2>5. ValidosDe(tt[k], ss[d])
    BY <1>r, <2>4
  <2>6. PICK y \in 1..Len(tt[k]) : ss[d][x] = tt[k][y]
    BY <2>3, <2>5 DEF ValidosDe
  <2>7. PICK i \in 1..Len(T) : T[i] = tt[k][y]
    BY <1>5 DEF AreJoined
  <2> QED
    BY <2>2, <2>6, <2>7
<1>11. SemMetros(F)
  <2> SUFFICES ASSUME NEW i \in 1..Len(F) PROVE Softruck!Valido(F[i]) \/ F[i].dis = 0
    BY DEF SemMetros
  <2>1. PICK d \in 1..Len(ss) : \E x \in 1..Len(ss[d]) : F[i] = ss[d][x]
    BY <1>4 DEF AreJoined
  <2>2. PICK x \in 1..Len(ss[d]) : F[i] = ss[d][x]
    BY <2>1
  <2>3. d \in 1..n /\ SemMetros(ss[d])
    BY <1>d, <1>n
  <2> QED
    BY <2>2, <2>3 DEF SemMetros
<1>12. F \in Seq(Segs) /\ T \in Seq(Segs)
  BY <1>4, <1>5 DEF AreJoined
<1> QED
  BY <1>1, <1>2, <1>n, <1>3, <1>8, <1>9, <1>10, <1>11, <1>12 DEF ValidosDe

\* Two sequences of the valid trips are the same.
LEMMA ValidosAreOne ==
  ASSUME NEW s, NEW t, NEW u, ValidosDe(t, s), ValidosDe(u, s)
  PROVE  t = u
<1>1. t \in Seq(Segs) /\ u \in Seq(Segs) /\ Rises(t, Inicio) /\ Rises(u, Inicio)
  BY DEF ValidosDe
<1>2. SameItems(t, u)
  BY DEF ValidosDe, SameItems
<1>3. Inicio \in [Segs -> Int]
  BY DEF Inicio, Segs
<1> QED
  BY <1>1, <1>2, <1>3, OneOrder

\* A day of the summary.
DiasResumo == [acc : Int, items : Seq(Segs)]

\* The trips of the summary, of which D are the days.
TripsOf(D) == Softruck!FlattenSeq([k \in DOMAIN D |-> D[k].items])

\* What ViewsTellTheSameTrips says of the trips of the summary, of which D are the days,
\* and of those of the map.
SameTrips(D, by) ==
  LET F == Softruck!Segmentos(by)
      T == TripsOf(D)
  IN
  /\ T = Softruck!RouteSegments(F)
  /\ Softruck!Range(T) \subseteq Softruck!Range(F)
  /\ \A s \in Softruck!Range(F) : s \in Softruck!Range(T) \/ s.dis = 0 \/ s.dur = 0
  /\ Softruck!Distancia(T) = Softruck!Distancia(F)
  /\ Len(D) <= Softruck!Cardinality({d \in 1..DiasSoftruck : by[d].segs # <<>>})

LEMMA DistanciaIs ==
  ASSUME NEW s \in Seq(Segs)
  PROVE  Softruck!Distancia(s) = Value(Metros, s)
<1>1. [i \in DOMAIN s |-> s[i].dis] = [i \in 1..Len(s) |-> Metros[s[i]]]
  <2>1. ASSUME NEW i \in 1..Len(s) PROVE s[i].dis = Metros[s[i]]
    <3>1. s[i] \in Segs
      OBVIOUS
    <3> QED
      BY <3>1 DEF Metros
  <2>2. DOMAIN s = 1..Len(s)
    OBVIOUS
  <2> QED
    BY <2>1, <2>2
<1>2. Softruck!Distancia(s) = SumOf([i \in DOMAIN s |-> s[i].dis], Len(s))
  BY SamePartsSoftruck DEF Softruck!Distancia
<1> QED
  BY <1>1, <1>2 DEF Value

LEMMA RangeOfSegs ==
  ASSUME NEW s \in Seq(Segs), NEW x
  PROVE  x \in Softruck!Range(s) <=> \E i \in 1..Len(s) : x = s[i]
BY DEF Softruck!Range

\* The days of the summary: those of the valid trips, each once and in their order.
LEMMA ResumoIs ==
  ASSUME NEW by, \A d \in 1..DiasSoftruck : DiaOK(by[d], d)
  PROVE  LET D  == Softruck!Resumo(by)
             tt == [k \in DOMAIN D |-> D[k].items]
             ss == [d \in 1..DiasSoftruck |-> by[d].segs]
         IN  /\ D \in Seq(DiasResumo) /\ tt \in Seq(Seq(Segs)) /\ Len(tt) = Len(D)
             /\ \E r : DiasDe(r, tt, ss)
<1>0. PICK n \in Nat : n = DiasSoftruck
  BY HistoriesAssumption
<1>1. PICK items : items = [d \in 1..n |-> Softruck!DiaItems(by[d])]
  OBVIOUS
<1>2. ASSUME NEW d \in 1..n PROVE ValidosDe(items[d], by[d].segs) /\ items[d] \in Seq(Segs)
  <2>1. /\ by[d].segs \in Seq(Segs) /\ Distinct(by[d].segs, Inicio)
        /\ SemMetros(by[d].segs)
    BY <1>0 DEF DiaOK
  <2>2. ValidosDe(Softruck!PorInicio(Softruck!Validos(by[d].segs)), by[d].segs)
    BY <2>1, ValidosAre
  <2>3. items[d] = Softruck!PorInicio(Softruck!Validos(by[d].segs))
    BY <1>1 DEF Softruck!DiaItems
  <2> QED
    BY <2>2, <2>3 DEF ValidosDe
<1>3. PICK days : days = [d \in 1..n |-> [acc |-> d, items |-> Softruck!DiaItems(by[d])]]
  OBVIOUS
<1>4. ASSUME NEW d \in 1..n PROVE days[d] \in DiasResumo /\ days[d].items = items[d]
  <2>1. days[d] = [acc |-> d, items |-> items[d]]
    BY <1>1, <1>3
  <2>2. items[d] \in Seq(Segs) /\ d \in Int
    BY <1>2
  <2> QED
    BY <2>1, <2>2 DEF DiasResumo
<1>5. days \in Seq(DiasResumo) /\ Len(days) = n
  <2>1. days \in [1..n -> DiasResumo]
    BY <1>3, <1>4
  <2> QED
    BY <2>1
<1>6. PICK is : is = {d \in DOMAIN days : days[d].items # <<>>}
  OBVIOUS
<1>7. PICK D : D = Those(days, is)
  OBVIOUS
<1>8. Softruck!Resumo(by) = D
  BY <1>0, <1>3, <1>6, <1>7, SameParts DEF Softruck!Resumo, Softruck!ComViagens
<1>9. PICK r : D \in Seq(DiasResumo) /\ IsPart(r, D, days, is)
  BY <1>5, <1>7, ThosePart
<1>10. ASSUME NEW k \in 1..Len(D)
       PROVE  /\ r[k] \in 1..n /\ D[k].items # <<>> /\ ValidosDe(D[k].items, by[r[k]].segs)
  <2>1. r[k] \in 1..n /\ r[k] \in is /\ D[k] = days[r[k]]
    BY <1>5, <1>9 DEF IsPart
  <2>2. D[k].items = items[r[k]] /\ D[k].items # <<>>
    BY <1>4, <1>6, <2>1
  <2> QED
    BY <1>2, <2>1, <2>2
<1>11. ASSUME NEW d \in 1..n, NEW i \in 1..Len(by[d].segs), Softruck!Valido(by[d].segs[i])
       PROVE  \E k \in 1..Len(D) : r[k] = d
  <2>1. PICK j \in 1..Len(items[d]) : by[d].segs[i] = items[d][j]
    BY <1>2, <1>11 DEF ValidosDe
  <2>2. items[d] # <<>>
    BY <2>1
  <2>3. d \in is \cap (1..Len(days))
    BY <1>4, <1>5, <1>6, <2>2
  <2> QED
    BY <1>9, <2>3 DEF IsPart
<1>12. \A k, l \in 1..Len(D) : k < l => r[k] < r[l]
  BY <1>9 DEF IsPart
<1>13. PICK tt : tt = [k \in DOMAIN D |-> D[k].items]
  OBVIOUS
<1>14. /\ tt \in Seq(Seq(Segs)) /\ Len(tt) = Len(D)
       /\ \A k \in 1..Len(D) : tt[k] = D[k].items
  <2>1. \A k \in 1..Len(D) : tt[k] = D[k].items /\ tt[k] \in Seq(Segs)
    <3> TAKE k \in 1..Len(D)
    <3>1. D[k] \in DiasResumo /\ k \in DOMAIN D
      BY <1>9
    <3> QED
      BY <1>13, <3>1 DEF DiasResumo
  <2>2. tt \in [1..Len(D) -> Seq(Segs)] /\ Len(D) \in Nat
    BY <1>9, <1>13, <2>1
  <2> QED
    BY <2>1, <2>2
<1>15. PICK ss : ss = [d \in 1..n |-> by[d].segs]
  OBVIOUS
<1>16. Len(ss) = n /\ \A d \in 1..n : ss[d] = by[d].segs
  BY <1>15
<1>17. DiasDe(r, tt, ss)
  <2>1. \A k \in 1..Len(tt) : r[k] \in 1..Len(ss) /\ ValidosDe(tt[k], ss[r[k]]) /\ tt[k] # <<>>
    BY <1>10, <1>14, <1>16
  <2>2. \A k, l \in 1..Len(tt) : k < l => r[k] < r[l]
    BY <1>12, <1>14
  <2>3. ASSUME NEW d \in 1..Len(ss), NEW i \in 1..Len(ss[d]), Softruck!Valido(ss[d][i])
        PROVE  \E k \in 1..Len(tt) : r[k] = d
    <3>1. d \in 1..n /\ i \in 1..Len(by[d].segs) /\ Softruck!Valido(by[d].segs[i])
      BY <1>16, <2>3
    <3> QED
      BY <1>11, <1>14, <3>1
  <2> QED
    BY <2>1, <2>2, <2>3 DEF DiasDe
<1> QED
  BY <1>0, <1>8, <1>9, <1>13, <1>14, <1>15, <1>17

LEMMA TripsAreTheSame ==
  ASSUME NEW by, \A d \in 1..DiasSoftruck : DiaOK(by[d], d)
  PROVE  SameTrips(Softruck!Resumo(by), by)
<1>0. PICK n \in Nat : n = DiasSoftruck
  BY HistoriesAssumption
<1>1. PICK D : D = Softruck!Resumo(by)
  OBVIOUS
<1>2. PICK tt, ss : /\ tt = [k \in DOMAIN D |-> D[k].items]
                    /\ ss = [d \in 1..DiasSoftruck |-> by[d].segs]
  OBVIOUS
<1>3. D \in Seq(DiasResumo) /\ tt \in Seq(Seq(Segs)) /\ Len(tt) = Len(D)
  BY <1>1, <1>2, ResumoIs
<1>4. PICK r : DiasDe(r, tt, ss)
  BY <1>1, <1>2, ResumoIs
<1>5. /\ ss \in Seq(Seq(Segs)) /\ Len(ss) = n
      /\ \A d \in 1..n : ss[d] = by[d].segs /\ Distinct(ss[d], Inicio) /\ SemMetros(ss[d])
  <2>1. \A d \in 1..n : ss[d] = by[d].segs /\ ss[d] \in Seq(Segs)
                        /\ Distinct(ss[d], Inicio) /\ SemMetros(ss[d])
    BY <1>0, <1>2 DEF DiaOK
  <2>2. ss \in [1..n -> Seq(Segs)]
    BY <1>0, <1>2, <2>1
  <2> QED
    BY <2>1, <2>2
<1>6. ASSUME NEW d \in 1..n, NEW e \in 1..n, d < e PROVE Before(ss[d], ss[e], Inicio)
  <2> SUFFICES ASSUME NEW i \in 1..Len(ss[d]), NEW j \in 1..Len(ss[e])
               PROVE  Inicio[ss[d][i]] < Inicio[ss[e][j]]
    BY DEF Before
  <2>1. DiaOK(by[d], d) /\ DiaOK(by[e], e)
    BY <1>0
  <2>2. ss[d] \in Seq(Segs) /\ ss[e] \in Seq(Segs) /\ ss[d] = by[d].segs /\ ss[e] = by[e].segs
    BY <1>5
  <2>3. ss[d][i] \in Segs /\ ss[e][j] \in Segs
    BY <2>2
  <2>4. ss[d][i].inicio < 10 * (d + 1) /\ 10 * e <= ss[e][j].inicio
    BY <2>1, <2>2 DEF DiaOK
  <2>5. ss[d][i].inicio \in Int /\ ss[e][j].inicio \in Int
    BY <2>3 DEF Segs
  <2>6. ss[d][i].inicio < ss[e][j].inicio
    BY ONLY d \in 1..n, e \in 1..n, n \in Nat, d < e, <2>4, <2>5
  <2> QED
    BY <2>3, <2>6 DEF Inicio
<1>7. EmDias(ss)
  BY <1>5, <1>6 DEF EmDias
<1>9. PICK g : JoinRun(g, Segs, ss) /\ Logica!FlattenSeq(ss) = g[Len(ss)]
  BY <1>5, FlattenSteps
<1>10. PICK h : JoinRun(h, Segs, tt) /\ Logica!FlattenSeq(tt) = h[Len(tt)]
  BY <1>3, FlattenSteps
<1>11. PICK F, T : F = g[n] /\ T = h[Len(tt)]
  OBVIOUS
<1>12. Softruck!Segmentos(by) = F /\ TripsOf(D) = T
  BY <1>0, <1>2, <1>5, <1>9, <1>10, <1>11, SamePartsSoftruck
     DEF Softruck!Segmentos, TripsOf
<1>13. /\ Distinct(F, Inicio) /\ SemMetros(F) /\ F \in Seq(Segs) /\ ValidosDe(T, F)
  BY <1>3, <1>4, <1>5, <1>7, <1>9, <1>10, <1>11, DaysTell
<1>14. PICK R : R = Softruck!RouteSegments(F)
  OBVIOUS
<1>15. ValidosDe(R, F) /\ Value(Metros, R) = Value(Metros, F)
  BY <1>13, <1>14, ValidosAre DEF Softruck!RouteSegments
<1>16. T = R
  BY <1>13, <1>15, ValidosAreOne
<1>17. T \in Seq(Segs)
  BY <1>13 DEF ValidosDe
<1>18. Softruck!Range(T) \subseteq Softruck!Range(F)
  <2> SUFFICES ASSUME NEW x \in Softruck!Range(T) PROVE x \in Softruck!Range(F)
    OBVIOUS
  <2>1. PICK i \in 1..Len(T) : x = T[i]
    BY <1>17, RangeOfSegs
  <2>2. PICK j \in 1..Len(F) : T[i] = F[j]
    BY <1>13 DEF ValidosDe
  <2> QED
    BY <1>13, <2>1, <2>2, RangeOfSegs
<1>19. ASSUME NEW s \in Softruck!Range(F)
       PROVE  s \in Softruck!Range(T) \/ s.dis = 0 \/ s.dur = 0
  <2>1. PICK j \in 1..Len(F) : s = F[j]
    BY <1>13, RangeOfSegs
  <2>2. CASE Softruck!Valido(s)
    <3>1. PICK i \in 1..Len(T) : s = T[i]
      BY <1>13, <2>1, <2>2 DEF ValidosDe
    <3> QED
      BY <1>17, <3>1, RangeOfSegs
  <2>3. CASE ~Softruck!Valido(s)
    <3>1. s \in Segs
      BY <1>13, <2>1
    <3> QED
      BY <2>3, <3>1 DEF Softruck!Valido, Segs
  <2> QED
    BY <2>2, <2>3
<1>20. Softruck!Distancia(T) = Softruck!Distancia(F)
  BY <1>13, <1>15, <1>16, <1>17, DistanciaIs
<1>21. Len(D) <= Softruck!Cardinality({d \in 1..DiasSoftruck : by[d].segs # <<>>})
  <2>1. PICK S : S = {d \in 1..n : by[d].segs # <<>>}
    OBVIOUS
  <2>2. IsFiniteSet(S)
    <3>1. IsFiniteSet(1..n)
      BY FS_Interval
    <3> QED
      BY <2>1, <3>1, FS_Subset
  <2>3. PICK m \in Nat : m = Len(tt)
    BY <1>3
  <2>a. /\ \A k \in 1..m : r[k] \in 1..n /\ ValidosDe(tt[k], ss[r[k]]) /\ tt[k] # <<>>
        /\ \A k, l \in 1..m : k < l => r[k] < r[l]
    BY <1>4, <1>5, <2>3 DEF DiasDe
  <2>4. PICK q : q = [k \in 1..m |-> r[k]]
    OBVIOUS
  <2>5. ASSUME NEW k \in 1..m PROVE q[k] \in S
    <3>1. PICK x, y : x = tt[k] /\ y = ss[r[k]]
      OBVIOUS
    <3>2. x # <<>> /\ ValidosDe(x, y) /\ r[k] \in 1..n /\ y = by[r[k]].segs
      BY <1>5, <2>a, <3>1
    <3>3. x \in Seq(Segs) /\ \A i \in 1..Len(x) : \E j \in 1..Len(y) : x[i] = y[j]
      BY <3>2 DEF ValidosDe
    <3>4. 1 \in 1..Len(x)
      BY <3>2, <3>3
    <3>5. PICK j \in 1..Len(y) : x[1] = y[j]
      BY <3>3, <3>4
    <3>6. y # <<>>
      BY <3>5
    <3> QED
      BY <2>1, <2>4, <3>2, <3>6
  <2>6. ASSUME NEW k \in 1..m, NEW l \in 1..m, q[k] = q[l] PROVE k = l
    <3>1. r[k] = r[l] /\ r[k] \in 1..n /\ r[l] \in 1..n
      BY <2>4, <2>6, <2>a
    <3>2. (k < l => r[k] < r[l]) /\ (l < k => r[l] < r[k])
      BY <2>a
    <3> QED
      BY ONLY k \in 1..m, l \in 1..m, m \in Nat, n \in Nat, <3>1, <3>2
  <2>7. q \in Injection(1..m, S)
    BY <2>4, <2>5, <2>6 DEF Injection, IsInjective
  <2>8. Cardinality(1..m) = m
    BY ONLY m \in Nat, FS_Interval
  <2>9. Cardinality(1..m) <= Cardinality(S)
    BY <2>2, <2>7, FS_Injection
  <2> QED
    BY <1>0, <1>3, <2>1, <2>3, <2>8, <2>9, SameCardinality
<1> QED
  BY <1>1, <1>12, <1>14, <1>16, <1>18, <1>19, <1>20, <1>21 DEF SameTrips

\* What the services make of the answers by and gm of a period.
Vistas(by, gm) ==
  [resumo  |-> [dias |-> Softruck!Resumo(by),
                sumario |-> Softruck!SumarioDoResumo(Softruck!Resumo(by))],
   pdf     |-> Softruck!Pdf(by),
   rotas   |-> [segments |-> Softruck!RouteSegments(Softruck!Segmentos(by)),
                sumario  |-> Softruck!Sumario(by),
                dias     |-> {d \in DOMAIN gm : gm[d]}]]

Periodo(by, gm) ==
  /\ entrada = [byKeys |-> by, geom |-> gm]
  /\ DOMAIN by \subseteq 1..DiasSoftruck /\ \A d \in DOMAIN by : DiaOK(by[d], d)
  /\ DOMAIN gm # {} => Softruck!Complete(by) /\ Softruck!Enterprise(by)
  /\ estado = "respondido" =>
       /\ Softruck!Complete(by) /\ (Softruck!Enterprise(by) => Softruck!Complete(gm))
       /\ resposta = Vistas(by, gm)

\* The answers of the days so far are days, points are asked of a period that names the
\* enterprise, and what is answered is made of a whole period.
SoftOK == pedido = "softruck" => \E by, gm : Periodo(by, gm)

\* Trips that start on day d, each at another instant, as DiaOK has them.
DoDia(s, d) ==
  /\ s \in Seq(Segs)
  /\ \A i \in 1..Len(s) : 10 * d <= s[i].inicio /\ s[i].inicio < 10 * (d + 1)
  /\ Distinct(s, Inicio) /\ SemMetros(s)

SegDoDia(x, d) ==
  x \in Segs /\ 10 * d <= x.inicio /\ x.inicio < 10 * (d + 1) /\ (Softruck!Valido(x) \/ x.dis = 0)

LEMMA UmOuDois ==
  ASSUME NEW d \in Nat, NEW x, NEW y, SegDoDia(x, d), SegDoDia(y, d), x.inicio # y.inicio
  PROVE  DoDia(<<>>, d) /\ DoDia(<<x>>, d) /\ DoDia(<<x, y>>, d)
<1>1. x \in Segs /\ y \in Segs /\ Inicio[x] = x.inicio /\ Inicio[y] = y.inicio
  BY DEF SegDoDia, Inicio
<1>2. DoDia(<<>>, d)
  BY DEF DoDia, Distinct, SemMetros
<1>3. PICK s, t : s = <<x>> /\ t = <<x, y>>
  OBVIOUS
<1>4. s \in Seq(Segs) /\ Len(s) = 1 /\ s[1] = x
  BY <1>1, <1>3
<1>5. t \in Seq(Segs) /\ Len(t) = 2 /\ t[1] = x /\ t[2] = y
  BY <1>1, <1>3
<1>6. DoDia(s, d)
  <2>1. \A i \in 1..Len(s) : i = 1
    BY <1>4
  <2>2. \A i \in 1..Len(s) : 10 * d <= s[i].inicio /\ s[i].inicio < 10 * (d + 1)
    BY <1>4, <2>1 DEF SegDoDia
  <2>3. Distinct(s, Inicio)
    BY <2>1 DEF Distinct
  <2>4. SemMetros(s)
    BY <1>4, <2>1 DEF SegDoDia, SemMetros
  <2> QED
    BY <1>4, <2>2, <2>3, <2>4 DEF DoDia
<1>7. DoDia(t, d)
  <2>1. \A i \in 1..Len(t) : i = 1 \/ i = 2
    BY <1>5
  <2>2. \A i \in 1..Len(t) : 10 * d <= t[i].inicio /\ t[i].inicio < 10 * (d + 1)
    BY <1>5, <2>1 DEF SegDoDia
  <2>3. Distinct(t, Inicio)
    BY <1>1, <1>5, <2>1 DEF Distinct
  <2>4. SemMetros(t)
    BY <1>5, <2>1 DEF SegDoDia, SemMetros
  <2> QED
    BY <1>5, <2>2, <2>3, <2>4 DEF DoDia
<1> QED
  BY <1>2, <1>3, <1>6, <1>7

LEMMA AnswersAreDays ==
  ASSUME NEW d \in Nat, NEW a \in Softruck!Answers(d)
  PROVE  DiaOK(a, d)
<1>1. PICK x : x = [inicio |-> 10 * d + 1, dis |-> 7, dur |-> 60]
  OBVIOUS
<1>2. PICK y : y = [inicio |-> 10 * d + 2, dis |-> 7, dur |-> 60]
  OBVIOUS
<1>3. PICK z : z = [inicio |-> 10 * d, dis |-> 0, dur |-> 60]
  OBVIOUS
<1>4. a.segs \in {<<>>, <<y, x>>, <<z>>, <<x, z>>}
  BY <1>1, <1>2, <1>3 DEF Softruck!Answers, Softruck!SemDados
<1>5. SegDoDia(x, d) /\ SegDoDia(y, d) /\ SegDoDia(z, d)
  BY <1>1, <1>2, <1>3 DEF SegDoDia, Segs, Softruck!Valido
<1>6. x.inicio # y.inicio /\ x.inicio # z.inicio
  BY <1>1, <1>2, <1>3
<1>7. DoDia(<<>>, d) /\ DoDia(<<y, x>>, d)
  BY <1>5, <1>6, UmOuDois
<1>8. DoDia(<<x, z>>, d)
  BY <1>5, <1>6, UmOuDois
<1>9. DoDia(<<z>>, d)
  BY <1>5, <1>6, UmOuDois
<1>10. DoDia(a.segs, d)
  BY <1>4, <1>7, <1>8, <1>9
<1> QED
  BY <1>10 DEF DoDia, DiaOK

LEMMA SoftNext == SoftOK /\ [MCNext]_MCvars => SoftOK'
<1> SUFFICES ASSUME SoftOK, [MCNext]_MCvars, pedido' = "softruck"
             PROVE  \E by, gm : Periodo(by, gm)'
  BY DEF SoftOK
<1>1. /\ pedido = "softruck"
      /\ \/ \E d \in 1..DiasSoftruck : \E a \in Softruck!Answers(d) : Softruck!ByKeys(d, a)
         \/ \E d \in 1..DiasSoftruck, ok \in BOOLEAN : Softruck!Geom(d, ok)
         \/ Softruck!Answer
         \/ estado' = "erro" /\ UNCHANGED <<pedido, entrada, resposta>>
         \/ UNCHANGED <<pedido, entrada, estado, resposta>>
  BY DEF MCNext, MCvars, OfHistory, OfReport, historyVars,
     M7!Ponto, M7!PontoDaRota, M7!Trajeto, M7!Receive, M7!Answer, M7!AnswerError,
     Logica!Posicao, Logica!Registro, Logica!Receive, Logica!Answer, Logica!AnswerFallback,
     Logica!AnswerPdf, Logica!AnswerError, Softruck!ByKeys, Softruck!Geom, Softruck!Answer,
     Softruck!AnswerError, Softruck!Ponto, Softruck!Alarme, Softruck!Feature,
     Softruck!AnswerGeom, Softruck!Open, M7!Pedidos, Logica!Pedidos
<1>2. PICK by, gm : Periodo(by, gm)
  BY <1>1 DEF SoftOK
<1>3. PICK e : e = entrada
  OBVIOUS
<1>4. e = [byKeys |-> by, geom |-> gm] /\ e.byKeys = by /\ e.geom = gm
  BY <1>2, <1>3 DEF Periodo
<1>5. ASSUME NEW d \in 1..DiasSoftruck, NEW a \in Softruck!Answers(d), Softruck!ByKeys(d, a)
      PROVE  \E bb, gg : Periodo(bb, gg)'
  <2>1. PICK b : b = Softruck!ComDia(by, d, a)
    OBVIOUS
  <2>2. /\ estado' = "aberto" /\ Softruck!Asked(by, d)
        /\ entrada' = [e EXCEPT !.byKeys = Softruck!ComDia(@, d, a)]
    BY <1>3, <1>4, <1>5 DEF Softruck!ByKeys, Softruck!Open
  <2>3. entrada' = [byKeys |-> b, geom |-> gm]
    BY <1>4, <2>1, <2>2
  <2>4. b = [x \in DOMAIN by \cup {d} |-> IF x = d THEN a ELSE by[x]]
    BY <2>1 DEF Softruck!ComDia
  <2>5. DiaOK(a, d)
    <3>1. d \in Nat
      OBVIOUS
    <3> QED
      BY <3>1, AnswersAreDays
  <2>6. DOMAIN by \subseteq 1..DiasSoftruck /\ \A x \in DOMAIN by : DiaOK(by[x], x)
    BY <1>2 DEF Periodo
  <2>7. DOMAIN b \subseteq 1..DiasSoftruck /\ \A x \in DOMAIN b : DiaOK(b[x], x)
    BY <2>4, <2>5, <2>6
  <2>8. d \notin DOMAIN by
    BY <2>2 DEF Softruck!Asked
  <2>9. ~Softruck!Complete(by)
    BY <2>8 DEF Softruck!Complete
  <2>10. DOMAIN gm = {}
    BY <1>2, <2>9 DEF Periodo
  <2>11. Periodo(b, gm)'
    BY <2>2, <2>3, <2>7, <2>10 DEF Periodo
  <2> QED
    BY <2>11
<1>6. ASSUME NEW d \in 1..DiasSoftruck, NEW ok \in BOOLEAN, Softruck!Geom(d, ok)
      PROVE  \E bb, gg : Periodo(bb, gg)'
  <2>1. PICK g : g = Softruck!ComDia(gm, d, ok)
    OBVIOUS
  <2>2. /\ estado' = "aberto" /\ Softruck!Complete(by) /\ Softruck!Enterprise(by)
        /\ entrada' = [e EXCEPT !.geom = Softruck!ComDia(@, d, ok)]
    BY <1>3, <1>4, <1>6 DEF Softruck!Geom, Softruck!Open
  <2>3. entrada' = [byKeys |-> by, geom |-> g]
    BY <1>4, <2>1, <2>2
  <2>4. DOMAIN by \subseteq 1..DiasSoftruck /\ \A x \in DOMAIN by : DiaOK(by[x], x)
    BY <1>2 DEF Periodo
  <2>5. Periodo(by, g)'
    BY <2>2, <2>3, <2>4 DEF Periodo
  <2> QED
    BY <2>5
<1>7. CASE Softruck!Answer
  <2>1. /\ UNCHANGED entrada /\ Softruck!Complete(by)
        /\ Softruck!Enterprise(by) => Softruck!Complete(gm)
    BY <1>3, <1>4, <1>7 DEF Softruck!Answer
  <2>2. resposta' = Vistas(by, gm)
    BY <1>3, <1>4, <1>7 DEF Softruck!Answer, Vistas
  <2>3. Periodo(by, gm)'
    BY <1>2, <2>1, <2>2 DEF Periodo
  <2> QED
    BY <2>3
<1>8. CASE estado' = "erro" /\ UNCHANGED <<pedido, entrada, resposta>>
  <2>1. Periodo(by, gm)'
    BY <1>2, <1>8 DEF Periodo
  <2> QED
    BY <2>1
<1>9. CASE UNCHANGED <<pedido, entrada, estado, resposta>>
  <2>1. Periodo(by, gm)'
    BY <1>2, <1>9 DEF Periodo
  <2> QED
    BY <2>1
<1> QED
  BY <1>1, <1>5, <1>6, <1>7, <1>8, <1>9

LEMMA SoftPromise == SoftOK => Softruck!ViewsTellTheSameTrips
<1> SUFFICES ASSUME SoftOK, pedido = "softruck", estado = "respondido"
             PROVE  Softruck!ViewsTellTheSameTrips
  BY DEF Softruck!ViewsTellTheSameTrips, Softruck!Answered
<1>1. PICK by, gm : Periodo(by, gm)
  BY DEF SoftOK
<1>2. /\ entrada.byKeys = by /\ entrada.geom = gm
      /\ Softruck!Complete(by) /\ (Softruck!Enterprise(by) => Softruck!Complete(gm))
      /\ DOMAIN gm # {} => Softruck!Enterprise(by)
      /\ resposta = Vistas(by, gm)
  BY <1>1 DEF Periodo
<1>3. \A d \in 1..DiasSoftruck : DiaOK(by[d], d)
  BY <1>1, <1>2 DEF Periodo, Softruck!Complete
<1>4. PICK D, r : D = Softruck!Resumo(by) /\ r = resposta
  OBVIOUS
<1>5. SameTrips(D, by)
  BY <1>3, <1>4, TripsAreTheSame
<1>6. /\ r.resumo.dias = D /\ r.resumo.sumario = Softruck!SumarioDoResumo(D)
      /\ r.pdf = Softruck!Pdf(by) /\ r.rotas.sumario = Softruck!Sumario(by)
      /\ r.rotas.segments = Softruck!RouteSegments(Softruck!Segmentos(by))
  BY <1>2, <1>4 DEF Vistas
<1>7. /\ r.resumo.sumario.distancia = Softruck!Distancia(TripsOf(D))
      /\ r.resumo.sumario.dias = Len(D)
  BY <1>6 DEF Softruck!SumarioDoResumo, TripsOf
<1>8. r.rotas.sumario.distancia = Softruck!Distancia(Softruck!Segmentos(by))
  BY <1>6 DEF Softruck!Sumario
<1>9. /\ r.pdf.linhas = Softruck!Segmentos(by)
      /\ DOMAIN r.pdf.grafico = {d \in 1..DiasSoftruck : by[d].segs # <<>>}
  BY <1>6 DEF Softruck!Pdf
<1>10. Softruck!Enterprise(by) <=> Softruck!Complete(gm)
  <2>1. 1 \in 1..DiasSoftruck
    BY HistoriesAssumption
  <2> QED
    BY <1>2, <2>1 DEF Softruck!Complete
<1>11. (\E d \in 1..DiasSoftruck : entrada.byKeys[d].enterprise) <=> Softruck!Complete(entrada.geom)
  BY <1>2, <1>10 DEF Softruck!Enterprise
<1>12. PICK T : T = TripsOf(D)
  OBVIOUS
<1>13. T = Softruck!FlattenSeq([k \in DOMAIN r.resumo.dias |-> r.resumo.dias[k].items])
  BY <1>6, <1>12 DEF TripsOf
<1>14. /\ T = r.rotas.segments
       /\ Softruck!Range(T) \subseteq Softruck!Range(r.pdf.linhas)
       /\ \A s \in Softruck!Range(r.pdf.linhas) :
            s \in Softruck!Range(T) \/ s.dis = 0 \/ s.dur = 0
       /\ r.resumo.sumario.distancia = r.rotas.sumario.distancia
       /\ r.resumo.sumario.dias <= Softruck!Cardinality(DOMAIN r.pdf.grafico)
  BY <1>5, <1>6, <1>7, <1>8, <1>9, <1>12 DEF SameTrips
<1> QED
  BY ONLY <1>4, <1>11, <1>13, <1>14 DEF Softruck!ViewsTellTheSameTrips

-----------------------------------------------------------------------------
(* The summary of M7.                                                      *)

Itens == [ts : Int, tipo : {"VIAGEM", "PARADO"}, movimento : Int, distancia : Nat,
          destino : BOOLEAN]

TrajetosOK ==
  pedido = "trajetos" =>
    /\ entrada \in Seq(Itens)
    /\ estado = "respondido" =>
         LET raw == M7!NoPeriodo(entrada)
         IN  resposta = [resumo |-> M7!Resumo(raw), pdf |-> M7!Pdf(raw)]

LEMMA ItemIs ==
  ASSUME NEW ts \in Int, NEW t \in {"VIAGEM", "PARADO"}, NEW m \in {40, 41}, NEW d \in {0, 7},
         NEW o \in BOOLEAN
  PROVE  [ts |-> ts, tipo |-> t, movimento |-> m, distancia |-> d, destino |-> o] \in Itens
BY DEF Itens

LEMMA TrajetosNext == TrajetosOK /\ [MCNext]_MCvars => TrajetosOK'
<1> SUFFICES ASSUME TrajetosOK, [MCNext]_MCvars, pedido' = "trajetos"
             PROVE  /\ entrada' \in Seq(Itens)
                    /\ estado' = "respondido" =>
                         resposta' = [resumo |-> M7!Resumo(M7!NoPeriodo(entrada')),
                                      pdf |-> M7!Pdf(M7!NoPeriodo(entrada'))]
  BY DEF TrajetosOK, M7!Resumo, M7!Pdf, M7!NoPeriodo
<1>1. /\ pedido = "trajetos"
      /\ \/ \E t \in {"VIAGEM", "PARADO"}, m \in {40, 41}, d \in {0, 7}, o \in BOOLEAN :
              M7!Trajeto(t, m, d, o)
         \/ \E b \in BOOLEAN : M7!Answer(b)
         \/ estado' = "erro" /\ UNCHANGED <<pedido, entrada, resposta>>
         \/ UNCHANGED <<pedido, entrada, estado, resposta>>
  BY DEF MCNext, MCvars, OfHistory, OfReport, historyVars,
     M7!Ponto, M7!PontoDaRota, M7!Trajeto, M7!Receive, M7!Answer, M7!AnswerError,
     Logica!Posicao, Logica!Registro, Logica!Receive, Logica!Answer, Logica!AnswerFallback,
     Logica!AnswerPdf, Logica!AnswerError, Softruck!ByKeys, Softruck!Geom, Softruck!Answer,
     Softruck!AnswerError, Softruck!Ponto, Softruck!Alarme, Softruck!Feature,
     Softruck!AnswerGeom, Softruck!Open, M7!Pedidos, Logica!Pedidos
<1>2. /\ entrada \in Seq(Itens)
      /\ estado = "respondido" => resposta = [resumo |-> M7!Resumo(M7!NoPeriodo(entrada)),
                                              pdf |-> M7!Pdf(M7!NoPeriodo(entrada))]
  BY <1>1 DEF TrajetosOK
<1>3. CASE \E t \in {"VIAGEM", "PARADO"}, m \in {40, 41}, d \in {0, 7}, o \in BOOLEAN :
              M7!Trajeto(t, m, d, o)
  <2>1. PICK t \in {"VIAGEM", "PARADO"}, m \in {40, 41}, d \in {0, 7}, o \in BOOLEAN :
             M7!Trajeto(t, m, d, o)
    BY <1>3
  <2>2. M7!Agora \in Int
    <3>1. CASE entrada = <<>>
      BY <3>1 DEF M7!Agora
    <3>2. CASE entrada # <<>>
      <4>1. Len(entrada) \in 1..Len(entrada)
        BY <1>2, <3>2
      <4>2. entrada[Len(entrada)] \in Itens
        BY <1>2, <4>1
      <4>3. M7!Agora = entrada[Len(entrada)].ts
        BY <3>2 DEF M7!Agora, M7!Last
      <4> QED
        BY <4>2, <4>3 DEF Itens
    <3> QED
      BY <3>1, <3>2
  <2>3. PICK r : r = [ts |-> M7!Agora + 10, tipo |-> t, movimento |-> m, distancia |-> d,
                      destino |-> o]
    OBVIOUS
  <2>4. r \in Itens
    <3>1. M7!Agora + 10 \in Int
      BY <2>2
    <3> QED
      BY <2>3, <3>1, ItemIs
  <2>5. entrada' = Append(entrada, r) /\ estado = "aberto" /\ estado' = estado
    BY <2>1, <2>3 DEF M7!Trajeto, M7!Receive
  <2>6. entrada' \in Seq(Itens)
    BY <1>2, <2>4, <2>5, AppendItems
  <2> QED
    BY <2>5, <2>6
<1>4. CASE \E b \in BOOLEAN : M7!Answer(b)
  <2>1. PICK b \in BOOLEAN : M7!Answer(b)
    BY <1>4
  <2>2. ~b /\ entrada' = entrada
    BY <1>1, <2>1 DEF M7!Answer
  <2>3. resposta' = M7!Responder(M7!NoPeriodo(entrada))
    BY <2>1, <2>2 DEF M7!Answer
  <2>4. resposta' = [resumo |-> M7!Resumo(M7!NoPeriodo(entrada)),
                     pdf |-> M7!Pdf(M7!NoPeriodo(entrada))]
    BY <1>1, <2>3 DEF M7!Responder
  <2> QED
    BY <1>2, <2>2, <2>4
<1>5. CASE estado' = "erro" /\ UNCHANGED <<pedido, entrada, resposta>>
  BY <1>2, <1>5
<1>6. CASE UNCHANGED <<pedido, entrada, estado, resposta>>
  BY <1>2, <1>6
<1> QED
  BY <1>1, <1>3, <1>4, <1>5, <1>6

\* The distance of more of the items is not less.
LEMMA TotalGrows ==
  ASSUME NEW ts \in Seq(Itens), NEW is, NEW js, is \subseteq js
  PROVE  M7!Total(ts, is) <= M7!Total(ts, js)
<1>1. PICK m \in Nat : m = Len(ts)
  OBVIOUS
<1>2. PICK f, h : /\ f = [i \in DOMAIN ts |-> IF i \in is THEN ts[i].distancia ELSE 0]
                  /\ h = [i \in DOMAIN ts |-> IF i \in js THEN ts[i].distancia ELSE 0]
  OBVIOUS
<1>3. ASSUME NEW i \in 1..m PROVE f[i] \in Int /\ h[i] \in Int /\ f[i] <= h[i]
  <2>1. ts[i] \in Itens /\ i \in DOMAIN ts
    BY <1>1
  <2>2. ts[i].distancia \in Nat
    BY <2>1 DEF Itens
  <2>3. /\ f[i] = IF i \in is THEN ts[i].distancia ELSE 0
        /\ h[i] = IF i \in js THEN ts[i].distancia ELSE 0
    BY <1>2, <2>1
  <2> QED
    BY <2>2, <2>3
<1>4. SumOf(f, m) <= SumOf(h, m)
  BY <1>3, SumMonotone
<1>5. \A x, y : M7!SumOf(x, y) = SumOf(x, y)
  BY ONLY Zenon DEF M7!SumOf, SumOf
<1>6. M7!Total(ts, is) = SumOf(f, m) /\ M7!Total(ts, js) = SumOf(h, m)
  BY <1>1, <1>2, <1>5 DEF M7!Total
<1> QED
  BY <1>4, <1>6

LEMMA TrajetosPromise == TrajetosOK => M7!SummaryWithinPdf
<1> SUFFICES ASSUME TrajetosOK, pedido = "trajetos", estado = "respondido"
             PROVE  /\ resposta.resumo.viagens \subseteq resposta.pdf.viagens
                    /\ resposta.resumo.total <= resposta.pdf.total
                    /\ \A i \in resposta.resumo.viagens : M7!NoPeriodo(entrada)[i].tipo = "VIAGEM"
  BY DEF M7!SummaryWithinPdf, M7!Answered
<1>1. PICK raw : raw = M7!NoPeriodo(entrada)
  OBVIOUS
<1>2. entrada \in Seq(Itens) /\ resposta = [resumo |-> M7!Resumo(raw), pdf |-> M7!Pdf(raw)]
  BY <1>1 DEF TrajetosOK
<1>3. raw \in Seq(Itens)
  BY <1>1, <1>2, SameParts, ThoseAre DEF M7!NoPeriodo
<1>4. PICK is : is = {i \in 1..Len(raw) : M7!Valida(raw[i])}
  OBVIOUS
<1>5. /\ resposta.resumo.viagens = is /\ resposta.resumo.total = M7!Total(raw, is)
      /\ resposta.pdf.viagens = DOMAIN raw /\ resposta.pdf.total = M7!Total(raw, DOMAIN raw)
  BY <1>2, <1>4 DEF M7!Resumo, M7!Pdf
<1>6. is \subseteq DOMAIN raw /\ \A i \in is : raw[i].tipo = "VIAGEM"
  BY <1>3, <1>4 DEF M7!Valida
<1>7. M7!Total(raw, is) <= M7!Total(raw, DOMAIN raw)
  BY <1>3, <1>6, TotalGrows
<1> QED
  BY <1>1, <1>5, <1>6, <1>7

\* ViewsTellTheSameTrips, for any number of days and trajetos: the summary, the map and
\* the PDF of a period tell the same trips and distance.
THEOREM ViewsTellTheSameTripsHolds == MCSpec => []ViewsTellTheSameTrips
<1>1. MCInit => SoftOK
  <2> SUFFICES ASSUME MCInit, pedido = "softruck" PROVE Periodo(<<>>, <<>>)
    BY DEF SoftOK
  <2>1. entrada = [byKeys |-> <<>>, geom |-> <<>>] /\ estado = "aberto"
    BY DEF MCInit, M7!Init, M7!Pedidos, Logica!Init, Logica!Pedidos, Softruck!Init
  <2>2. DOMAIN <<>> = {}
    OBVIOUS
  <2> QED
    BY <2>1, <2>2 DEF Periodo
<1>2. MCInit => TrajetosOK
  <2> SUFFICES ASSUME MCInit, pedido = "trajetos" PROVE entrada = <<>> /\ estado = "aberto"
    BY DEF TrajetosOK
  <2> QED
    BY DEF MCInit, M7!Init, M7!Pedidos, Logica!Init, Logica!Pedidos, Softruck!Init
<1>3. SoftOK /\ TrajetosOK => ViewsTellTheSameTrips
  BY SoftPromise, TrajetosPromise DEF ViewsTellTheSameTrips
<1> QED
  BY <1>1, <1>2, <1>3, SoftNext, TrajetosNext, PTL DEF MCSpec

-----------------------------------------------------------------------------
(* The stops of Logica.                                                    *)

Posicoes == [ts : Int, pos : Int, velocidade : Nat, valida : BOOLEAN]

Ts == [p \in Posicoes |-> p.ts]

Anda(ps, i) == ps[i].velocidade > 0

\* i is the first point that moves of those before ate, from de on; None, if none does.
Primeira(i, ps, de, ate) ==
  \/ i = -1 /\ \A j \in de..ate - 1 : ~Anda(ps, j)
  \/ i \in de..ate - 1 /\ Anda(ps, i) /\ \A j \in de..ate - 1 : Anda(ps, j) => i <= j

LEMMA PrimeiraIs ==
  ASSUME NEW ps, NEW de \in Nat, NEW ate \in Int
  PROVE  Primeira(Logica!PrimeiraEmMovimento(ps, de, ate), ps, de, ate)
<1>1. PICK moving : moving = {i \in de..ate - 1 : ps[i].velocidade > 0}
  OBVIOUS
<1>2. PICK p : p = Logica!PrimeiraEmMovimento(ps, de, ate)
  OBVIOUS
<1>3. CASE moving = {}
  <2>1. p = -1
    BY <1>1, <1>2, <1>3 DEF Logica!PrimeiraEmMovimento, Logica!None
  <2> QED
    BY <1>1, <1>2, <1>3, <2>1 DEF Primeira, Anda
<1>4. CASE moving # {}
  <2>1. p = Logica!Min(moving)
    BY <1>1, <1>2, <1>4 DEF Logica!PrimeiraEmMovimento
  <2>2. moving \subseteq Nat
    BY <1>1
  <2>3. PICK i \in moving : \A k \in moving : i <= k
    BY <1>4, <2>2, Least
  <2>4. p \in moving /\ \A k \in moving : p <= k
    BY <2>1, <2>3 DEF Logica!Min
  <2> QED
    BY <1>1, <1>2, <2>4 DEF Primeira, Anda
<1> QED
  BY <1>3, <1>4

Paragens == [start : Nat, terminator : Nat]

\* The stops of the first n points, for every n.
ParadasRun(f, ps) ==
  /\ Logica!Paradas(ps) = f[Len(ps)]
  /\ \A n \in 0..Len(ps) : f[n] \in Seq(Paragens)
  /\ f[0] = <<>>
  /\ \A n \in 1..Len(ps) : f[n] = Logica!ComPonto(ps, f[n - 1], n)

\* Point n goes on with the last of the stops.
Continua(ps, stops, n) ==
  /\ stops # <<>> /\ stops[Len(stops)].terminator = n
  /\ ps[n].velocidade = 0 \/ ps[n].pos = ps[stops[Len(stops)].start].pos

\* t are the stops, those before n being given.
Proxima(t, stops, ps, n) ==
  LET m == Len(stops) IN
  /\ t \in Seq(Paragens)
  /\ Continua(ps, stops, n) =>
       /\ Len(t) = m /\ \A k \in 1..m - 1 : t[k] = stops[k]
       /\ t[m].start = stops[m].start /\ t[m].terminator = n + 1
  /\ ~Continua(ps, stops, n) /\ ps[n].velocidade = 0 =>
       /\ Len(t) = m + 1 /\ \A k \in 1..m : t[k] = stops[k]
       /\ t[m + 1].start = n /\ t[m + 1].terminator = n + 1
  /\ ~Continua(ps, stops, n) /\ ps[n].velocidade # 0 => t = stops

LEMMA ComPontoIs ==
  ASSUME NEW ps, NEW stops \in Seq(Paragens), NEW n \in Nat
  PROVE  Proxima(Logica!ComPonto(ps, stops, n), stops, ps, n)
<1>a. PICK t : t = Logica!ComPonto(ps, stops, n)
  OBVIOUS
<1>1. PICK m \in Nat : t = Logica!ComPonto(ps, stops, n) /\ m = Len(stops)
  BY <1>a
<1>2. t = IF Continua(ps, stops, n) THEN [stops EXCEPT ![m].terminator = n + 1]
          ELSE IF ps[n].velocidade = 0
          THEN Append(stops, [start |-> n, terminator |-> n + 1])
          ELSE stops
  BY <1>1 DEF Logica!ComPonto, Logica!Last, Continua
<1>3. CASE Continua(ps, stops, n)
  <2>1. m \in 1..m /\ stops[m] \in Paragens
    BY <1>1, <1>3 DEF Continua
  <2>2. PICK r : r = [stops[m] EXCEPT !.terminator = n + 1]
    OBVIOUS
  <2>a. stops[m].start \in Nat /\ n + 1 \in Nat
    BY <2>1 DEF Paragens
  <2>3. r \in Paragens /\ r.start = stops[m].start /\ r.terminator = n + 1
    BY <2>1, <2>2, <2>a DEF Paragens
  <2>4. t = [stops EXCEPT ![m] = r]
    BY <1>2, <1>3, <2>2
  <2>5. t \in Seq(Paragens) /\ Len(t) = m /\ t[m] = r /\ \A k \in 1..m - 1 : t[k] = stops[k]
    BY <1>1, <2>1, <2>3, <2>4
  <2> QED
    BY <1>1, <1>3, <2>3, <2>5 DEF Proxima
<1>4. CASE ~Continua(ps, stops, n) /\ ps[n].velocidade = 0
  <2>1. PICK r : r = [start |-> n, terminator |-> n + 1]
    OBVIOUS
  <2>2. r \in Paragens /\ r.start = n /\ r.terminator = n + 1
    BY <2>1 DEF Paragens
  <2>3. t = Append(stops, r)
    BY <1>2, <1>4, <2>1
  <2>4. t \in Seq(Paragens) /\ Len(t) = m + 1 /\ t[m + 1] = r /\ \A k \in 1..m : t[k] = stops[k]
    BY <1>1, <2>2, <2>3
  <2> QED
    BY <1>1, <1>4, <2>2, <2>4 DEF Proxima
<1>5. CASE ~Continua(ps, stops, n) /\ ps[n].velocidade # 0
  BY <1>1, <1>2, <1>5 DEF Proxima
<1> QED
  BY <1>3, <1>4, <1>5

LEMMA ParadasSteps ==
  ASSUME NEW ps \in Seq(Posicoes)
  PROVE  \E f : ParadasRun(f, ps)
<1> DEFINE S == Seq(Paragens)
           step == [n \in 1..Len(ps) |-> [t \in S |-> Logica!ComPonto(ps, t, n)]]
           Body(f) == [n \in 0..Len(ps) |-> IF n = 0 THEN <<>>
                         ELSE Logica!ComPonto(ps, f[n - 1], n)]
           upTo == CHOOSE f : f = Body(f)
<1>0. Len(ps) \in Nat /\ <<>> \in S
  OBVIOUS
<1>1. step \in Steps(Len(ps), S)
  <2>1. ASSUME NEW n \in 1..Len(ps), NEW t \in S PROVE Logica!ComPonto(ps, t, n) \in S
    <3>1. n \in Nat
      OBVIOUS
    <3> QED
      BY <3>1, ComPontoIs DEF Proxima
  <2> HIDE DEF S
  <2> QED
    BY <2>1 DEF Steps
<1>2. PICK g : Runs(g, Len(ps), <<>>, step)
  <2> HIDE DEF S, step
  <2> QED
    BY <1>0, <1>1, Recursion
<1>3. \A n \in 0..Len(ps) : g[n] \in S
  <2> HIDE DEF S, step
  <2> QED
    BY <1>0, <1>1, <1>2, RunsIn
<1>4. /\ g[0] = <<>> /\ \A n \in 1..Len(ps) : g[n] = step[n][g[n - 1]]
      /\ g = [n \in 0..Len(ps) |-> g[n]]
  <2> HIDE DEF S, step
  <2>1. 0 \in 0..Len(ps) /\ \A n \in 1..Len(ps) : n \in 0..Len(ps) /\ n # 0
    BY <1>0
  <2> QED
    BY <1>2, <2>1 DEF Runs
<1>5. ASSUME NEW n \in 1..Len(ps) PROVE g[n] = Logica!ComPonto(ps, g[n - 1], n)
  <2>1. g[n - 1] \in S
    BY <1>3
  <2> QED
    BY <1>4, <2>1
<1>6. g = Body(g)
  BY <1>4, <1>5
<1>7. upTo = Body(upTo)
  <2> HIDE DEF Body
  <2> QED
    BY <1>6
<1>8. Logica!Paradas(ps) = upTo[Len(ps)]
  BY DEF Logica!Paradas
<1>9. PICK f : f = upTo
  OBVIOUS
<1> HIDE DEF upTo
<1>10. f = Body(f)
  BY <1>7, <1>9
<1>11. f[0] = <<>>
  <2>1. 0 \in 0..Len(ps)
    BY <1>0
  <2> QED
    BY <1>10, <2>1
<1>12. ASSUME NEW n \in 1..Len(ps) PROVE f[n] = Logica!ComPonto(ps, f[n - 1], n)
  <2>1. n \in 0..Len(ps) /\ n # 0
    BY <1>0
  <2> QED
    BY <1>10, <2>1
<1> DEFINE T == {n \in 0..Len(ps) : f[n] \in S}
<1>13. 0 \in T
  <2>1. 0 \in 0..Len(ps)
    BY <1>0
  <2>2. f[0] \in S
    BY <1>0, <1>11
  <2> QED
    BY <2>1, <2>2
<1>14. ASSUME NEW n \in 1..Len(ps), n - 1 \in T PROVE n \in T
  <2>1. f[n - 1] \in S /\ n \in Nat /\ n \in 0..Len(ps)
    BY <1>14
  <2>2. Logica!ComPonto(ps, f[n - 1], n) \in S
    BY <2>1, ComPontoIs DEF Proxima
  <2> QED
    BY <1>12, <2>1, <2>2
<1>15. \A n \in 0..Len(ps) : f[n] \in S
  <2> HIDE DEF T
  <2>1. 0..Len(ps) \subseteq T
    BY <1>0, <1>13, <1>14, UpTo
  <2> QED
    BY <2>1 DEF T
<1> QED
  BY <1>8, <1>9, <1>11, <1>12, <1>15 DEF ParadasRun

\* The stops of the first n points: each starts at a point that stands, one after the
\* other; before the first the vehicle moves; and what is not in the last one moves.
Paradas(stops, ps, n) ==
  /\ stops \in Seq(Paragens)
  /\ \A k \in 1..Len(stops) :
       /\ stops[k].start \in 1..n /\ stops[k].terminator <= n + 1
       /\ ~Anda(ps, stops[k].start)
  /\ \A k, l \in 1..Len(stops) : k < l => stops[k].start < stops[l].start
  /\ \A i \in 1..n : ~Anda(ps, i) => stops # <<>> /\ stops[1].start <= i
  /\ LET last == stops[Len(stops)] IN
     stops # <<>> =>
       IF last.terminator = n + 1
       THEN \A i \in last.start..n : Anda(ps, i) => ps[i].pos = ps[last.start].pos
       ELSE Anda(ps, n)

LEMMA ComPontoKeeps ==
  ASSUME NEW ps \in Seq(Posicoes), NEW n \in 1..Len(ps), NEW s, Paradas(s, ps, n - 1)
  PROVE  Paradas(Logica!ComPonto(ps, s, n), ps, n)
<1>b. PICK t : t = Logica!ComPonto(ps, s, n)
  OBVIOUS
<1>1. PICK m \in Nat : t = Logica!ComPonto(ps, s, n) /\ m = Len(s)
  <2>1. s \in Seq(Paragens)
    BY DEF Paradas
  <2> QED
    BY <1>b, <2>1
<1>2. n \in Nat /\ (n - 1) + 1 = n
  OBVIOUS
<1>3. /\ s \in Seq(Paragens)
      /\ \A k \in 1..m : /\ s[k].start \in 1..n - 1 /\ s[k].terminator <= n
                         /\ ~Anda(ps, s[k].start)
      /\ \A k, l \in 1..m : k < l => s[k].start < s[l].start
      /\ \A i \in 1..n - 1 : ~Anda(ps, i) => s # <<>> /\ s[1].start <= i
      /\ s # <<>> => IF s[m].terminator = n
                     THEN \A i \in s[m].start..n - 1 : Anda(ps, i) => ps[i].pos = ps[s[m].start].pos
                     ELSE Anda(ps, n - 1)
  BY <1>1, <1>2 DEF Paradas
<1>4. ps[n].velocidade \in Nat
  <2>1. ps[n] \in Posicoes
    OBVIOUS
  <2> QED
    BY <2>1 DEF Posicoes
<1>5. \A i \in 1..n : i \in 1..n - 1 \/ i = n
  OBVIOUS
<1>a. \A k \in 1..m : s[k].start \in Nat /\ s[k].terminator \in Nat
  <2> TAKE k \in 1..m
  <2>1. s[k] \in Paragens
    BY <1>1, <1>3
  <2> QED
    BY <2>1 DEF Paragens
<1>c. Proxima(t, s, ps, n)
  BY <1>1, <1>2, <1>3, ComPontoIs
<1>6. CASE Continua(ps, s, n)
  <2>1. /\ t \in Seq(Paragens) /\ Len(t) = m /\ \A k \in 1..m - 1 : t[k] = s[k]
        /\ t[m].start = s[m].start /\ t[m].terminator = n + 1
    BY <1>1, <1>2, <1>6, <1>c DEF Proxima
  <2>2. /\ s # <<>> /\ s[m].terminator = n /\ m \in 1..m
        /\ Anda(ps, n) => ps[n].pos = ps[s[m].start].pos
    BY <1>1, <1>3, <1>4, <1>6 DEF Continua, Anda
  <2>3. ASSUME NEW k \in 1..m PROVE t[k].start = s[k].start
    <3>1. k \in 1..m - 1 \/ k = m
      OBVIOUS
    <3> QED
      BY <2>1, <3>1
  <2>4. ASSUME NEW k \in 1..m
        PROVE  /\ t[k].start \in 1..n /\ t[k].terminator <= n + 1
               /\ ~Anda(ps, t[k].start)
    <3>1. t[k].start \in 1..n /\ ~Anda(ps, t[k].start)
      <4>1. s[k].start \in 1..n - 1 /\ ~Anda(ps, s[k].start)
        BY ONLY <1>3, k \in 1..m
      <4> QED
        BY ONLY <2>3, <4>1, k \in 1..m, n \in Nat
    <3>2. k \in 1..m - 1 \/ k = m
      OBVIOUS
    <3>3. t[k].terminator <= n + 1
      BY <1>3, <1>a, <2>1, <3>2
    <3> QED
      BY <3>1, <3>3
  <2>5. \A k, l \in 1..m : k < l => t[k].start < t[l].start
    BY <1>3, <2>3
  <2>6. ASSUME NEW i \in 1..n, ~Anda(ps, i) PROVE t # <<>> /\ t[1].start <= i
    <3>1. t # <<>> /\ 1 \in 1..m /\ t[1].start = s[1].start
      BY <2>1, <2>2, <2>3
    <3>2. CASE i = n
      BY <1>3, <3>1, <3>2
    <3>3. CASE i # n
      BY <1>3, <1>5, <2>6, <3>1, <3>3
    <3> QED
      BY <3>2, <3>3
  <2>7. ASSUME NEW i \in t[m].start..n, Anda(ps, i) PROVE ps[i].pos = ps[t[m].start].pos
    <3>1. CASE i = n
      BY <2>1, <2>2, <2>7, <3>1
    <3>2. CASE i # n
      <4>1. s[m].start \in Nat
        BY <1>a, <2>2
      <4>2. i \in s[m].start..n - 1
        BY <2>1, <3>2, <4>1
      <4> QED
        BY <1>3, <2>1, <2>2, <2>7, <4>2
    <3> QED
      BY <3>1, <3>2
  <2> QED
    BY <1>1, <2>1, <2>4, <2>5, <2>6, <2>7 DEF Paradas
<1>7. CASE ~Continua(ps, s, n) /\ ~Anda(ps, n)
  <2>1. /\ t \in Seq(Paragens) /\ Len(t) = m + 1 /\ \A k \in 1..m : t[k] = s[k]
        /\ t[m + 1].start = n /\ t[m + 1].terminator = n + 1
    <3>1. ps[n].velocidade = 0
      BY <1>4, <1>7 DEF Anda
    <3> QED
      BY <1>1, <1>2, <1>7, <1>c, <3>1 DEF Proxima
  <2>2. \A k \in 1..m + 1 : k \in 1..m \/ k = m + 1
    OBVIOUS
  <2>3. ASSUME NEW k \in 1..m + 1
        PROVE  /\ t[k].start \in 1..n /\ t[k].terminator <= n + 1
               /\ ~Anda(ps, t[k].start)
    <3>1. CASE k \in 1..m
      <4>1. t[k] = s[k] /\ s[k].terminator <= n /\ s[k].terminator \in Nat
        BY <1>3, <1>a, <2>1, <3>1
      <4> QED
        BY <1>3, <3>1, <4>1
    <3>2. CASE k = m + 1
      BY <1>7, <2>1, <3>2
    <3> QED
      BY <2>2, <3>1, <3>2
  <2>4. ASSUME NEW k \in 1..m + 1, NEW l \in 1..m + 1, k < l PROVE t[k].start < t[l].start
    <3>1. k \in 1..m /\ (l \in 1..m \/ l = m + 1)
      BY <2>2, <2>4
    <3>2. CASE l \in 1..m
      BY <1>3, <2>1, <2>4, <3>1, <3>2
    <3>3. CASE l = m + 1
      <4>1. s[k].start \in 1..n - 1
        BY <1>3, <3>1
      <4> QED
        BY <2>1, <3>1, <3>3, <4>1
    <3> QED
      BY <3>1, <3>2, <3>3
  <2>5. ASSUME NEW i \in 1..n, ~Anda(ps, i) PROVE t # <<>> /\ t[1].start <= i
    <3>1. t # <<>> /\ 1 \in 1..m + 1
      BY <2>1
    <3>2. CASE i = n
      BY <2>3, <3>1, <3>2
    <3>3. CASE i # n
      <4>1. s # <<>> /\ s[1].start <= i
        BY <1>3, <1>5, <2>5, <3>3
      <4>2. 1 \in 1..m
        BY <1>1, <1>3, <4>1
      <4> QED
        BY <2>1, <3>1, <4>1, <4>2
    <3> QED
      BY <3>2, <3>3
  <2>6. ASSUME NEW i \in n..n, Anda(ps, i) PROVE FALSE
    <3>1. i = n
      OBVIOUS
    <3> QED
      BY <1>7, <2>6, <3>1
  <2> QED
    BY <1>1, <2>1, <2>3, <2>4, <2>5, <2>6 DEF Paradas
<1>8. CASE ~Continua(ps, s, n) /\ Anda(ps, n)
  <2>1. t = s
    <3>1. ps[n].velocidade # 0
      BY <1>4, <1>8 DEF Anda
    <3> QED
      BY <1>1, <1>2, <1>8, <1>c, <3>1 DEF Proxima
  <2>2. ASSUME NEW k \in 1..m
        PROVE  /\ t[k].start \in 1..n /\ t[k].terminator <= n + 1
               /\ ~Anda(ps, t[k].start)
    <3>1. s[k].terminator <= n /\ s[k].terminator \in Nat /\ s[k].start \in 1..n - 1
      BY <1>3, <1>a
    <3> QED
      BY <1>3, <2>1, <3>1
  <2>3. ASSUME NEW i \in 1..n, ~Anda(ps, i) PROVE t # <<>> /\ t[1].start <= i
    BY <1>3, <1>5, <1>8, <2>1, <2>3
  <2>4. t # <<>> => t[m].terminator # n + 1
    <3> SUFFICES ASSUME t # <<>> PROVE t[m].terminator # n + 1
      OBVIOUS
    <3>1. m \in 1..m
      BY <1>1, <1>3, <2>1
    <3>2. s[m].terminator <= n /\ s[m].terminator \in Nat
      BY <1>3, <1>a, <3>1
    <3> QED
      BY <2>1, <3>2
  <2> QED
    BY <1>1, <1>3, <1>8, <2>1, <2>2, <2>3, <2>4 DEF Paradas
<1> QED
  BY <1>6, <1>7, <1>8

LEMMA ParadasAre ==
  ASSUME NEW ps \in Seq(Posicoes)
  PROVE  Paradas(Logica!Paradas(ps), ps, Len(ps))
<1>1. PICK f : ParadasRun(f, ps)
  BY ParadasSteps
<1> DEFINE S == {n \in 0..Len(ps) : Paradas(f[n], ps, n)}
<1>2. 0 \in S
  BY <1>1 DEF ParadasRun, Paradas
<1>3. ASSUME NEW n \in 1..Len(ps), n - 1 \in S PROVE n \in S
  <2>1. Paradas(f[n - 1], ps, n - 1) /\ n \in 0..Len(ps)
    BY <1>3
  <2>2. Paradas(Logica!ComPonto(ps, f[n - 1], n), ps, n)
    BY <2>1, ComPontoKeeps
  <2> QED
    BY <1>1, <2>1, <2>2 DEF ParadasRun
<1>4. Len(ps) \in Nat /\ Len(ps) \in 0..Len(ps)
  OBVIOUS
<1>5. Len(ps) \in S
  <2> HIDE DEF S
  <2>1. 0..Len(ps) \subseteq S
    BY <1>2, <1>3, <1>4, UpTo
  <2> QED
    BY <1>4, <2>1
<1> QED
  BY <1>1, <1>5 DEF ParadasRun

Trecho == Int \X Int

Valido(t) == t[1] # -1 /\ t[1] < t[2]

\* The vehicle drove from point i - 1 to point i.
Par(ps, i) == Anda(ps, i - 1) /\ Anda(ps, i) /\ ps[i].pos # ps[i - 1].pos

\* A trip between two stops has left its place.
Justo(ps, t) ==
  (\E i \in 1..t[1] : ~Anda(ps, i)) /\ ~Anda(ps, t[2]) => Logica!Desloca(ps, t[1], t[2])

NoTrecho(ps, t, de, ate) ==
  t[1] \in de..ate /\ t[2] \in de..ate /\ Anda(ps, t[1]) /\ Justo(ps, t)

Coberto(s, i) == \E k \in 1..Len(s) : Valido(s[k]) /\ s[k][1] < i /\ i <= s[k][2]

\* The valid ones of s are the drives from point de to point ate.
Vias(s, ps, de, ate) ==
  /\ s \in Seq(Trecho)
  /\ \A k \in 1..Len(s) : Valido(s[k]) => NoTrecho(ps, s[k], de, ate)
  /\ \A k, l \in 1..Len(s) : k < l /\ Valido(s[k]) /\ Valido(s[l]) => s[k][2] < s[l][1]
  /\ \A i \in de + 1..ate : Par(ps, i) => Coberto(s, i)

LEMMA ViasNone ==
  ASSUME NEW ps, NEW de \in Nat, NEW ate \in Nat, \A i \in de + 1..ate : ~Par(ps, i)
  PROVE  Vias(<<>>, ps, de, ate)
BY DEF Vias

LEMMA ViasOne ==
  ASSUME NEW ps, NEW de \in Nat, NEW ate \in Nat, NEW t \in Trecho,
         Valido(t) => NoTrecho(ps, t, de, ate),
         \A i \in de + 1..ate : Par(ps, i) => Valido(t) /\ t[1] < i /\ i <= t[2]
  PROVE  Vias(<<t>>, ps, de, ate)
<1>1. PICK s : s = <<t>>
  OBVIOUS
<1>2. s \in Seq(Trecho) /\ Len(s) = 1 /\ s[1] = t
  BY <1>1
<1>3. ASSUME NEW i \in de + 1..ate, Par(ps, i) PROVE Coberto(s, i)
  <2>1. 1 \in 1..Len(s)
    BY <1>2
  <2> QED
    BY <1>2, <1>3, <2>1 DEF Coberto
<1> QED
  BY <1>1, <1>2, <1>3 DEF Vias

LEMMA ViasJoined ==
  ASSUME NEW ps, NEW de \in Nat, NEW mid \in Nat, NEW ate \in Nat, de <= mid, mid <= ate,
         ~Anda(ps, mid),
         NEW s, NEW t, Vias(s, ps, de, mid), Vias(t, ps, mid, ate)
  PROVE  Vias(s \o t, ps, de, ate)
<1>1. PICK u : u = s \o t
  OBVIOUS
<1>2. s \in Seq(Trecho) /\ t \in Seq(Trecho)
  BY DEF Vias
<1>3. PICK k \in Nat : k = Len(s)
  BY <1>2
<1>4. PICK m \in Nat : m = Len(t)
  BY <1>2
<1>5. /\ u \in Seq(Trecho) /\ Len(u) = k + m
      /\ \A n \in 1..k : u[n] = s[n]
      /\ \A n \in 1..m : u[k + n] = t[n]
  BY <1>1, <1>2, <1>3, <1>4
<1>6. ASSUME NEW n \in 1..k + m
      PROVE  \/ n \in 1..k /\ u[n] = s[n]
             \/ n - k \in 1..m /\ u[n] = t[n - k]
  <2>1. n \in 1..k \/ (n - k \in 1..m /\ n = k + (n - k))
    OBVIOUS
  <2> QED
    BY <1>5, <2>1
<1>7. \A n \in 1..k : Valido(s[n]) => NoTrecho(ps, s[n], de, mid)
  BY <1>3 DEF Vias
<1>8. \A n \in 1..m : Valido(t[n]) => NoTrecho(ps, t[n], mid, ate)
  BY <1>4 DEF Vias
<1>9. ASSUME NEW n \in 1..k + m, Valido(u[n]) PROVE NoTrecho(ps, u[n], de, ate)
  <2>1. CASE n \in 1..k /\ u[n] = s[n]
    BY <1>7, <1>9, <2>1 DEF NoTrecho
  <2>2. CASE n - k \in 1..m /\ u[n] = t[n - k]
    BY <1>8, <1>9, <2>2 DEF NoTrecho
  <2> QED
    BY <1>6, <2>1, <2>2
<1>10. ASSUME NEW i \in 1..k + m, NEW j \in 1..k + m, i < j, Valido(u[i]), Valido(u[j])
       PROVE  u[i][2] < u[j][1]
  <2>1. CASE j \in 1..k /\ u[j] = s[j]
    <3>1. i \in 1..k /\ u[i] = s[i]
      BY <1>5, <1>10, <2>1
    <3>2. \A a, b \in 1..k : a < b /\ Valido(s[a]) /\ Valido(s[b]) => s[a][2] < s[b][1]
      BY <1>3 DEF Vias
    <3> QED
      BY <1>10, <2>1, <3>1, <3>2
  <2>2. CASE j - k \in 1..m /\ u[j] = t[j - k]
    <3>1. CASE i \in 1..k /\ u[i] = s[i]
      <4>1. u[i][2] \in de..mid
        BY <1>7, <1>10, <3>1 DEF NoTrecho
      <4>2. u[j][1] \in mid..ate /\ Anda(ps, u[j][1])
        BY <1>8, <1>10, <2>2 DEF NoTrecho
      <4>3. u[j][1] # mid
        BY <4>2
      <4> QED
        BY <4>1, <4>2, <4>3
    <3>2. CASE i - k \in 1..m /\ u[i] = t[i - k]
      <4>1. \A a, b \in 1..m : a < b /\ Valido(t[a]) /\ Valido(t[b]) => t[a][2] < t[b][1]
        BY <1>4 DEF Vias
      <4>2. i - k < j - k
        BY <1>10
      <4> QED
        BY <1>10, <2>2, <3>2, <4>1, <4>2
    <3> QED
      BY <1>6, <3>1, <3>2
  <2> QED
    BY <1>6, <2>1, <2>2
<1>11. ASSUME NEW i \in de + 1..ate, Par(ps, i) PROVE Coberto(u, i)
  <2>1. CASE i <= mid
    <3>1. Coberto(s, i)
      <4>1. i \in de + 1..mid
        BY <2>1
      <4> QED
        BY <1>11, <4>1 DEF Vias
    <3>2. PICK n \in 1..k : Valido(s[n]) /\ s[n][1] < i /\ i <= s[n][2]
      BY <1>3, <3>1 DEF Coberto
    <3>3. n \in 1..Len(u) /\ u[n] = s[n]
      BY <1>5
    <3> QED
      BY <3>2, <3>3 DEF Coberto
  <2>2. CASE mid < i
    <3>1. Coberto(t, i)
      <4>1. i \in mid + 1..ate
        BY <2>2
      <4> QED
        BY <1>11, <4>1 DEF Vias
    <3>2. PICK n \in 1..m : Valido(t[n]) /\ t[n][1] < i /\ i <= t[n][2]
      BY <1>4, <3>1 DEF Coberto
    <3>3. k + n \in 1..Len(u) /\ u[k + n] = t[n]
      BY <1>5
    <3> QED
      BY <3>2, <3>3 DEF Coberto
  <2> QED
    BY <2>1, <2>2
<1> QED
  BY <1>1, <1>5, <1>9, <1>10, <1>11 DEF Vias

-----------------------------------------------------------------------------
(* The trips between the stops.                                            *)

Etapas(m) == [k : 1..m, trechos : Seq(Trecho)]

\* b follows a at stop n.
ComParadaDe(b, a, ps, stops, n) ==
  LET p == Logica!PrimeiraEmMovimento(ps, stops[a.k].start, stops[a.k + 1].start) IN
  /\ b \in Etapas(Len(stops))
  /\ p = -1 => b.k = n /\ b.trechos = a.trechos
  /\ p # -1 /\ ~Logica!Desloca(ps, p, stops[n].start) => b = a
  /\ p # -1 /\ Logica!Desloca(ps, p, stops[n].start) =>
       b.k = n /\ b.trechos = a.trechos \o <<<<p, stops[n].start>>>>

LEMMA ComParadaIs ==
  ASSUME NEW ps, NEW stops \in Seq(Paragens), NEW n \in 1..Len(stops),
         NEW a \in Etapas(Len(stops)), a.k < Len(stops)
  PROVE  ComParadaDe(Logica!ComParada(ps, stops, a, n), a, ps, stops, n)
<1>1. PICK b : b = Logica!ComParada(ps, stops, a, n)
  OBVIOUS
<1>2. PICK p : p = Logica!PrimeiraEmMovimento(ps, stops[a.k].start, stops[a.k + 1].start)
  OBVIOUS
<1>3. b = IF p = -1 THEN [a EXCEPT !.k = n]
          ELSE IF ~Logica!Desloca(ps, p, stops[n].start) THEN a
          ELSE [k |-> n, trechos |-> Append(a.trechos, <<p, stops[n].start>>)]
  BY <1>1, <1>2 DEF Logica!ComParada, Logica!None
<1>4. /\ a.k \in 1..Len(stops) /\ a.trechos \in Seq(Trecho)
      /\ a.k + 1 \in 1..Len(stops)
  BY DEF Etapas
<1>5. stops[a.k].start \in Nat /\ stops[a.k + 1].start \in Nat /\ stops[n].start \in Nat
  <2>1. \A i \in 1..Len(stops) : stops[i] \in Paragens
    OBVIOUS
  <2> QED
    BY <1>4, <2>1 DEF Paragens
<1>6. p \in Int
  <2>1. Primeira(p, ps, stops[a.k].start, stops[a.k + 1].start)
    BY <1>2, <1>5, PrimeiraIs
  <2> QED
    BY <1>5, <2>1 DEF Primeira
<1>7. CASE p = -1
  <2>1. b = [a EXCEPT !.k = n]
    BY <1>3, <1>7
  <2>2. b \in Etapas(Len(stops)) /\ b.k = n /\ b.trechos = a.trechos
    BY <2>1 DEF Etapas
  <2> QED
    BY <1>1, <1>2, <1>7, <2>2 DEF ComParadaDe
<1>8. CASE p # -1 /\ ~Logica!Desloca(ps, p, stops[n].start)
  BY <1>1, <1>2, <1>3, <1>8 DEF ComParadaDe
<1>9. CASE p # -1 /\ Logica!Desloca(ps, p, stops[n].start)
  <2>1. PICK t : t = <<p, stops[n].start>>
    OBVIOUS
  <2>2. t \in Trecho
    BY <1>5, <1>6, <2>1 DEF Trecho
  <2>3. PICK u : u = Append(a.trechos, t)
    OBVIOUS
  <2>4. u \in Seq(Trecho) /\ u = a.trechos \o <<t>>
    BY <1>4, <2>2, <2>3
  <2>5. b = [k |-> n, trechos |-> u]
    BY <1>3, <1>9, <2>1, <2>3
  <2>6. b \in Etapas(Len(stops)) /\ b.k = n /\ b.trechos = u
    BY <2>4, <2>5 DEF Etapas
  <2> QED
    BY <1>1, <1>2, <1>9, <2>1, <2>4, <2>6 DEF ComParadaDe
<1> QED
  BY <1>7, <1>8, <1>9

\* The trips up to stop n + 1, for every n.
EntreRun(f, ps, stops) ==
  /\ Logica!EntreParadas(ps, stops) = f[Len(stops) - 1].trechos
  /\ f[0] = [k |-> 1, trechos |-> <<>>]
  /\ \A n \in 1..Len(stops) - 1 : f[n] = Logica!ComParada(ps, stops, f[n - 1], n + 1)

LEMMA EntreSteps ==
  ASSUME NEW ps, NEW stops \in Seq(Paragens), stops # <<>>
  PROVE  \E f : EntreRun(f, ps, stops)
<1>1. PICK m \in Nat : m = Len(stops)
  OBVIOUS
<1>2. m - 1 \in Nat
  BY <1>1
<1>3. PICK base : base = [k |-> 1, trechos |-> <<>>]
  OBVIOUS
<1>4. PICK S : S = Etapas(m)
  OBVIOUS
<1>5. base \in S /\ base.k = 1
  <2>1. 1 \in 1..m /\ <<>> \in Seq(Trecho)
    BY <1>2
  <2> QED
    BY <1>3, <1>4, <2>1 DEF Etapas
<1> DEFINE step == [n \in 1..m - 1 |-> [a \in S |->
                     IF a.k < m THEN Logica!ComParada(ps, stops, a, n + 1) ELSE a]]
           Body(f) == [n \in 0..m - 1 |-> IF n = 0 THEN base
                         ELSE Logica!ComParada(ps, stops, f[n - 1], n + 1)]
           upTo == CHOOSE f : f = Body(f)
<1>6. ASSUME NEW n \in 1..m - 1, NEW a \in S, a.k < m
      PROVE  /\ Logica!ComParada(ps, stops, a, n + 1) \in S
             /\ Logica!ComParada(ps, stops, a, n + 1).k \in {a.k, n + 1}
  <2>1. n + 1 \in 1..Len(stops)
    BY <1>1, <1>2
  <2>2. ComParadaDe(Logica!ComParada(ps, stops, a, n + 1), a, ps, stops, n + 1)
    BY <1>1, <1>4, <1>6, <2>1, ComParadaIs
  <2> QED
    BY <1>1, <1>4, <2>2 DEF ComParadaDe
<1>7. step \in Steps(m - 1, S)
  BY <1>6 DEF Steps
<1>8. PICK g : Runs(g, m - 1, base, step)
  <2> HIDE DEF step
  <2> QED
    BY <1>2, <1>5, <1>7, Recursion
<1>9. \A n \in 0..m - 1 : g[n] \in S
  <2> HIDE DEF step
  <2> QED
    BY <1>2, <1>5, <1>7, <1>8, RunsIn
<1>10. /\ g[0] = base /\ \A n \in 1..m - 1 : g[n] = step[n][g[n - 1]]
       /\ g = [n \in 0..m - 1 |-> g[n]]
  <2> HIDE DEF step
  <2>1. 0 \in 0..m - 1 /\ \A n \in 1..m - 1 : n \in 0..m - 1 /\ n # 0
    BY <1>2
  <2> QED
    BY <1>8, <2>1 DEF Runs
<1>11. ASSUME NEW n \in 1..m - 1
       PROVE  g[n] = IF g[n - 1].k < m THEN Logica!ComParada(ps, stops, g[n - 1], n + 1)
                     ELSE g[n - 1]
  <2>1. g[n - 1] \in S
    BY <1>9
  <2> QED
    BY <1>10, <2>1
<1> HIDE DEF step
<1> DEFINE T == {n \in 0..m - 1 : g[n].k <= n + 1}
<1>12. 0 \in T
  BY <1>2, <1>5, <1>10
<1>13. ASSUME NEW n \in 1..m - 1, n - 1 \in T PROVE n \in T
  <2>1. g[n - 1].k <= n /\ n < m /\ n \in 0..m - 1 /\ g[n - 1] \in S
    BY <1>2, <1>9, <1>13
  <2>2. g[n - 1].k \in 1..m
    BY <1>4, <2>1 DEF Etapas
  <2>3. g[n - 1].k < m
    BY <2>1, <2>2
  <2>4. g[n].k \in {g[n - 1].k, n + 1}
    BY <1>6, <1>11, <2>1, <2>3
  <2> QED
    BY <2>1, <2>2, <2>4
<1>14. 0..m - 1 \subseteq T
  <2> HIDE DEF T
  <2> QED
    BY <1>2, <1>12, <1>13, UpTo
<1>15. ASSUME NEW n \in 1..m - 1 PROVE g[n] = Logica!ComParada(ps, stops, g[n - 1], n + 1)
  <2>1. n - 1 \in 0..m - 1
    BY <1>2
  <2>2. g[n - 1].k <= (n - 1) + 1 /\ g[n - 1] \in S
    BY <1>9, <1>14, <2>1
  <2>3. g[n - 1].k \in 1..m
    BY <1>4, <2>2 DEF Etapas
  <2>4. g[n - 1].k < m
    BY <2>2, <2>3
  <2> QED
    BY <1>11, <2>4
<1>16. g = Body(g)
  <2>1. ASSUME NEW n \in 0..m - 1
        PROVE  g[n] = IF n = 0 THEN base ELSE Logica!ComParada(ps, stops, g[n - 1], n + 1)
    <3>1. n = 0 \/ n \in 1..m - 1
      OBVIOUS
    <3> QED
      BY <1>10, <1>15, <3>1
  <2> QED
    BY <1>10, <2>1
<1>17. upTo = Body(upTo)
  <2> HIDE DEF Body
  <2> QED
    BY <1>16
<1>18. Logica!EntreParadas(ps, stops) = upTo[m - 1].trechos
  BY <1>1, <1>3 DEF Logica!EntreParadas
<1>19. PICK f : f = upTo
  OBVIOUS
<1> HIDE DEF upTo
<1>20. f = Body(f)
  BY <1>17, <1>19
<1>21. f[0] = base
  <2>1. 0 \in 0..m - 1
    BY <1>2
  <2> QED
    BY <1>20, <2>1
<1>22. ASSUME NEW n \in 1..m - 1 PROVE f[n] = Logica!ComParada(ps, stops, f[n - 1], n + 1)
  <2>1. n \in 0..m - 1 /\ n # 0
    BY <1>2
  <2> QED
    BY <1>20, <2>1
<1>23. Logica!EntreParadas(ps, stops) = f[m - 1].trechos
  BY <1>18, <1>19
<1> QED
  BY <1>1, <1>3, <1>21, <1>22, <1>23 DEF EntreRun

\* The trips up to stop n + 1: a.k is the stop that the last of them ended at, and since
\* then the vehicle has not driven.
EntreOK(a, ps, stops, n) ==
  /\ a \in Etapas(Len(stops)) /\ a.k <= n + 1
  /\ Vias(a.trechos, ps, stops[1].start, stops[a.k].start)
  /\ \A i \in stops[a.k].start + 1..stops[n + 1].start : ~Par(ps, i)
  /\ LET p == Logica!PrimeiraEmMovimento(ps, stops[a.k].start, stops[a.k + 1].start) IN
     a.k <= n => p # -1 /\ ~Logica!Desloca(ps, p, stops[n + 1].start)

\* What the proofs need of the stops.
Ordem(stops, ps) ==
  /\ \A k \in 1..Len(stops) : stops[k].start \in Nat \ {0} /\ ~Anda(ps, stops[k].start)
  /\ \A k, l \in 1..Len(stops) : k < l => stops[k].start < stops[l].start

LEMMA EntreKeeps ==
  ASSUME NEW ps, NEW stops \in Seq(Paragens), Ordem(stops, ps),
         NEW n \in 1..Len(stops) - 1, NEW a, EntreOK(a, ps, stops, n - 1)
  PROVE  EntreOK(Logica!ComParada(ps, stops, a, n + 1), ps, stops, n)
<1>1. PICK m \in Nat : m = Len(stops)
  OBVIOUS
<1>2. n \in 1..m /\ n + 1 \in 1..m /\ 1 \in 1..m /\ (n - 1) + 1 = n
  BY <1>1
<1>3. PICK b : b = Logica!ComParada(ps, stops, a, n + 1)
  OBVIOUS
<1>4. PICK p : p = Logica!PrimeiraEmMovimento(ps, stops[a.k].start, stops[a.k + 1].start)
  OBVIOUS
<1>5. /\ a \in Etapas(m) /\ a.k <= n
      /\ Vias(a.trechos, ps, stops[1].start, stops[a.k].start)
      /\ \A i \in stops[a.k].start + 1..stops[n].start : ~Par(ps, i)
      /\ a.k <= n - 1 => p # -1 /\ ~Logica!Desloca(ps, p, stops[n].start)
  BY <1>1, <1>2, <1>4 DEF EntreOK
<1>6. a.k \in 1..m /\ a.k + 1 \in 1..m /\ a.k < m
  <2>1. a.k \in 1..m
    BY <1>5 DEF Etapas
  <2> QED
    BY <1>2, <1>5, <2>1
<1>7. ComParadaDe(b, a, ps, stops, n + 1)
  BY <1>1, <1>2, <1>3, <1>5, <1>6, ComParadaIs
<1>8. PICK de \in Nat, ao \in Nat, q \in Nat, r \in Nat, um \in Nat :
        /\ de = stops[a.k].start /\ ao = stops[a.k + 1].start
        /\ q = stops[n].start /\ r = stops[n + 1].start /\ um = stops[1].start
  BY <1>1, <1>2, <1>6 DEF Ordem
<1>9. /\ um <= de /\ de <= q /\ q < r /\ ~Anda(ps, de)
      /\ a.k = n => ao = r
      /\ a.k # n => ao <= q
  <2>1. \A k, l \in 1..m : k < l => stops[k].start < stops[l].start
    BY <1>1 DEF Ordem
  <2>2. ~Anda(ps, de)
    BY <1>1, <1>6, <1>8 DEF Ordem
  <2>3. um <= de
    <3>1. a.k = 1 \/ 1 < a.k
      BY <1>6
    <3>2. 1 < a.k => um < de
      BY ONLY <1>2, <1>6, <1>8, <2>1
    <3> QED
      BY ONLY <1>8, <3>1, <3>2
  <2>4. de <= q
    <3>1. a.k = n \/ a.k < n
      BY <1>5, <1>6
    <3>2. a.k < n => de < q
      BY ONLY <1>2, <1>6, <1>8, <2>1
    <3> QED
      BY ONLY <1>8, <3>1, <3>2
  <2>5. q < r
    BY <1>2, <1>8, <2>1
  <2>6. a.k = n => ao = r
    BY <1>8
  <2>7. a.k # n => ao <= q
    <3>1. a.k # n => a.k + 1 = n \/ a.k + 1 < n
      BY <1>5, <1>6
    <3>2. a.k + 1 < n => ao < q
      BY ONLY <1>2, <1>6, <1>8, <2>1
    <3>3. a.k + 1 = n => ao = q
      BY ONLY <1>8
    <3> QED
      BY ONLY <1>8, <3>1, <3>2, <3>3
  <2> QED
    BY ONLY <2>2, <2>3, <2>4, <2>5, <2>6, <2>7
<1>10. Primeira(p, ps, de, ao)
  <2>1. Primeira(Logica!PrimeiraEmMovimento(ps, de, ao), ps, de, ao)
    <3>1. de \in Nat /\ ao \in Int
      OBVIOUS
    <3> QED
      BY ONLY <3>1, PrimeiraIs
  <2>2. p = Logica!PrimeiraEmMovimento(ps, de, ao)
    BY ONLY <1>4, <1>8
  <2> QED
    BY ONLY <2>1, <2>2
<1>11. ASSUME NEW i \in q + 1..r, Par(ps, i)
       PROVE  p # -1 /\ p \in de..ao - 1 /\ p <= i - 1
  <2>1. Anda(ps, i - 1)
    BY <1>11 DEF Par
  <2>2. CASE a.k = n
    <3>1. de = q /\ ao = r
      BY ONLY <1>8, <1>9, <2>2
    <3>2. i \in q + 1..r /\ q \in Nat /\ r \in Nat
      BY <1>11
    <3>3. i - 1 \in de..ao - 1
      BY ONLY <3>1, <3>2
    <3> QED
      BY <1>10, <2>1, <3>3 DEF Primeira
  <2>3. CASE a.k # n
    <3>1. p # -1
      BY <1>2, <1>5, <1>6, <2>3
    <3>2. p \in de..ao - 1
      BY <1>10, <3>1 DEF Primeira
    <3>3. ao <= q
      BY <1>9, <2>3
    <3> QED
      BY <3>1, <3>2, <3>3
  <2> QED
    BY <2>2, <2>3
<1>12. \A i \in de + 1..q : ~Par(ps, i)
  BY <1>5, <1>8
<1>13. Vias(a.trechos, ps, um, de)
  BY <1>5, <1>8
<1>14. CASE p = -1
  <2>1. b \in Etapas(m) /\ b.k = n + 1 /\ b.trechos = a.trechos
    BY <1>1, <1>4, <1>7, <1>14 DEF ComParadaDe
  <2>2. ASSUME NEW i \in de + 1..r PROVE ~Par(ps, i)
    <3>1. i \in de + 1..q \/ i \in q + 1..r
      BY <1>9
    <3> QED
      BY <1>11, <1>12, <1>14, <3>1
  <2>3. PICK nada : nada = <<>>
    OBVIOUS
  <2>a. Vias(nada, ps, de, r)
    BY <2>2, <2>3, ViasNone
  <2>4. Vias(a.trechos \o nada, ps, um, r)
    BY <1>9, <1>13, <2>a, ViasJoined
  <2>5. a.trechos \o nada = a.trechos
    BY <1>5, <2>3 DEF Etapas
  <2>6. Vias(b.trechos, ps, um, stops[b.k].start)
    BY <1>8, <2>1, <2>4, <2>5
  <2>7. \A i \in stops[b.k].start + 1..stops[n + 1].start : ~Par(ps, i)
    BY <1>8, <2>1
  <2>8. b.k <= n + 1 /\ ~(b.k <= n)
    BY <2>1
  <2> QED
    BY <1>1, <1>3, <1>8, <2>1, <2>6, <2>7, <2>8 DEF EntreOK
<1>15. CASE p # -1 /\ ~Logica!Desloca(ps, p, stops[n + 1].start)
  <2>1. b = a
    BY <1>4, <1>7, <1>15 DEF ComParadaDe
  <2>2. ASSUME NEW i \in de + 1..r PROVE ~Par(ps, i)
    <3>1. i \in de + 1..q \/ i \in q + 1..r
      BY <1>9
    <3>2. ASSUME i \in q + 1..r, Par(ps, i) PROVE FALSE
      <4>1. p \in Int /\ p <= i - 1
        BY <1>11, <3>2
      <4>2. \A j \in p + 1..r : ps[j].pos = ps[p].pos
        BY <1>8, <1>15 DEF Logica!Desloca
      <4>3. ps[i].pos = ps[p].pos
        BY <3>2, <4>1, <4>2
      <4>4. ps[i - 1].pos = ps[p].pos
        <5>1. i - 1 = p \/ i - 1 \in p + 1..r
          BY <3>2, <4>1
        <5> QED
          BY <4>2, <5>1
      <4> QED
        BY <3>2, <4>3, <4>4 DEF Par
    <3> QED
      BY <1>12, <3>1, <3>2
  <2>3. /\ b \in Etapas(m) /\ b.k <= n + 1
        /\ Vias(b.trechos, ps, stops[1].start, stops[b.k].start)
    BY <1>5, <1>6, <2>1
  <2>4. \A i \in stops[b.k].start + 1..stops[n + 1].start : ~Par(ps, i)
    BY <1>8, <2>1, <2>2
  <2> QED
    BY <1>1, <1>3, <1>4, <1>15, <2>1, <2>3, <2>4 DEF EntreOK
<1>16. CASE p # -1 /\ Logica!Desloca(ps, p, stops[n + 1].start)
  <2>1. PICK t : t = <<p, r>>
    OBVIOUS
  <2>2. b \in Etapas(m) /\ b.k = n + 1 /\ b.trechos = a.trechos \o <<t>>
    BY <1>1, <1>4, <1>7, <1>8, <1>16, <2>1 DEF ComParadaDe
  <2>3. p \in de..ao - 1 /\ Anda(ps, p) /\ ao <= r
    <3>1. ao <= r
      BY <1>9
    <3> QED
      BY <1>10, <1>16, <3>1 DEF Primeira
  <2>4. t \in Trecho /\ t[1] = p /\ t[2] = r
    BY <2>1, <2>3 DEF Trecho
  <2>5. Valido(t) => NoTrecho(ps, t, de, r)
    <3>1. Justo(ps, t)
      BY <1>8, <1>16, <2>4 DEF Justo
    <3>2. t[1] \in de..r /\ t[2] \in de..r
      BY <1>9, <2>3, <2>4
    <3> QED
      BY <2>3, <2>4, <3>1, <3>2 DEF NoTrecho
  <2>6. ASSUME NEW i \in de + 1..r, Par(ps, i) PROVE Valido(t) /\ t[1] < i /\ i <= t[2]
    <3>1. i \in q + 1..r
      BY <1>9, <1>12, <2>6
    <3>2. p # -1 /\ p \in Int /\ p <= i - 1
      BY <1>11, <2>6, <3>1
    <3>3. p < i /\ i <= r /\ p < r
      BY <3>1, <3>2
    <3> QED
      BY <2>4, <3>2, <3>3 DEF Valido
  <2>7. Vias(<<t>>, ps, de, r)
    BY <2>4, <2>5, <2>6, ViasOne
  <2>8. Vias(a.trechos \o <<t>>, ps, um, r)
    BY <1>9, <1>13, <2>7, ViasJoined
  <2>9. Vias(b.trechos, ps, um, stops[b.k].start)
    BY <1>8, <2>2, <2>8
  <2>10. \A i \in stops[b.k].start + 1..stops[n + 1].start : ~Par(ps, i)
    BY <1>8, <2>2
  <2>11. b.k <= n + 1 /\ ~(b.k <= n)
    BY <2>2
  <2> QED
    BY <1>1, <1>3, <1>8, <2>2, <2>9, <2>10, <2>11 DEF EntreOK
<1> QED
  BY <1>14, <1>15, <1>16

LEMMA EntreAre ==
  ASSUME NEW ps, NEW stops \in Seq(Paragens), Ordem(stops, ps), stops # <<>>
  PROVE  Vias(Logica!EntreParadas(ps, stops), ps, stops[1].start, stops[Len(stops)].start)
<1>1. PICK m \in Nat : m = Len(stops)
  OBVIOUS
<1>2. m - 1 \in Nat /\ 1 \in 1..m /\ m \in 1..m /\ 0 \in 0..m - 1 /\ m - 1 \in 0..m - 1
  BY <1>1
<1>3. PICK f : EntreRun(f, ps, stops)
  BY EntreSteps
<1>4. \A k \in 1..m : stops[k].start \in Nat /\ ~Anda(ps, stops[k].start)
  BY <1>1 DEF Ordem
<1> DEFINE T == {n \in 0..m - 1 : EntreOK(f[n], ps, stops, n)}
<1>5. 0 \in T
  <2>1. PICK a : a = f[0]
    OBVIOUS
  <2>2. a = [k |-> 1, trechos |-> <<>>]
    BY <1>3, <2>1 DEF EntreRun
  <2>3. a \in Etapas(m) /\ a.k = 1 /\ a.trechos = <<>>
    BY <1>2, <2>2 DEF Etapas
  <2>4. \A i \in stops[1].start + 1..stops[1].start : ~Par(ps, i)
    BY <1>2, <1>4
  <2>5. Vias(<<>>, ps, stops[1].start, stops[1].start)
    BY <1>2, <1>4, <2>4, ViasNone
  <2>6. a.k <= 0 + 1 /\ ~(a.k <= 0) /\ 0 + 1 = 1
    BY <2>3
  <2>7. EntreOK(a, ps, stops, 0)
    BY <1>1, <2>3, <2>4, <2>5, <2>6 DEF EntreOK
  <2> QED
    BY <1>2, <2>1, <2>7
<1>6. ASSUME NEW n \in 1..m - 1, n - 1 \in T PROVE n \in T
  <2>1. EntreOK(f[n - 1], ps, stops, n - 1) /\ n \in 0..m - 1
    BY <1>6
  <2>2. EntreOK(Logica!ComParada(ps, stops, f[n - 1], n + 1), ps, stops, n)
    BY <1>1, <2>1, EntreKeeps
  <2> QED
    BY <1>1, <1>3, <2>1, <2>2 DEF EntreRun
<1>7. 0..m - 1 \subseteq T
  <2> HIDE DEF T
  <2> QED
    BY <1>2, <1>5, <1>6, UpTo
<1>8. PICK a : a = f[m - 1]
  OBVIOUS
<1>9. EntreOK(a, ps, stops, m - 1) /\ (m - 1) + 1 = m
  BY <1>2, <1>7, <1>8
<1>10. /\ a \in Etapas(m)
       /\ Vias(a.trechos, ps, stops[1].start, stops[a.k].start)
       /\ \A i \in stops[a.k].start + 1..stops[m].start : ~Par(ps, i)
  BY <1>1, <1>9 DEF EntreOK
<1>11. a.k \in 1..m /\ a.trechos \in Seq(Trecho)
  BY <1>10 DEF Etapas
<1>12. PICK de \in Nat, um \in Nat, r \in Nat :
         de = stops[a.k].start /\ um = stops[1].start /\ r = stops[m].start
  BY <1>2, <1>4, <1>11
<1>13. um <= de /\ de <= r /\ ~Anda(ps, de)
  <2>1. \A k, l \in 1..m : k < l => stops[k].start < stops[l].start
    BY <1>1 DEF Ordem
  <2>2. (a.k = 1 \/ 1 < a.k) /\ (a.k = m \/ a.k < m)
    BY <1>11
  <2>3. um <= de
    BY <1>2, <1>11, <1>12, <2>1, <2>2
  <2>4. de <= r
    BY <1>2, <1>11, <1>12, <2>1, <2>2
  <2> QED
    BY <1>4, <1>11, <1>12, <2>3, <2>4
<1>14. Vias(<<>>, ps, de, r)
  BY <1>10, <1>12, ViasNone
<1>15. Vias(a.trechos, ps, um, de)
  BY <1>10, <1>12
<1>16. Vias(a.trechos \o <<>>, ps, um, r)
  BY <1>13, <1>14, <1>15, ViasJoined
<1>17. a.trechos \o <<>> = a.trechos
  BY <1>11
<1>18. Logica!EntreParadas(ps, stops) = a.trechos
  BY <1>1, <1>3, <1>8 DEF EntreRun
<1> QED
  BY <1>1, <1>12, <1>16, <1>17, <1>18

LEMMA TrechosAre ==
  ASSUME NEW ps \in Seq(Posicoes)
  PROVE  Vias(Logica!Trechos(ps), ps, 1, Len(ps))
<1>1. PICK n \in Nat : n = Len(ps)
  OBVIOUS
<1>2. PICK stops : stops = Logica!Paradas(ps)
  OBVIOUS
<1>3. Paradas(stops, ps, n)
  BY <1>1, <1>2, ParadasAre
<1>4. stops \in Seq(Paragens)
  BY <1>3 DEF Paradas
<1>5. CASE n = 0
  <2>1. Logica!Trechos(ps) = <<>>
    BY <1>1, <1>5 DEF Logica!Trechos
  <2>2. \A i \in 1 + 1..n : ~Par(ps, i)
    BY <1>5
  <2> QED
    BY <1>1, <2>1, <2>2, ViasNone
<1>6. CASE n # 0 /\ stops = <<>>
  <2>1. \A i \in 1..n : Anda(ps, i)
    BY <1>3, <1>6 DEF Paradas
  <2>2. PICK p : p = Logica!PrimeiraEmMovimento(ps, 1, n + 1)
    OBVIOUS
  <2>3. PICK t : t = <<p, n>>
    OBVIOUS
  <2>4. Logica!Trechos(ps) = <<t>>
    BY <1>1, <1>2, <1>6, <2>2, <2>3 DEF Logica!Trechos
  <2>5. p = 1
    <3>1. Primeira(p, ps, 1, n + 1) /\ 1 \in 1..n /\ (n + 1) - 1 = n
      BY <1>6, <2>2, PrimeiraIs
    <3> QED
      BY <2>1, <3>1 DEF Primeira
  <2>6. t \in Trecho /\ t[1] = 1 /\ t[2] = n
    BY <2>3, <2>5 DEF Trecho
  <2>7. NoTrecho(ps, t, 1, n)
    <3>1. 1 \in 1..n /\ n \in 1..n
      BY <1>6
    <3>2. Justo(ps, t)
      BY <2>1, <2>6, <3>1 DEF Justo
    <3> QED
      BY <2>1, <2>6, <3>1, <3>2 DEF NoTrecho
  <2>8. ASSUME NEW i \in 1 + 1..n PROVE Valido(t) /\ t[1] < i /\ i <= t[2]
    BY <2>6 DEF Valido
  <2>9. Vias(<<t>>, ps, 1, n)
    BY <2>6, <2>7, <2>8, ViasOne
  <2> QED
    BY <1>1, <2>4, <2>9
<1>7. CASE n # 0 /\ stops # <<>>
  <2>1. PICK m \in Nat : m = Len(stops)
    BY <1>4
  <2>2. m \in 1..m /\ 1 \in 1..m
    BY <1>4, <1>7, <2>1
  <2>3. /\ \A k \in 1..m : stops[k].start \in 1..n /\ ~Anda(ps, stops[k].start)
        /\ \A i \in 1..n : ~Anda(ps, i) => stops[1].start <= i
        /\ IF stops[m].terminator = n + 1
           THEN \A i \in stops[m].start..n : Anda(ps, i) => ps[i].pos = ps[stops[m].start].pos
           ELSE Anda(ps, n)
        /\ stops[m].terminator <= n + 1
    BY <1>3, <1>7, <2>1, <2>2 DEF Paradas
  <2>4. \A k, l \in 1..m : k < l => stops[k].start < stops[l].start
    BY <1>3, <2>1 DEF Paradas
  <2>5. stops[m].terminator \in Nat
    <3>1. stops[m] \in Paragens
      BY <1>4, <2>1, <2>2
    <3> QED
      BY <3>1 DEF Paragens
  <2>6. Ordem(stops, ps)
    BY <2>1, <2>3, <2>4 DEF Ordem
  <2>7. PICK um \in 1..n, fim \in 1..n : um = stops[1].start /\ fim = stops[m].start
    BY <2>2, <2>3
  <2>8. um <= fim /\ ~Anda(ps, um) /\ ~Anda(ps, fim)
    <3>1. m = 1 \/ 1 < m
      BY <2>2
    <3> QED
      BY <2>2, <2>3, <2>4, <2>7, <3>1
  <2>9. PICK p : p = Logica!PrimeiraEmMovimento(ps, 1, stops[1].start)
    OBVIOUS
  <2>10. PICK t : t = <<p, um>>
    OBVIOUS
  <2>11. PICK e : e = Logica!EntreParadas(ps, stops)
    OBVIOUS
  <2>12. PICK b : b = Logica!BordaFinal(ps, stops)
    OBVIOUS
  <2>13. Logica!Trechos(ps) = <<t>> \o e \o b
    BY <1>1, <1>2, <1>7, <2>7, <2>9, <2>10, <2>11, <2>12 DEF Logica!Trechos
  <2>14. \A i \in 1..um - 1 : Anda(ps, i)
    BY <2>3, <2>7
  <2>15. Primeira(p, ps, 1, um)
    BY <2>7, <2>9, PrimeiraIs
  <2>16. p \in Int /\ (p = -1 \/ (p = 1 /\ 1 < um))
    <3>1. p # -1 => p \in 1..um - 1 /\ 1 \in 1..um - 1
      BY <2>15 DEF Primeira
    <3>2. p # -1 => p <= 1
      BY <2>14, <2>15, <3>1 DEF Primeira
    <3> QED
      BY <3>1, <3>2
  <2>17. t \in Trecho /\ t[1] = p /\ t[2] = um
    BY <2>10, <2>16 DEF Trecho
  <2>18. Valido(t) => NoTrecho(ps, t, 1, um)
    <3> SUFFICES ASSUME Valido(t) PROVE NoTrecho(ps, t, 1, um)
      OBVIOUS
    <3>1. p = 1 /\ 1 < um
      BY <2>16, <2>17 DEF Valido
    <3>2. Anda(ps, 1)
      BY <2>14, <3>1
    <3>3. \A i \in 1..1 : Anda(ps, i)
      BY <3>2
    <3>4. Justo(ps, t)
      BY <2>17, <3>1, <3>3 DEF Justo
    <3> QED
      BY <2>17, <3>1, <3>2, <3>4 DEF NoTrecho
  <2>19. ASSUME NEW i \in 1 + 1..um PROVE Valido(t) /\ t[1] < i /\ i <= t[2]
    <3>1. 1 < um /\ 1 \in 1..um - 1
      OBVIOUS
    <3>2. Anda(ps, 1)
      BY <2>14, <3>1
    <3>3. p # -1
      BY <2>15, <3>1, <3>2 DEF Primeira
    <3>4. p = 1
      BY <2>16, <3>3
    <3> QED
      BY <2>17, <3>1, <3>4 DEF Valido
  <2>20. Vias(<<t>>, ps, 1, um)
    BY <2>17, <2>18, <2>19, ViasOne
  <2>21. Vias(e, ps, um, fim)
    BY <1>4, <1>7, <2>1, <2>6, <2>7, <2>11, EntreAre
  <2>22. Vias(<<t>> \o e, ps, 1, fim)
    <3>1. 1 \in Nat /\ um \in Nat /\ fim \in Nat /\ 1 <= um
      OBVIOUS
    <3> QED
      BY <2>8, <2>20, <2>21, <3>1, ViasJoined
  <2>23. Vias(b, ps, fim, n)
    <3>1. CASE stops[m].terminator = n + 1
      <4>1. b = <<>>
        <5>1. stops[m].terminator > Len(ps)
          BY <1>1, <3>1
        <5> QED
          BY <2>1, <2>12, <5>1 DEF Logica!BordaFinal, Logica!Last
      <4>2. ASSUME NEW i \in fim + 1..n, Par(ps, i) PROVE FALSE
        <5>1. i \in fim..n /\ i - 1 \in fim..n
          OBVIOUS
        <5>2. ps[i].pos = ps[fim].pos /\ ps[i - 1].pos = ps[fim].pos
          BY <2>3, <2>7, <3>1, <4>2, <5>1 DEF Par
        <5> QED
          BY <4>2, <5>2 DEF Par
      <4> QED
        BY <4>1, <4>2, ViasNone
    <3>2. CASE stops[m].terminator # n + 1
      <4>1. Anda(ps, n)
        BY <2>3, <3>2
      <4>2. PICK q : q = Logica!PrimeiraEmMovimento(ps, fim, n + 1)
        OBVIOUS
      <4>3. PICK u : u = <<q, n>>
        OBVIOUS
      <4>4. b = <<u>>
        <5>1. ~(stops[m].terminator > Len(ps))
          <6>1. stops[m].terminator <= n + 1 /\ stops[m].terminator # n + 1 /\ n = Len(ps)
            BY <1>1, <2>3, <3>2
          <6> QED
            BY ONLY <2>5, <6>1, n \in Nat
        <5> QED
          BY <1>1, <2>1, <2>7, <2>12, <4>2, <4>3, <5>1 DEF Logica!BordaFinal, Logica!Last
      <4>5. Primeira(q, ps, fim, n + 1) /\ n \in fim..(n + 1) - 1
        BY <4>2, PrimeiraIs
      <4>6. /\ q \in fim..n /\ Anda(ps, q) /\ q # -1
            /\ \A j \in fim..n : Anda(ps, j) => q <= j
        BY <4>1, <4>5 DEF Primeira
      <4>7. u \in Trecho /\ u[1] = q /\ u[2] = n
        BY <4>3, <4>6 DEF Trecho
      <4>8. NoTrecho(ps, u, fim, n)
        <5>1. Justo(ps, u)
          BY <4>1, <4>7 DEF Justo
        <5> QED
          BY <4>6, <4>7, <5>1 DEF NoTrecho
      <4>9. ASSUME NEW i \in fim + 1..n, Par(ps, i) PROVE Valido(u) /\ u[1] < i /\ i <= u[2]
        <5>1. i - 1 \in fim..n /\ Anda(ps, i - 1)
          BY <4>9 DEF Par
        <5>2. q <= i - 1
          BY <4>6, <5>1
        <5>3. q < i /\ i <= n /\ q < n
          BY <4>6, <5>2
        <5> QED
          BY <4>6, <4>7, <5>3 DEF Valido
      <4>10. Vias(<<u>>, ps, fim, n)
        BY <4>7, <4>8, <4>9, ViasOne
      <4> QED
        BY <4>4, <4>10
    <3> QED
      BY <3>1, <3>2
  <2>24. PICK x : x = <<t>> \o e
    OBVIOUS
  <2>25. Vias(x, ps, 1, fim)
    BY <2>22, <2>24
  <2>26. Vias(x \o b, ps, 1, n)
    BY <2>8, <2>23, <2>25, ViasJoined
  <2> QED
    BY <1>1, <2>13, <2>24, <2>26
<1> QED
  BY <1>5, <1>6, <1>7

-----------------------------------------------------------------------------
(* The answer of Logica.                                                   *)

\* The positions of an answer: in whatever order, but one to an instant.
DeLogica(q) == q \in Seq(Posicoes) /\ Distinct(q, Ts)

LogicaOK ==
  pedido = "logica" =>
    /\ entrada \in Seq(Posicoes) /\ Rises(entrada, Ts)
    /\ estado = "respondido" =>
         \E q, paradas : DeLogica(q) /\ resposta = Logica!Historico(q, paradas)

LEMMA TsIs == Ts \in [Posicoes -> Int] /\ \A p \in Posicoes : Ts[p] = p.ts
BY DEF Ts, Posicoes

LEMMA PosicaoIs ==
  ASSUME NEW v, v \in {0, 30}, NEW t \in Int, NEW x \in Int, NEW ok \in BOOLEAN
  PROVE  [ts |-> t, pos |-> x, velocidade |-> v, valida |-> ok] \in Posicoes
<1>1. v \in Nat
  OBVIOUS
<1> QED
  BY <1>1 DEF Posicoes

LEMMA EmptyIs ==
  ASSUME NEW A, NEW s \in Seq(A), Len(s) = 0
  PROVE  s = <<>>
  OBVIOUS

LEMMA NextRises ==
  ASSUME NEW s \in Seq(Posicoes), Rises(s, Ts), NEW p \in Posicoes,
         \A i \in 1..Len(s) : s[i].ts < p.ts
  PROVE  Append(s, p) \in Seq(Posicoes) /\ Rises(Append(s, p), Ts)
<1>1. PICK t : t = Append(s, p)
  OBVIOUS
<1>2. PICK n \in Nat : n = Len(s)
  OBVIOUS
<1>3. t \in Seq(Posicoes) /\ Len(t) = n + 1 /\ t[n + 1] = p /\ \A i \in 1..n : t[i] = s[i]
  BY <1>1, <1>2
<1>4. ASSUME NEW i \in 1..n + 1, NEW k \in 1..n + 1, i < k PROVE Ts[t[i]] < Ts[t[k]]
  <2>1. i \in 1..n /\ (k \in 1..n \/ k = n + 1)
    BY <1>4
  <2>2. CASE k \in 1..n
    BY <1>2, <1>3, <1>4, <2>1, <2>2 DEF Rises
  <2>3. CASE k = n + 1
    <3>1. s[i] \in Posicoes /\ s[i].ts < p.ts
      BY <1>2, <2>1
    <3> QED
      BY <1>3, <2>1, <2>3, <3>1, TsIs
  <2> QED
    BY <2>1, <2>2, <2>3
<1>5. Rises(t, Ts)
  BY <1>3, <1>4 DEF Rises
<1> QED
  BY <1>1, <1>3, <1>5

LEMMA RisesDistinct ==
  ASSUME NEW A, NEW s \in Seq(A), NEW key \in [A -> Int], Rises(s, key)
  PROVE  Distinct(s, key)
<1>1. \A i \in 1..Len(s) : key[s[i]] \in Int
  OBVIOUS
<1>2. ASSUME NEW i \in 1..Len(s), NEW k \in 1..Len(s), i # k PROVE key[s[i]] # key[s[k]]
  <2>1. i < k \/ k < i
    BY <1>2
  <2> QED
    BY <1>1, <2>1 DEF Rises
<1> QED
  BY <1>2 DEF Distinct

LEMMA ReverseDistinct ==
  ASSUME NEW A, NEW s \in Seq(A), NEW key, Distinct(s, key)
  PROVE  Logica!Reverse(s) \in Seq(A) /\ Distinct(Logica!Reverse(s), key)
<1>1. PICK t : t = Logica!Reverse(s)
  OBVIOUS
<1>2. PICK n \in Nat : n = Len(s)
  OBVIOUS
<1>3. t = [i \in 1..n |-> s[(n - i) + 1]]
  BY <1>1, <1>2 DEF Logica!Reverse
<1>4. \A i \in 1..n : s[i] \in A /\ (n - i) + 1 \in 1..n
  BY <1>2
<1>5. t \in Seq(A) /\ Len(t) = n /\ \A i \in 1..n : t[i] = s[(n - i) + 1]
  BY <1>3, <1>4
<1>6. ASSUME NEW i \in 1..n, NEW k \in 1..n, i # k PROVE key[t[i]] # key[t[k]]
  <2>1. PICK a \in 1..n, b \in 1..n : a = (n - i) + 1 /\ b = (n - k) + 1
    BY <1>4
  <2>2. a # b /\ t[i] = s[a] /\ t[k] = s[b]
    BY <1>5, <1>6, <2>1
  <2>3. key[s[a]] # key[s[b]]
    BY <1>2, <2>2 DEF Distinct
  <2> QED
    BY <2>2, <2>3
<1>7. Distinct(t, key)
  BY <1>5, <1>6 DEF Distinct
<1> QED
  BY <1>1, <1>5, <1>7

\* Logica gives points one after the other, and the answer is a history of them, in any
\* order, or of some of them.
LEMMA LogicaNext == LogicaOK /\ [MCNext]_MCvars => LogicaOK'
<1> SUFFICES ASSUME LogicaOK, [MCNext]_MCvars, pedido' = "logica"
             PROVE  /\ entrada' \in Seq(Posicoes) /\ Rises(entrada', Ts)
                    /\ estado' = "respondido" =>
                         \E q, paradas :
                           DeLogica(q) /\ resposta' = Logica!Historico(q, paradas)
  BY DEF LogicaOK, Logica!Historico
<1>1. /\ pedido = "logica"
      /\ \/ \E v \in {0, 30}, d \in {-1, 0, 1} : Logica!Posicao(v, d, TRUE)
         \/ Logica!Posicao(0, 1, FALSE)
         \/ \E b \in BOOLEAN, ps \in {{}, {1}} : Logica!Answer(b, ps)
         \/ \E ps \in {{}, {1}} : Logica!AnswerFallback(ps)
         \/ estado' = "erro" /\ UNCHANGED <<pedido, entrada, resposta>>
         \/ UNCHANGED <<pedido, entrada, estado, resposta>>
  BY DEF MCNext, MCvars, OfHistory, OfReport, historyVars,
     M7!Ponto, M7!PontoDaRota, M7!Trajeto, M7!Receive, M7!Answer, M7!AnswerError,
     Logica!Posicao, Logica!Registro, Logica!Receive, Logica!Answer, Logica!AnswerFallback,
     Logica!AnswerPdf, Logica!AnswerError, Softruck!ByKeys, Softruck!Geom, Softruck!Answer,
     Softruck!AnswerError, Softruck!Ponto, Softruck!Alarme, Softruck!Feature,
     Softruck!AnswerGeom, Softruck!Open, M7!Pedidos, Logica!Pedidos
<1>2. /\ entrada \in Seq(Posicoes) /\ Rises(entrada, Ts)
      /\ estado = "respondido" =>
           \E q, paradas : DeLogica(q) /\ resposta = Logica!Historico(q, paradas)
  BY <1>1 DEF LogicaOK
<1>3. ASSUME NEW v, v \in {0, 30}, NEW d, d \in {-1, 0, 1}, NEW ok \in BOOLEAN,
             Logica!Posicao(v, d, ok)
      PROVE  entrada' \in Seq(Posicoes) /\ Rises(entrada', Ts) /\ estado' = "aberto"
  <2>1. PICK n \in Nat : n = Len(entrada)
    BY <1>2
  <2>2. PICK p : p = [ts |-> Logica!Agora + 1, pos |-> Logica!Aqui + d, velocidade |-> v,
                      valida |-> ok]
    OBVIOUS
  <2>3. entrada' = Append(entrada, p) /\ estado' = "aberto"
    BY <1>3, <2>2 DEF Logica!Posicao, Logica!Receive
  <2>4. /\ Logica!Agora \in Int /\ Logica!Aqui \in Int
        /\ \A i \in 1..n : entrada[i].ts <= Logica!Agora
    <3>1. CASE n = 0
      <4>1. entrada = <<>>
        BY <1>2, <2>1, <3>1, EmptyIs
      <4> QED
        BY <2>1, <3>1, <4>1 DEF Logica!Agora, Logica!Aqui
    <3>2. CASE n # 0
      <4>1. n \in 1..n /\ entrada # <<>>
        BY <2>1, <3>2
      <4>2. \A i \in 1..n : entrada[i] \in Posicoes
        BY <1>2, <2>1
      <4>3. \A i \in 1..n : entrada[i].ts \in Int /\ entrada[i].pos \in Int
        BY <4>2 DEF Posicoes
      <4>4. Logica!Agora = entrada[n].ts /\ Logica!Aqui = entrada[n].pos
        BY <2>1, <4>1 DEF Logica!Agora, Logica!Aqui, Logica!Last
      <4>5. ASSUME NEW i \in 1..n PROVE entrada[i].ts <= entrada[n].ts
        <5>1. i = n \/ i < n
          OBVIOUS
        <5>2. i < n => Ts[entrada[i]] < Ts[entrada[n]]
          BY <1>2, <2>1, <4>1 DEF Rises
        <5>3. Ts[entrada[i]] = entrada[i].ts /\ Ts[entrada[n]] = entrada[n].ts
          BY <4>1, <4>2, TsIs
        <5> QED
          BY <4>1, <4>3, <5>1, <5>2, <5>3
      <4> QED
        BY <4>1, <4>3, <4>4, <4>5
    <3> QED
      BY <3>1, <3>2
  <2>5. Logica!Agora + 1 \in Int /\ Logica!Aqui + d \in Int
    BY <1>3, <2>4
  <2>6. p \in Posicoes /\ p.ts = Logica!Agora + 1
    BY <1>3, <2>2, <2>5, PosicaoIs
  <2>7. ASSUME NEW i \in 1..Len(entrada) PROVE entrada[i].ts < p.ts
    <3>1. entrada[i].ts \in Int
      <4>1. entrada[i] \in Posicoes
        BY <1>2
      <4> QED
        BY <4>1 DEF Posicoes
    <3> QED
      BY <2>1, <2>4, <2>6, <3>1
  <2> QED
    BY <1>2, <2>3, <2>6, <2>7, NextRises
<1>4. CASE \E v \in {0, 30}, d \in {-1, 0, 1} : Logica!Posicao(v, d, TRUE)
  BY <1>3, <1>4
<1>5. CASE Logica!Posicao(0, 1, FALSE)
  BY <1>3, <1>5
<1>6. Distinct(entrada, Ts)
  BY <1>2, TsIs, RisesDistinct
<1>7. CASE \E b \in BOOLEAN, ps \in {{}, {1}} : Logica!Answer(b, ps)
  <2>1. PICK b \in BOOLEAN, ps \in {{}, {1}} : Logica!Answer(b, ps)
    BY <1>7
  <2>2. PICK q : q = IF b THEN Logica!Reverse(entrada) ELSE entrada
    OBVIOUS
  <2>3. entrada' = entrada /\ resposta' = Logica!Historico(q, ps)
    BY <2>1, <2>2 DEF Logica!Answer
  <2>4. DeLogica(q)
    BY <1>2, <1>6, <2>2, ReverseDistinct DEF DeLogica
  <2> QED
    BY <1>2, <2>3, <2>4
<1>8. CASE \E ps \in {{}, {1}} : Logica!AnswerFallback(ps)
  <2>1. PICK ps \in {{}, {1}} : Logica!AnswerFallback(ps)
    BY <1>8
  <2>2. PICK few : few = {i \in DOMAIN entrada : i % 2 = 1}
    OBVIOUS
  <2>3. PICK q : q = Those(entrada, few)
    OBVIOUS
  <2>4. entrada' = entrada /\ resposta' = Logica!Historico(q, ps)
    BY <2>1, <2>2, <2>3, SamePartsLogica DEF Logica!AnswerFallback
  <2>5. DeLogica(q)
    BY <1>2, <1>6, <2>3, ThoseAre, ThoseDistinct DEF DeLogica
  <2> QED
    BY <1>2, <2>4, <2>5
<1>9. CASE estado' = "erro" /\ UNCHANGED <<pedido, entrada, resposta>>
  BY <1>2, <1>9
<1>10. CASE UNCHANGED <<pedido, entrada, estado, resposta>>
  BY <1>2, <1>10
<1> QED
  BY <1>1, <1>4, <1>5, <1>7, <1>8, <1>9, <1>10

LEMMA PontosAre ==
  ASSUME NEW q, DeLogica(q)
  PROVE  Logica!Pontos(q) \in Seq(Posicoes) /\ Rises(Logica!Pontos(q), Ts)
<1>1. PICK is : is = {i \in DOMAIN q : q[i].valida}
  OBVIOUS
<1>2. PICK ps : ps = Those(q, is)
  OBVIOUS
<1>3. q \in Seq(Posicoes) /\ Distinct(q, Ts)
  BY DEF DeLogica
<1>4. ps \in Seq(Posicoes) /\ Distinct(ps, Ts)
  BY <1>2, <1>3, ThoseAre, ThoseDistinct
<1>5. PICK key : key = [i \in DOMAIN ps |-> ps[i].ts]
  OBVIOUS
<1>6. Logica!Pontos(q) = Sorted(ps, key)
  BY <1>1, <1>2, <1>5, SamePartsLogica DEF Logica!Pontos
<1>7. \A i \in 1..Len(ps) : key[i] = Ts[ps[i]]
  <2>1. \A i \in 1..Len(ps) : ps[i] \in Posicoes /\ i \in DOMAIN ps
    BY <1>4
  <2> QED
    BY <1>5, <2>1, TsIs
<1>8. Ts \in [Posicoes -> Int]
  BY TsIs
<1>9. PICK z : z = Sorted(ps, key)
  OBVIOUS
<1>10. z \in Seq(Posicoes) /\ Rises(z, Ts)
  BY ONLY <1>4, <1>7, <1>8, <1>9, SortedRises
<1> QED
  BY <1>6, <1>9, <1>10

\* ts are the trips of the points ps: the drives, none lost.
Trips(ts, ps) ==
  /\ ts \in Seq(Trecho)
  /\ \A k \in 1..Len(ts) : Valido(ts[k]) /\ NoTrecho(ps, ts[k], 1, Len(ps))
  /\ \A k \in 2..Len(ts) : ts[k - 1][2] < ts[k][1]
  /\ \A i \in 2..Len(ps) : Par(ps, i) => \E k \in 1..Len(ts) : ts[k][1] < i /\ i <= ts[k][2]

LEMMA ViagensAre ==
  ASSUME NEW ps \in Seq(Posicoes), NEW paradas
  PROVE  \E ts : /\ Trips(ts, ps)
                 /\ Logica!Viagens(ps, paradas) =
                      [k \in DOMAIN ts |-> Logica!Viagem(ps, ts[k], paradas)]
<1>1. PICK todos : todos = Logica!Trechos(ps)
  OBVIOUS
<1>2. Vias(todos, ps, 1, Len(ps))
  BY <1>1, TrechosAre
<1>3. todos \in Seq(Trecho)
  BY <1>2 DEF Vias
<1>4. PICK is : is = {k \in DOMAIN todos : /\ todos[k][1] # Logica!None
                                           /\ todos[k][1] < todos[k][2]}
  OBVIOUS
<1>5. PICK ts : ts = Those(todos, is)
  OBVIOUS
<1>6. Logica!Viagens(ps, paradas) = [k \in DOMAIN ts |-> Logica!Viagem(ps, ts[k], paradas)]
  BY <1>1, <1>4, <1>5, SamePartsLogica DEF Logica!Viagens
<1>7. \A k \in 1..Len(todos) : k \in is <=> Valido(todos[k])
  BY <1>3, <1>4 DEF Valido, Logica!None
<1>8. PICK r : ts \in Seq(Trecho) /\ IsPart(r, ts, todos, is)
  BY <1>3, <1>5, ThosePart
<1>9. \A k \in 1..Len(ts) : /\ r[k] \in 1..Len(todos) /\ r[k] \in is
                            /\ ts[k] = todos[r[k]] /\ Valido(ts[k])
  BY <1>7, <1>8 DEF IsPart
<1>10. \A k \in 1..Len(ts) : NoTrecho(ps, ts[k], 1, Len(ps))
  BY <1>2, <1>9 DEF Vias
<1>11. ASSUME NEW k \in 2..Len(ts) PROVE ts[k - 1][2] < ts[k][1]
  <2>1. k - 1 \in 1..Len(ts) /\ k \in 1..Len(ts) /\ k - 1 < k
    OBVIOUS
  <2>2. r[k - 1] < r[k]
    BY <1>8, <2>1 DEF IsPart
  <2>3. \A i, j \in 1..Len(todos) :
          i < j /\ Valido(todos[i]) /\ Valido(todos[j]) => todos[i][2] < todos[j][1]
    BY <1>2 DEF Vias
  <2> QED
    BY <1>9, <2>1, <2>2, <2>3
<1>12. ASSUME NEW i \in 2..Len(ps), Par(ps, i)
       PROVE  \E k \in 1..Len(ts) : ts[k][1] < i /\ i <= ts[k][2]
  <2>1. Coberto(todos, i)
    <3>1. i \in 1 + 1..Len(ps)
      OBVIOUS
    <3> QED
      BY <1>2, <1>12, <3>1 DEF Vias
  <2>2. PICK j \in 1..Len(todos) : Valido(todos[j]) /\ todos[j][1] < i /\ i <= todos[j][2]
    BY <2>1 DEF Coberto
  <2>3. PICK k \in 1..Len(ts) : r[k] = j
    BY <1>7, <1>8, <2>2 DEF IsPart
  <2> QED
    BY <1>9, <2>2, <2>3
<1>13. Trips(ts, ps)
  BY <1>8, <1>9, <1>10, <1>11, <1>12 DEF Trips
<1> QED
  BY <1>6, <1>13

LEMMA DrivesPromise == LogicaOK => DrivesAreTrips
<1> SUFFICES ASSUME LogicaOK, pedido = "logica", estado = "respondido" PROVE DrivesAreTrips
  BY DEF DrivesAreTrips, Logica!DrivesAreTrips, Logica!Answered
<1>1. PICK q, paradas : DeLogica(q) /\ resposta = Logica!Historico(q, paradas)
  BY DEF LogicaOK
<1>2. PICK ps : ps = Logica!Pontos(q)
  OBVIOUS
<1>3. ps \in Seq(Posicoes)
  BY <1>1, <1>2, PontosAre
<1>4. PICK vs : vs = Logica!Viagens(ps, paradas)
  OBVIOUS
<1>5. resposta.pontos = ps /\ resposta.viagens = vs
  BY <1>1, <1>2, <1>4 DEF Logica!Historico
<1>6. PICK ts : /\ Trips(ts, ps)
                /\ vs = [k \in DOMAIN ts |-> Logica!Viagem(ps, ts[k], paradas)]
  BY <1>3, <1>4, ViagensAre
<1>7. ts \in Seq(Trecho)
  BY <1>6 DEF Trips
<1>8. /\ DOMAIN vs = 1..Len(ts) /\ Len(vs) = Len(ts)
      /\ \A k \in 1..Len(ts) : vs[k].trecho = ts[k]
  BY <1>6, <1>7 DEF Logica!Viagem
<1>9. \A k \in 2..Len(vs) : vs[k - 1].trecho[2] < vs[k].trecho[1]
  <2> TAKE k \in 2..Len(vs)
  <2>1. k \in 1..Len(ts) /\ k - 1 \in 1..Len(ts) /\ k \in 2..Len(ts)
    BY <1>8
  <2>2. ts[k - 1][2] < ts[k][1]
    BY <1>6, <2>1 DEF Trips
  <2> QED
    BY <1>8, <2>1, <2>2
<1>10. \A i \in 1..Len(ps) : ps[i].velocidade \in Nat
  <2>1. \A i \in 1..Len(ps) : ps[i] \in Posicoes
    BY <1>3
  <2> QED
    BY <2>1 DEF Posicoes
<1>11. \A v \in Logica!Range(vs) :
         (\E i \in 1..v.trecho[1] : ps[i].velocidade = 0) /\ ps[v.trecho[2]].velocidade = 0
           => Logica!Desloca(ps, v.trecho[1], v.trecho[2])
  <2> TAKE v \in Logica!Range(vs)
  <2>1. PICK k \in 1..Len(ts) : v = vs[k]
    BY <1>8, SamePartsLogica
  <2>2. v.trecho = ts[k]
    BY <1>8, <2>1
  <2>3. Justo(ps, ts[k])
    BY <1>6 DEF Trips, NoTrecho
  <2>4. ASSUME NEW i, ps[i].velocidade = 0 PROVE ~Anda(ps, i)
    BY <2>4 DEF Anda
  <2> QED
    BY <2>2, <2>3, <2>4 DEF Justo
<1>12. \A i \in 2..Len(ps) :
         ~(ps[i - 1].velocidade = 0) /\ ~(ps[i].velocidade = 0) /\ ps[i].pos # ps[i - 1].pos
           => \E v \in Logica!Range(vs) : v.trecho[1] < i /\ i <= v.trecho[2]
  <2> SUFFICES ASSUME NEW i \in 2..Len(ps), ~(ps[i - 1].velocidade = 0),
                      ~(ps[i].velocidade = 0), ps[i].pos # ps[i - 1].pos
               PROVE  \E v \in Logica!Range(vs) : v.trecho[1] < i /\ i <= v.trecho[2]
    OBVIOUS
  <2>1. i \in 1..Len(ps) /\ i - 1 \in 1..Len(ps)
    OBVIOUS
  <2>2. Par(ps, i)
    <3>1. ps[i].velocidade > 0 /\ ps[i - 1].velocidade > 0
      BY <1>10, <2>1
    <3> QED
      BY <3>1 DEF Par, Anda
  <2>3. PICK k \in 1..Len(ts) : ts[k][1] < i /\ i <= ts[k][2]
    BY <1>6, <2>2 DEF Trips
  <2>4. vs[k] \in Logica!Range(vs)
    BY <1>8, SamePartsLogica
  <2> QED
    BY <1>8, <2>3, <2>4
<1>13. Logica!DrivesAreTrips
  BY ONLY <1>5, <1>9, <1>11, <1>12 DEF Logica!DrivesAreTrips
<1> QED
  BY <1>13 DEF DrivesAreTrips

LEMMA LogicaInit == MCInit => LogicaOK
<1> SUFFICES ASSUME MCInit, pedido = "logica" PROVE entrada = <<>> /\ estado = "aberto"
  BY DEF LogicaOK, Rises
<1> QED
  BY DEF MCInit, M7!Init, M7!Pedidos, Logica!Init, Logica!Pedidos, Softruck!Init

\* DrivesAreTrips, for any bounds, any number of points and in whatever order they come:
\* a trip runs from the first moving point after a stop to the first stop at another
\* place, and frozen points do not cut it.
THEOREM DrivesAreTripsHolds == MCSpec => []DrivesAreTrips
BY LogicaInit, LogicaNext, DrivesPromise, PTL DEF MCSpec

-----------------------------------------------------------------------------
(* The map of Logica.                                                      *)

\* The points of the trip v lie within it, and it is as long as they are.
NoMapa(v) ==
  /\ v.pontos \in Seq(Posicoes) /\ 1 \in 1..Len(v.pontos)
  /\ v.inicio \in Int /\ v.pontos[1].ts = v.inicio
  /\ \A i \in 1..Len(v.pontos) : v.pontos[i].ts \in v.inicio..v.fim
  /\ Logica!Percurso(v.pontos, 1, Len(v.pontos)) = v.distancia

LEMMA SubSeqIs ==
  ASSUME NEW A, NEW s \in Seq(A), NEW a \in 1..Len(s), NEW b \in a..Len(s)
  PROVE  /\ SubSeq(s, a, b) \in Seq(A) /\ Len(SubSeq(s, a, b)) = b - a + 1
         /\ \A i \in 1..b - a + 1 : SubSeq(s, a, b)[i] = s[a + i - 1]
  OBVIOUS

LEMMA ViagemIs ==
  ASSUME NEW ps \in Seq(Posicoes), Rises(ps, Ts), NEW t \in Trecho, NEW paradas,
         Valido(t), NoTrecho(ps, t, 1, Len(ps))
  PROVE  NoMapa(Logica!Viagem(ps, t, paradas))
<1>1. PICK v : v = Logica!Viagem(ps, t, paradas)
  OBVIOUS
<1>2. PICK n \in Nat : n = Len(ps)
  OBVIOUS
<1>3. PICK de \in 1..n, ate \in 1..n : de = t[1] /\ ate = t[2]
  BY <1>2 DEF NoTrecho
<1>4. de < ate
  BY <1>3 DEF Valido
<1>5. PICK a \in 1..n : a = IF de = 1 THEN 1 ELSE de - 1
  BY <1>3
<1>6. a = Logica!Max({1, de - 1})
  <2>1. a \in {1, de - 1} /\ \A y \in {1, de - 1} : y <= a
    BY <1>3, <1>5
  <2>2. {1, de - 1} \subseteq Int
    BY <1>3
  <2> QED
    BY <2>1, <2>2, MaxIs
<1>b. a <= de /\ de <= a + 1
  BY <1>3, <1>5
<1>7. PICK m \in Nat : m = ate - a + 1 /\ m > 1
  BY <1>4, <1>b
<1>8. PICK s : s = SubSeq(ps, a, ate)
  OBVIOUS
<1>9. s \in Seq(Posicoes) /\ Len(s) = m /\ \A i \in 1..m : s[i] = ps[a + i - 1]
  <2>1. a \in 1..Len(ps) /\ ate \in a..Len(ps)
    BY <1>2, <1>4, <1>b
  <2>2. /\ s \in Seq(Posicoes) /\ Len(s) = ate - a + 1
        /\ \A i \in 1..ate - a + 1 : s[i] = ps[a + i - 1]
    BY ONLY ps \in Seq(Posicoes), <1>8, <2>1, SubSeqIs
  <2> QED
    BY ONLY <1>7, <2>2
<1>10. \A i \in 1..n : ps[i] \in Posicoes /\ Ts[ps[i]] = ps[i].ts /\ ps[i].ts \in Int
  <2>1. \A i \in 1..n : ps[i] \in Posicoes
    BY <1>2
  <2> QED
    BY <2>1, TsIs DEF Posicoes
<1>11. PICK um : um = [s[1] EXCEPT !.ts = ps[de].ts]
  OBVIOUS
<1>12. um \in Posicoes /\ um.ts = ps[de].ts /\ um.pos = s[1].pos
  <2>1. s[1] \in Posicoes
    BY <1>7, <1>9
  <2> QED
    BY <1>3, <1>10, <1>11, <2>1 DEF Posicoes
<1>13. PICK w : w = [s EXCEPT ![1] = um]
  OBVIOUS
<1>14. /\ w \in Seq(Posicoes) /\ Len(w) = m /\ 1 \in 1..m /\ w[1] = um
       /\ \A i \in 2..m : w[i] = ps[a + i - 1]
  <2>1. 1 \in 1..m /\ \A i \in 2..m : i \in 1..m /\ i # 1
    BY <1>7
  <2> QED
    BY <1>9, <1>12, <1>13, <2>1
<1>15. \A i \in 1..m : w[i].pos = ps[a + i - 1].pos
  <2> TAKE i \in 1..m
  <2>1. i = 1 \/ i \in 2..m
    OBVIOUS
  <2>2. CASE i = 1
    <3>1. s[1] = ps[a + 1 - 1]
      BY ONLY <1>9, <1>14
    <3> QED
      BY ONLY <1>12, <1>14, <2>2, <3>1
  <2>3. CASE i \in 2..m
    BY ONLY <1>14, <2>3
  <2> QED
    BY ONLY <2>1, <2>2, <2>3
<1>16. /\ v.inicio = ps[de].ts /\ v.fim = ps[ate].ts
       /\ v.distancia = Logica!Percurso(ps, a, ate)
       /\ v.pontos = w
  <2>1. Logica!Trilha(ps, a, t) = w
    BY <1>3, <1>8, <1>11, <1>13 DEF Logica!Trilha
  <2> QED
    BY ONLY <1>1, <1>3, <1>6, <2>1 DEF Logica!Viagem
<1>17. \A i, j \in 1..n : i <= j => ps[i].ts <= ps[j].ts
  <2> TAKE i, j \in 1..n
  <2>1. i < j => Ts[ps[i]] < Ts[ps[j]]
    BY <1>2 DEF Rises
  <2> QED
    BY <1>10, <2>1
<1>18. ASSUME NEW i \in 1..m PROVE w[i].ts \in v.inicio..v.fim
  <2>1. CASE i = 1
    <3>1. v.inicio \in Int /\ v.fim \in Int /\ v.inicio <= v.fim
      <4>1. de \in 1..n /\ ate \in 1..n /\ de <= ate
        BY <1>3, <1>4
      <4> QED
        BY ONLY <1>10, <1>16, <1>17, <4>1
    <3>2. w[i].ts = v.inicio
      BY <1>12, <1>14, <1>16, <2>1
    <3> QED
      BY <3>1, <3>2
  <2>2. CASE i # 1
    <3>1. PICK j \in 1..n : j = a + i - 1 /\ de <= j /\ j <= ate
      BY <1>b, <1>7, <2>2
    <3>2. w[i] = ps[j]
      BY <1>14, <2>2, <3>1
    <3>3. de \in 1..n /\ ate \in 1..n
      BY <1>3, <1>4
    <3>4. ps[de].ts <= ps[j].ts /\ ps[j].ts <= ps[ate].ts
      BY ONLY <1>17, <3>1, <3>3, j \in 1..n
    <3>5. ps[j].ts \in Int /\ ps[de].ts \in Int /\ ps[ate].ts \in Int
      BY ONLY <1>10, <3>3, j \in 1..n
    <3> QED
      BY ONLY <1>16, <3>2, <3>4, <3>5
  <2> QED
    BY <2>1, <2>2
<1>19. Logica!Percurso(w, 1, m) = Logica!Percurso(ps, a, ate)
  <2>1. m - 1 = ate - a
    BY <1>7
  <2>2. ASSUME NEW i \in 1..ate - a
        PROVE  /\ w[1 + i].pos = ps[a + i].pos
               /\ w[1 + i - 1].pos = ps[a + i - 1].pos
    <3>1. 1 + i \in 1..m /\ i \in 1..m /\ 1 + i - 1 = i /\ a + (1 + i) - 1 = a + i
      BY <1>7
    <3> QED
      BY <1>15, <3>1
  <2>3. [i \in 1..m - 1 |-> Logica!Abs(w[1 + i].pos - w[1 + i - 1].pos)] =
          [i \in 1..ate - a |-> Logica!Abs(ps[a + i].pos - ps[a + i - 1].pos)]
    BY <2>1, <2>2
  <2> QED
    BY <2>1, <2>3 DEF Logica!Percurso
<1> QED
  BY <1>1, <1>3, <1>10, <1>12, <1>14, <1>16, <1>18, <1>19 DEF NoMapa

Feicoes == [act : Int, acc : Int, pos : Int]

\* The points of a trip on the map.
LEMMA FeaturesTell ==
  ASSUME NEW A, NEW vs \in Seq(A), \A k \in 1..Len(vs) : NoMapa(vs[k]),
         NEW k \in 1..Len(vs)
  PROVE  \E f \in Logica!Range(Logica!Features(vs)) :
           f.act = vs[k].inicio /\ f.acc = Logica!Acc(vs[k].inicio)
<1>1. PICK ss : ss = [j \in DOMAIN vs |->
        [i \in DOMAIN vs[j].pontos |->
           [act |-> vs[j].pontos[i].ts, acc |-> Logica!Acc(vs[j].pontos[i].ts),
            pos |-> vs[j].pontos[i].pos]]]
  OBVIOUS
<1>2. PICK F : F = Logica!Features(vs)
  OBVIOUS
<1>3. F = Logica!FlattenSeq(ss)
  BY <1>1, <1>2 DEF Logica!Features
<1>4. ASSUME NEW ts \in Int PROVE Logica!Acc(ts) \in Int
  BY HistoriesAssumption DEF Logica!Acc
<1>5. ASSUME NEW j \in 1..Len(vs)
      PROVE  /\ ss[j] \in Seq(Feicoes) /\ Len(ss[j]) = Len(vs[j].pontos)
             /\ \A i \in 1..Len(ss[j]) :
                  ss[j][i] = [act |-> vs[j].pontos[i].ts, acc |-> Logica!Acc(vs[j].pontos[i].ts),
                              pos |-> vs[j].pontos[i].pos]
  <2>1. PICK w : w = vs[j].pontos
    OBVIOUS
  <2>2. PICK m \in Nat : m = Len(w) /\ w \in Seq(Posicoes) /\ DOMAIN w = 1..m
    <3>1. w \in Seq(Posicoes)
      BY <2>1 DEF NoMapa
    <3> QED
      BY <3>1
  <2>3. j \in DOMAIN vs
    OBVIOUS
  <2>4. PICK x : x = ss[j]
    OBVIOUS
  <2>5. x = [i \in 1..m |-> [act |-> w[i].ts, acc |-> Logica!Acc(w[i].ts), pos |-> w[i].pos]]
    BY <1>1, <2>1, <2>2, <2>3, <2>4
  <2>6. ASSUME NEW i \in 1..m
        PROVE  [act |-> w[i].ts, acc |-> Logica!Acc(w[i].ts), pos |-> w[i].pos] \in Feicoes
    <3>1. w[i] \in Posicoes
      BY <2>2
    <3>2. w[i].ts \in Int /\ w[i].pos \in Int
      BY <3>1 DEF Posicoes
    <3> QED
      BY <1>4, <3>2 DEF Feicoes
  <2>7. x \in Seq(Feicoes) /\ Len(x) = m
    BY <2>5, <2>6
  <2> QED
    BY <2>1, <2>2, <2>4, <2>5, <2>7
<1>6. ss \in Seq(Seq(Feicoes)) /\ Len(ss) = Len(vs)
  <2>1. PICK n \in Nat : n = Len(vs) /\ DOMAIN vs = 1..n
    OBVIOUS
  <2>2. DOMAIN ss = 1..n /\ \A j \in 1..n : ss[j] \in Seq(Feicoes)
    BY <1>1, <1>5, <2>1
  <2>3. ss = [j \in 1..n |-> ss[j]]
    BY <1>1, <2>1
  <2> QED
    BY <2>1, <2>2, <2>3
<1>7. PICK g : JoinRun(g, Feicoes, ss) /\ F = g[Len(ss)]
  BY <1>3, <1>6, FlattenSteps
<1>8. AreJoined(F, Feicoes, ss)
  BY <1>6, <1>7, JoinedAre
<1>9. 1 \in 1..Len(ss[k]) /\ k \in 1..Len(ss)
  BY <1>5, <1>6 DEF NoMapa
<1>10. PICK i \in 1..Len(F) : F[i] = ss[k][1]
  BY <1>8, <1>9 DEF AreJoined
<1>11. F[i].act = vs[k].inicio /\ F[i].acc = Logica!Acc(vs[k].inicio)
  <2>1. ss[k][1] = [act |-> vs[k].pontos[1].ts, acc |-> Logica!Acc(vs[k].pontos[1].ts),
                    pos |-> vs[k].pontos[1].pos]
    BY <1>5, <1>9
  <2>2. vs[k].pontos[1].ts = vs[k].inicio
    BY DEF NoMapa
  <2> QED
    BY <1>10, <2>1, <2>2
<1>12. F[i] \in Logica!Range(F)
  <2>1. F \in Seq(Feicoes)
    BY <1>8 DEF AreJoined
  <2>2. i \in DOMAIN F
    BY <2>1
  <2> QED
    BY <2>2, SamePartsLogica
<1> QED
  BY <1>2, <1>11, <1>12

LEMMA DiasTell ==
  ASSUME NEW A, NEW vs \in Seq(A), NEW k \in 1..Len(vs)
  PROVE  vs[k] \in Logica!Range(Logica!Dias(vs)[Logica!Acc(vs[k].inicio)])
<1>1. PICK acc : acc = Logica!Acc(vs[k].inicio)
  OBVIOUS
<1>2. PICK is : is = {j \in DOMAIN vs : Logica!Acc(vs[j].inicio) = acc}
  OBVIOUS
<1>3. PICK t : t = Those(vs, is)
  OBVIOUS
<1>4. vs[k] \in Logica!Range(vs)
  BY SamePartsLogica
<1>5. Logica!Dias(vs)[acc] = t
  BY <1>1, <1>2, <1>3, <1>4, SamePartsLogica DEF Logica!Dias
<1>6. t \in Seq(A) /\ ArePart(t, vs, is)
  BY <1>3, ThoseAre
<1>7. k \in is \cap (1..Len(vs))
  BY <1>1, <1>2
<1>8. PICK l \in 1..Len(t) : t[l] = vs[k]
  BY <1>6, <1>7 DEF ArePart
<1>9. l \in DOMAIN t
  BY <1>6
<1> QED
  BY <1>1, <1>5, <1>8, <1>9, SamePartsLogica

LEMMA MapPromise == LogicaOK => MapTellsTheTrip
<1> SUFFICES ASSUME LogicaOK, pedido = "logica", estado = "respondido" PROVE MapTellsTheTrip
  BY DEF MapTellsTheTrip, Logica!MapTellsTheTrip, Logica!Answered
<1>1. PICK q, paradas : DeLogica(q) /\ resposta = Logica!Historico(q, paradas)
  BY DEF LogicaOK
<1>2. PICK ps : ps = Logica!Pontos(q)
  OBVIOUS
<1>3. ps \in Seq(Posicoes) /\ Rises(ps, Ts)
  BY <1>1, <1>2, PontosAre
<1>4. PICK vs : vs = Logica!Viagens(ps, paradas)
  OBVIOUS
<1>5. /\ resposta.viagens = vs /\ resposta.dias = Logica!Dias(vs)
      /\ resposta.features = Logica!Features(vs)
  BY <1>1, <1>2, <1>4 DEF Logica!Historico
<1>6. PICK ts : /\ Trips(ts, ps)
                /\ vs = [k \in DOMAIN ts |-> Logica!Viagem(ps, ts[k], paradas)]
  BY <1>3, <1>4, ViagensAre
<1>7. ts \in Seq(Trecho)
  BY <1>6 DEF Trips
<1>8. PICK n \in Nat : n = Len(ts) /\ DOMAIN ts = 1..n
  BY <1>7
<1>9. ASSUME NEW k \in 1..n PROVE NoMapa(vs[k])
  <2>1. ts[k] \in Trecho /\ Valido(ts[k]) /\ NoTrecho(ps, ts[k], 1, Len(ps))
    BY <1>6, <1>7, <1>8 DEF Trips
  <2>2. vs[k] = Logica!Viagem(ps, ts[k], paradas)
    BY <1>6, <1>8
  <2> QED
    BY <1>3, <2>1, <2>2, ViagemIs
<1>10. PICK A : A = {vs[k] : k \in 1..n}
  OBVIOUS
<1>11. vs \in Seq(A) /\ Len(vs) = n /\ DOMAIN vs = 1..n
  BY <1>6, <1>8, <1>10
<1>12. ASSUME NEW v \in Logica!Range(vs)
       PROVE  LET drawn == Logica!Those(v.pontos,
                             {i \in DOMAIN v.pontos : v.pontos[i].ts \in v.inicio..v.fim})
              IN  /\ Logica!Percurso(drawn, 1, Len(drawn)) = v.distancia
                  /\ \E f \in Logica!Range(resposta.features) :
                       f.act = v.inicio /\ v \in Logica!Range(resposta.dias[f.acc])
  <2>1. PICK k \in 1..n : v = vs[k]
    BY <1>11, SamePartsLogica
  <2>2. NoMapa(v)
    BY <1>9, <2>1
  <2>3. PICK w : w = v.pontos
    OBVIOUS
  <2>4. w \in Seq(Posicoes)
    BY <2>2, <2>3 DEF NoMapa
  <2>5. {i \in DOMAIN w : w[i].ts \in v.inicio..v.fim} = DOMAIN w
    <3>1. \A i \in 1..Len(w) : w[i].ts \in v.inicio..v.fim
      BY <2>2, <2>3 DEF NoMapa
    <3>2. DOMAIN w = 1..Len(w)
      BY <2>4
    <3> QED
      BY <3>1, <3>2
  <2>6. Logica!Those(v.pontos, {i \in DOMAIN v.pontos : v.pontos[i].ts \in v.inicio..v.fim}) = w
    BY <2>3, <2>4, <2>5, SamePartsLogica, ThoseAll
  <2>7. Logica!Percurso(w, 1, Len(w)) = v.distancia
    BY <2>2, <2>3 DEF NoMapa
  <2>8. PICK f \in Logica!Range(Logica!Features(vs)) :
          f.act = v.inicio /\ f.acc = Logica!Acc(v.inicio)
    BY <1>9, <1>11, <2>1, FeaturesTell
  <2>9. v \in Logica!Range(Logica!Dias(vs)[f.acc])
    BY <1>11, <2>1, <2>8, DiasTell
  <2> QED
    BY <1>5, <2>6, <2>7, <2>8, <2>9
<1>13. Logica!MapTellsTheTrip
  BY ONLY <1>5, <1>12 DEF Logica!MapTellsTheTrip
<1> QED
  BY <1>13 DEF MapTellsTheTrip

\* MapTellsTheTrip, for any bounds and any number of points: the trail that the app draws
\* is the whole of the trip, since the anchor has the instant of the first moving point.
THEOREM MapTellsTheTripHolds == MCSpec => []MapTellsTheTrip
BY LogicaInit, LogicaNext, MapPromise, PTL DEF MCSpec

-----------------------------------------------------------------------------
(* The trips of M7.                                                        *)

PontosGps == [ts : Int, ignicao : BOOLEAN, velocidade : Int, pos : Nat, odometro : Int]

Instante == [p \in PontosGps |-> p.ts]

\* Point q comes after point p, so many points later.
Depois(p, q, d) ==
  /\ p.ts < q.ts
  /\ p.pos <= q.pos /\ q.pos - p.pos <= 20 * d
  /\ M7!Movendo(q) => q.pos - p.pos >= 20

\* The odometer of no point is known, or that of each is the place and its number.
Odometros(s) ==
  \/ \A i \in 1..Len(s) : s[i].odometro = -1
  \/ \A i \in 1..Len(s) : s[i].odometro = s[i].pos + (i - 1)

\* What M7 has: the points of a vehicle that drove on.
Rodou(s) ==
  /\ s \in Seq(PontosGps)
  /\ \A i, j \in 1..Len(s) : i < j => Depois(s[i], s[j], j - i)
  /\ Odometros(s)

M7OK ==
  pedido = "pdf_v2" =>
    /\ Rodou(entrada) /\ Len(entrada) <= MaxPontos
    /\ estado = "respondido" =>
         \E b \in BOOLEAN :
           resposta = M7!Viagens(M7!NoPeriodo(IF b THEN M7!Reverse(entrada) ELSE entrada))

LEMMA InstanteIs == Instante \in [PontosGps -> Int] /\ \A p \in PontosGps : Instante[p] = p.ts
BY DEF Instante, PontosGps

LEMMA PontoGpsIs ==
  ASSUME NEW t \in Int, NEW g \in BOOLEAN, NEW v \in Int, NEW x \in Nat, NEW o \in Int
  PROVE  [ts |-> t, ignicao |-> g, velocidade |-> v, pos |-> x, odometro |-> o] \in PontosGps
BY DEF PontosGps

LEMMA DepoisGoesOn ==
  ASSUME NEW p \in PontosGps, NEW q \in PontosGps, NEW r \in PontosGps, NEW d \in Nat,
         Depois(p, q, d), Depois(q, r, 1)
  PROVE  Depois(p, r, d + 1)
<1>1. /\ p.ts \in Int /\ q.ts \in Int /\ r.ts \in Int
      /\ p.pos \in Nat /\ q.pos \in Nat /\ r.pos \in Nat
  BY DEF PontosGps
<1>2. /\ p.ts < q.ts /\ p.pos <= q.pos /\ q.pos - p.pos <= 20 * d
      /\ q.ts < r.ts /\ q.pos <= r.pos /\ r.pos - q.pos <= 20
      /\ M7!Movendo(r) => r.pos - q.pos >= 20
  BY DEF Depois
<1>3. p.ts < r.ts /\ p.pos <= r.pos /\ r.pos - p.pos <= 20 * (d + 1)
  BY <1>1, <1>2
<1>4. M7!Movendo(r) => r.pos - p.pos >= 20
  BY <1>1, <1>2
<1> QED
  BY <1>3, <1>4 DEF Depois

LEMMA RodouGoesOn ==
  ASSUME NEW s, Rodou(s), NEW p \in PontosGps,
         Len(s) # 0 => Depois(s[Len(s)], p, 1),
         \/ (\A i \in 1..Len(s) : s[i].odometro = -1) /\ p.odometro = -1
         \/ /\ \A i \in 1..Len(s) : s[i].odometro = s[i].pos + (i - 1)
            /\ p.odometro = p.pos + Len(s)
  PROVE  Rodou(Append(s, p)) /\ Len(Append(s, p)) = Len(s) + 1
<1>1. s \in Seq(PontosGps)
  BY DEF Rodou
<1>2. PICK n \in Nat : n = Len(s)
  BY <1>1
<1>3. PICK t : t = Append(s, p)
  OBVIOUS
<1>4. /\ t \in Seq(PontosGps) /\ Len(t) = n + 1 /\ t[n + 1] = p
      /\ \A i \in 1..n : t[i] = s[i]
  BY <1>1, <1>2, <1>3
<1>5. ASSUME NEW i \in 1..n + 1, NEW j \in 1..n + 1, i < j PROVE Depois(t[i], t[j], j - i)
  <2>1. i \in 1..n /\ (j \in 1..n \/ j = n + 1)
    BY <1>5
  <2>2. CASE j \in 1..n
    BY <1>2, <1>4, <1>5, <2>1, <2>2 DEF Rodou
  <2>3. CASE j = n + 1
    <3>1. n \in 1..n /\ n # 0
      BY <2>1
    <3>2. Depois(s[n], p, 1)
      BY <1>2, <3>1
    <3>3. CASE i = n
      BY <1>4, <2>1, <2>3, <3>2, <3>3
    <3>4. CASE i # n
      <4>1. i < n /\ n - i \in Nat /\ (n - i) + 1 = j - i
        BY <2>1, <2>3, <3>4
      <4>2. Depois(s[i], s[n], n - i)
        BY <1>2, <2>1, <3>1, <4>1 DEF Rodou
      <4>3. s[i] \in PontosGps /\ s[n] \in PontosGps
        BY <1>1, <1>2, <2>1, <3>1
      <4>4. Depois(s[i], p, (n - i) + 1)
        BY <3>2, <4>1, <4>2, <4>3, DepoisGoesOn
      <4> QED
        BY <1>4, <2>1, <2>3, <4>1, <4>4
    <3> QED
      BY <3>3, <3>4
  <2> QED
    BY <2>1, <2>2, <2>3
<1>6. \A i \in 1..n + 1 : i \in 1..n \/ i = n + 1
  BY <1>2
<1>7. Odometros(t)
  <2>1. CASE (\A i \in 1..n : s[i].odometro = -1) /\ p.odometro = -1
    <3>1. \A i \in 1..n + 1 : t[i].odometro = -1
      BY <1>4, <1>6, <2>1
    <3> QED
      BY <1>4, <3>1 DEF Odometros
  <2>2. CASE /\ \A i \in 1..n : s[i].odometro = s[i].pos + (i - 1)
             /\ p.odometro = p.pos + n
    <3>1. \A i \in 1..n + 1 : t[i].odometro = t[i].pos + (i - 1)
      <4> TAKE i \in 1..n + 1
      <4>1. CASE i \in 1..n
        BY <1>4, <2>2, <4>1
      <4>2. CASE i = n + 1
        BY <1>2, <1>4, <2>2, <4>2
      <4> QED
        BY <1>6, <4>1, <4>2
    <3> QED
      BY <1>4, <3>1 DEF Odometros
  <2> QED
    BY <1>2, <2>1, <2>2
<1> QED
  BY <1>2, <1>3, <1>4, <1>5, <1>7 DEF Rodou

\* The next point of M7.
LEMMA PontoKeeps ==
  ASSUME pedido = "pdf_v2", Rodou(entrada), Len(entrada) <= MaxPontos,
         NEW g \in Gaps, NEW i \in BOOLEAN, NEW m \in BOOLEAN, NEW o \in BOOLEAN,
         M7!Ponto(g, i, m, o)
  PROVE  Rodou(entrada)' /\ Len(entrada') <= MaxPontos /\ estado' = "aberto"
<1>1. entrada \in Seq(PontosGps)
  BY DEF Rodou
<1>2. PICK n \in Nat : n = Len(entrada)
  BY <1>1
<1>3. PICK x : x = M7!Aqui + IF m THEN 20 ELSE 0
  OBVIOUS
<1>4. PICK odo : odo = IF o THEN x + n ELSE -1
  OBVIOUS
<1>5. PICK v : v = IF m THEN 50 ELSE 3
  OBVIOUS
<1>6. PICK p : p = [ts |-> M7!Agora + g, ignicao |-> i, velocidade |-> v, pos |-> x,
                    odometro |-> odo]
  OBVIOUS
<1>7. /\ entrada' = Append(entrada, p) /\ n < MaxPontos /\ estado' = "aberto"
      /\ entrada # <<>> => (o <=> entrada[1].odometro # -1)
  BY <1>2, <1>3, <1>4, <1>5, <1>6 DEF M7!Ponto, M7!Receive, M7!None
<1>8. /\ n = 0 => M7!Agora = 0 /\ M7!Aqui = 0
      /\ n # 0 => entrada # <<>> /\ M7!Agora = entrada[n].ts /\ M7!Aqui = entrada[n].pos
  <2>1. CASE n = 0
    <3>1. entrada = <<>>
      BY <1>1, <1>2, <2>1, EmptyIs
    <3> QED
      BY <2>1, <3>1 DEF M7!Agora, M7!Aqui
  <2>2. CASE n # 0
    <3>1. entrada # <<>>
      BY <1>2, <2>2
    <3> QED
      BY <1>2, <2>2, <3>1 DEF M7!Agora, M7!Aqui, M7!Last
  <2> QED
    BY <2>1, <2>2
<1>9. \A k \in 1..n : entrada[k] \in PontosGps /\ entrada[k].ts \in Int /\ entrada[k].pos \in Nat
  <2>1. \A k \in 1..n : entrada[k] \in PontosGps
    BY <1>1, <1>2
  <2> QED
    BY <2>1 DEF PontosGps
<1>10. M7!Agora \in Int /\ M7!Aqui \in Nat /\ g \in Nat \ {0}
  <2>1. n # 0 => n \in 1..n
    BY <1>2
  <2> QED
    BY <1>8, <1>9, <2>1, HistoriesAssumption
<1>11. x \in Nat /\ v \in Int /\ odo \in Int /\ M7!Agora + g \in Int
  BY <1>3, <1>4, <1>5, <1>10
<1>12. /\ p \in PontosGps /\ p.ts = M7!Agora + g /\ p.pos = x /\ p.odometro = odo
       /\ p.velocidade = v
  BY <1>6, <1>11, PontoGpsIs
<1>13. Len(entrada) # 0 => Depois(entrada[Len(entrada)], p, 1)
  <2> SUFFICES ASSUME n # 0 PROVE Depois(entrada[n], p, 1)
    BY <1>2
  <2>1. PICK q : q = entrada[n]
    OBVIOUS
  <2>2. q.ts = M7!Agora /\ q.pos = M7!Aqui
    BY <1>8, <2>1
  <2>3. q.ts < p.ts
    BY <1>10, <1>12, <2>2
  <2>4. q.pos <= p.pos /\ p.pos - q.pos <= 20 * 1
    BY <1>3, <1>10, <1>12, <2>2
  <2>5. M7!Movendo(p) => p.pos - q.pos >= 20
    <3>1. M7!Movendo(p) => m
      BY <1>5, <1>12 DEF M7!Movendo
    <3>2. m => p.pos - q.pos >= 20
      BY <1>3, <1>10, <1>12, <2>2
    <3> QED
      BY <3>1, <3>2
  <2> QED
    BY <2>1, <2>3, <2>4, <2>5 DEF Depois
<1>14. \/ (\A k \in 1..n : entrada[k].odometro = -1) /\ p.odometro = -1
       \/ /\ \A k \in 1..n : entrada[k].odometro = entrada[k].pos + (k - 1)
          /\ p.odometro = p.pos + n
  <2>1. CASE n = 0
    <3>1. \A k \in 1..n : FALSE
      BY <2>1
    <3> QED
      BY <1>4, <1>12, <3>1
  <2>2. CASE n # 0 /\ \A k \in 1..n : entrada[k].odometro = -1
    <3>1. 1 \in 1..n /\ entrada # <<>>
      BY <1>8, <2>2
    <3>2. ~o
      BY <1>7, <2>2, <3>1
    <3> QED
      BY <1>4, <1>12, <2>2, <3>2
  <2>3. CASE n # 0 /\ \A k \in 1..n : entrada[k].odometro = entrada[k].pos + (k - 1)
    <3>1. 1 \in 1..n /\ entrada # <<>>
      BY <1>8, <2>3
    <3>2. entrada[1].odometro # -1
      BY <1>9, <2>3, <3>1
    <3>3. o
      BY <1>7, <3>1, <3>2
    <3> QED
      BY <1>4, <1>12, <2>3, <3>3
  <2> QED
    BY <1>2, <2>1, <2>2, <2>3 DEF Rodou, Odometros
<1>15. Rodou(Append(entrada, p)) /\ Len(Append(entrada, p)) = n + 1
  BY <1>2, <1>12, <1>13, <1>14, RodouGoesOn
<1>16. Rodou(entrada)'
  BY <1>7, <1>15 DEF Rodou, Odometros
<1>17. Len(entrada') <= MaxPontos
  BY <1>7, <1>15, HistoriesAssumption
<1> QED
  BY <1>7, <1>16, <1>17

\* M7 gives points one after the other, and the answer is the trips of them, in either
\* order.
LEMMA M7Next == M7OK /\ [MCNext]_MCvars => M7OK'
<1> SUFFICES ASSUME M7OK, [MCNext]_MCvars, pedido' = "pdf_v2"
             PROVE  /\ Rodou(entrada)' /\ Len(entrada') <= MaxPontos
                    /\ estado' = "respondido" =>
                         \E b \in BOOLEAN :
                           resposta' = M7!Viagens(M7!NoPeriodo(
                                         IF b THEN M7!Reverse(entrada') ELSE entrada'))
  BY DEF M7OK, M7!Viagens, M7!NoPeriodo
<1>1. /\ pedido = "pdf_v2"
      /\ \/ \E g \in Gaps, i, m, o \in BOOLEAN : M7!Ponto(g, i, m, o)
         \/ \E b \in BOOLEAN : M7!Answer(b)
         \/ estado' = "erro" /\ UNCHANGED <<pedido, entrada, resposta>>
         \/ UNCHANGED <<pedido, entrada, estado, resposta>>
  BY DEF MCNext, MCvars, OfHistory, OfReport, historyVars,
     M7!Ponto, M7!PontoDaRota, M7!Trajeto, M7!Receive, M7!Answer, M7!AnswerError,
     Logica!Posicao, Logica!Registro, Logica!Receive, Logica!Answer, Logica!AnswerFallback,
     Logica!AnswerPdf, Logica!AnswerError, Softruck!ByKeys, Softruck!Geom, Softruck!Answer,
     Softruck!AnswerError, Softruck!Ponto, Softruck!Alarme, Softruck!Feature,
     Softruck!AnswerGeom, Softruck!Open, M7!Pedidos, Logica!Pedidos
<1>2. /\ Rodou(entrada) /\ Len(entrada) <= MaxPontos
      /\ estado = "respondido" =>
           \E b \in BOOLEAN :
             resposta = M7!Viagens(M7!NoPeriodo(IF b THEN M7!Reverse(entrada) ELSE entrada))
  BY <1>1 DEF M7OK
<1>3. CASE \E g \in Gaps, i, m, o \in BOOLEAN : M7!Ponto(g, i, m, o)
  <2>1. PICK g \in Gaps, i \in BOOLEAN, m \in BOOLEAN, o \in BOOLEAN : M7!Ponto(g, i, m, o)
    BY <1>3
  <2>2. Rodou(entrada)' /\ Len(entrada') <= MaxPontos /\ estado' = "aberto"
    BY <1>1, <1>2, <2>1, PontoKeeps
  <2> QED
    BY <2>2
<1>4. CASE \E b \in BOOLEAN : M7!Answer(b)
  <2>1. PICK b \in BOOLEAN : M7!Answer(b)
    BY <1>4
  <2>2. /\ entrada' = entrada
        /\ resposta' = M7!Responder(M7!NoPeriodo(IF b THEN M7!Reverse(entrada) ELSE entrada))
    BY <2>1 DEF M7!Answer
  <2>3. resposta' = M7!Viagens(M7!NoPeriodo(IF b THEN M7!Reverse(entrada) ELSE entrada))
    BY <1>1, <2>2 DEF M7!Responder
  <2>4. Rodou(entrada)'
    BY <1>2, <2>2 DEF Rodou, Odometros
  <2> QED
    BY <1>2, <2>2, <2>3, <2>4
<1>5. CASE UNCHANGED <<pedido, entrada, resposta>>
  <2>1. Rodou(entrada)'
    BY <1>2, <1>5 DEF Rodou, Odometros
  <2>2. CASE estado' = "erro"
    BY <1>2, <1>5, <2>1, <2>2
  <2>3. CASE estado' = estado
    BY <1>2, <1>5, <2>1, <2>3
  <2> QED
    BY <1>1, <1>2, <1>3, <1>4, <2>1, <2>2, <2>3
<1> QED
  BY <1>1, <1>3, <1>4, <1>5

LEMMA M7Init == MCInit => M7OK
<1> SUFFICES ASSUME MCInit, pedido = "pdf_v2" PROVE entrada = <<>> /\ estado = "aberto"
  BY HistoriesAssumption DEF M7OK, Rodou, Odometros
<1> QED
  BY DEF MCInit, M7!Init, M7!Pedidos, Logica!Init, Logica!Pedidos, Softruck!Init

\* The odometers are known, and between two points tell a distance.
Conhecidos(ps) ==
  /\ \A i \in 1..Len(ps) : ps[i].odometro \in Nat
  /\ \A i, j \in 1..Len(ps) : i < j =>
       /\ ps[j].odometro - ps[i].odometro > 0
       /\ ps[j].odometro - ps[i].odometro <= M7!DeltaMaximo
       /\ M7!Movendo(ps[j]) => ps[j].odometro - ps[i].odometro >= 2

Desconhecidos(ps) == \A i \in 1..Len(ps) : ps[i].odometro = -1

\* What the trips are made of: points of the period, in their order.
Percorrida(ps) ==
  /\ ps \in Seq(PontosGps)
  /\ \A i, j \in 1..Len(ps) : i < j =>
       /\ ps[i].ts < ps[j].ts
       /\ M7!Movendo(ps[j]) => ps[j].pos - ps[i].pos >= 20
  /\ Conhecidos(ps) \/ Desconhecidos(ps)

\* The odometer between two points of which one is a - 1, the other b - 1 after the first.
LEMMA OdometroTells ==
  ASSUME NEW n \in Nat, 21 * n <= M7!DeltaMaximo, NEW a \in 1..n, NEW b \in 1..n, a < b,
         NEW x \in Nat, NEW y \in Nat, x <= y, y - x <= 20 * (b - a),
         NEW o, NEW u, o = x + (a - 1), u = y + (b - 1)
  PROVE  o \in Nat /\ u - o > 0 /\ u - o <= M7!DeltaMaximo /\ (y - x >= 20 => u - o >= 2)
<1>1. o \in Nat /\ u \in Nat
  OBVIOUS
<1>2. u - o > 0 /\ u - o <= 21 * n /\ (y - x >= 20 => u - o >= 2)
  OBVIOUS
<1>3. M7!DeltaMaximo \in Int
  BY DEF M7!DeltaMaximo
<1>4. u - o <= M7!DeltaMaximo
  BY ONLY <1>1, <1>2, <1>3, n \in Nat, 21 * n <= M7!DeltaMaximo
<1> QED
  BY ONLY <1>1, <1>2, <1>4

LEMMA ConhecidosTell ==
  ASSUME NEW n \in Nat, 21 * n <= M7!DeltaMaximo, NEW t \in Seq(PontosGps), NEW r,
         \A i \in 1..Len(t) : r[i] \in 1..n /\ t[i].odometro = t[i].pos + (r[i] - 1),
         \A i, j \in 1..Len(t) : i < j => r[i] < r[j] /\ Depois(t[i], t[j], r[j] - r[i])
  PROVE  Conhecidos(t)
<1>1. PICK odo : odo = [i \in 1..Len(t) |-> t[i].odometro]
  OBVIOUS
<1>2. PICK x : x = [i \in 1..Len(t) |-> t[i].pos]
  OBVIOUS
<1>3. \A i \in 1..Len(t) : x[i] \in Nat /\ x[i] = t[i].pos /\ odo[i] = t[i].odometro
  <2>1. \A i \in 1..Len(t) : t[i] \in PontosGps
    OBVIOUS
  <2>2. \A i \in 1..Len(t) : t[i].pos \in Nat
    BY ONLY <2>1 DEF PontosGps
  <2> QED
    BY ONLY <1>1, <1>2, <2>2
<1>4. \A i \in 1..Len(t) : odo[i] = x[i] + (r[i] - 1) /\ r[i] \in 1..n
  BY ONLY <1>3, \A i \in 1..Len(t) : r[i] \in 1..n /\ t[i].odometro = t[i].pos + (r[i] - 1)
<1>5. ASSUME NEW i \in 1..Len(t) PROVE odo[i] \in Nat
  <2>1. PICK y \in Nat, a \in 1..n : y = x[i] /\ a = r[i]
    BY ONLY <1>3, <1>4, i \in 1..Len(t)
  <2>2. odo[i] = y + (a - 1)
    BY ONLY <1>4, <2>1, i \in 1..Len(t)
  <2> QED
    BY ONLY <2>2, n \in Nat, y \in Nat, a \in 1..n
<1>6. ASSUME NEW i \in 1..Len(t), NEW j \in 1..Len(t), i < j
      PROVE  /\ odo[j] - odo[i] > 0 /\ odo[j] - odo[i] <= M7!DeltaMaximo
             /\ M7!Movendo(t[j]) => odo[j] - odo[i] >= 2
  <2>1. /\ r[i] < r[j] /\ x[i] <= x[j] /\ x[j] - x[i] <= 20 * (r[j] - r[i])
        /\ M7!Movendo(t[j]) => x[j] - x[i] >= 20
    BY <1>3, <1>6 DEF Depois
  <2>2. /\ odo[j] - odo[i] > 0 /\ odo[j] - odo[i] <= M7!DeltaMaximo
        /\ x[j] - x[i] >= 20 => odo[j] - odo[i] >= 2
    <3>1. PICK a \in 1..n, b \in 1..n : a = r[i] /\ b = r[j]
      BY ONLY <1>4, i \in 1..Len(t), j \in 1..Len(t)
    <3>2. PICK y \in Nat, z \in Nat : y = x[i] /\ z = x[j]
      BY ONLY <1>3, i \in 1..Len(t), j \in 1..Len(t)
    <3>3. PICK o, u : o = odo[i] /\ u = odo[j]
      OBVIOUS
    <3>4. o = y + (a - 1) /\ u = z + (b - 1)
      BY ONLY <1>4, <3>1, <3>2, <3>3, i \in 1..Len(t), j \in 1..Len(t)
    <3>5. a < b /\ y <= z /\ z - y <= 20 * (b - a)
      BY ONLY <2>1, <3>1, <3>2
    <3>6. u - o > 0 /\ u - o <= M7!DeltaMaximo /\ (z - y >= 20 => u - o >= 2)
      BY ONLY <3>4, <3>5, n \in Nat, 21 * n <= M7!DeltaMaximo, a \in 1..n, b \in 1..n,
              y \in Nat, z \in Nat, OdometroTells
    <3> QED
      BY ONLY <3>2, <3>3, <3>6
  <2> QED
    BY ONLY <2>1, <2>2
<1> QED
  BY ONLY <1>3, <1>5, <1>6 DEF Conhecidos

LEMMA RodouIsPercorrida ==
  ASSUME NEW s, Rodou(s), Len(s) <= MaxPontos, NEW is
  PROVE  Percorrida(Those(s, is))
<1>1. s \in Seq(PontosGps)
  BY DEF Rodou
<1>2. PICK t : t = Those(s, is)
  OBVIOUS
<1>3. PICK r : t \in Seq(PontosGps) /\ IsPart(r, t, s, is)
  BY <1>1, <1>2, ThosePart
<1>4. PICK n \in Nat : n = Len(s)
  BY <1>1
<1>5. \A i \in 1..Len(t) : r[i] \in 1..n /\ t[i] = s[r[i]] /\ t[i] \in PontosGps
  BY <1>3, <1>4 DEF IsPart
<1>6. ASSUME NEW i \in 1..Len(t), NEW j \in 1..Len(t), i < j
      PROVE  r[i] < r[j] /\ Depois(t[i], t[j], r[j] - r[i])
  <2>1. r[i] < r[j]
    BY <1>3, <1>6 DEF IsPart
  <2> QED
    BY <1>4, <1>5, <2>1 DEF Rodou
<1>7. ASSUME NEW i \in 1..Len(t), NEW j \in 1..Len(t), i < j
      PROVE  t[i].ts < t[j].ts /\ (M7!Movendo(t[j]) => t[j].pos - t[i].pos >= 20)
  BY ONLY <1>6, <1>7 DEF Depois
<1>8. CASE \A i \in 1..n : s[i].odometro = -1
  <2>1. Desconhecidos(t)
    BY ONLY <1>5, <1>8 DEF Desconhecidos
  <2> QED
    BY ONLY <1>2, <1>3, <1>7, <2>1 DEF Percorrida
<1>9. CASE \A i \in 1..n : s[i].odometro = s[i].pos + (i - 1)
  <2>1. \A i \in 1..Len(t) : r[i] \in 1..n /\ t[i].odometro = t[i].pos + (r[i] - 1)
    BY ONLY <1>5, <1>9
  <2>2. 21 * n <= M7!DeltaMaximo
    BY <1>4, HistoriesAssumption DEF M7!DeltaMaximo
  <2>3. Conhecidos(t)
    BY ONLY n \in Nat, <1>3, <1>6, <2>1, <2>2, ConhecidosTell
  <2> QED
    BY ONLY <1>2, <1>3, <1>7, <2>3 DEF Percorrida
<1>10. Odometros(s)
  BY DEF Rodou
<1> QED
  BY <1>4, <1>8, <1>9, <1>10 DEF Odometros

-----------------------------------------------------------------------------
(* The points of a period in their order.                                  *)

LEMMA SamePartsM7 ==
  /\ \A s, key : M7!Sorted(s, key) = Sorted(s, key)
  /\ \A f, m : M7!SumOf(f, m) = SumOf(f, m)
  /\ \A s : M7!Reverse(s) = Logica!Reverse(s)
  /\ \A S : M7!Cardinality(S) = Cardinality(S)
  /\ \A s : M7!Range(s) = {s[x] : x \in DOMAIN s}
<1>1. \A s, key : M7!Sorted(s, key) = Sorted(s, key)
  BY ONLY Zenon DEF M7!Sorted, Sorted, M7!Ranked, Ranked
<1>2. \A f, m : M7!SumOf(f, m) = SumOf(f, m)
  BY ONLY Zenon DEF M7!SumOf, SumOf
<1>3. \A s : M7!Reverse(s) = Logica!Reverse(s)
  BY ONLY Zenon DEF M7!Reverse, Logica!Reverse
<1>4. \A S : M7!Cardinality(S) = Cardinality(S)
  BY ONLY Zenon DEF M7!Cardinality, Cardinality
<1>5. \A s : M7!Range(s) = {s[x] : x \in DOMAIN s}
  BY ONLY Zenon DEF M7!Range
<1> QED
  BY <1>1, <1>2, <1>3, <1>4, <1>5

\* The points of the period have one order, whichever they came in.
LEMMA OrdenadosSao ==
  ASSUME NEW s, Rodou(s), Len(s) <= MaxPontos, NEW b \in BOOLEAN
  PROVE  /\ Percorrida(M7!NoPeriodo(s))
         /\ M7!Ordenados(M7!NoPeriodo(IF b THEN M7!Reverse(s) ELSE s)) = M7!NoPeriodo(s)
<1>1. s \in Seq(PontosGps)
  BY DEF Rodou
<1>2. PICK ps : ps = M7!NoPeriodo(s)
  OBVIOUS
<1>3. PICK is : is = {i \in DOMAIN s : s[i].ts < Midnight}
  OBVIOUS
<1>4. ps = Those(s, is)
  BY <1>2, <1>3, SameParts DEF M7!NoPeriodo
<1>5. Percorrida(ps)
  BY <1>4, RodouIsPercorrida
<1>6. PICK u : u = IF b THEN M7!Reverse(s) ELSE s
  OBVIOUS
<1>7. Rises(s, Instante) /\ Rises(ps, Instante) /\ ps \in Seq(PontosGps)
  <2>1. ps \in Seq(PontosGps)
    BY ONLY <1>5 DEF Percorrida
  <2>2. \A i \in 1..Len(s) : Instante[s[i]] = s[i].ts
    BY ONLY <1>1, InstanteIs
  <2>3. \A i \in 1..Len(ps) : Instante[ps[i]] = ps[i].ts
    BY ONLY <2>1, InstanteIs
  <2>4. Rises(s, Instante)
    BY <2>2 DEF Rodou, Depois, Rises
  <2>5. Rises(ps, Instante)
    BY ONLY <1>5, <2>3 DEF Percorrida, Rises
  <2> QED
    BY <2>1, <2>4, <2>5
<1>8. Distinct(s, Instante)
  BY <1>1, <1>7, InstanteIs, RisesDistinct
<1>9. u \in Seq(PontosGps) /\ Distinct(u, Instante) /\ Len(u) = Len(s)
      /\ (\A i \in 1..Len(s) : \E k \in 1..Len(u) : u[k] = s[i])
      /\ (\A k \in 1..Len(u) : \E i \in 1..Len(s) : u[k] = s[i])
  <2>1. CASE b
    <3>1. u = Logica!Reverse(s)
      BY <1>6, <2>1, SamePartsM7
    <3>2. u \in Seq(PontosGps) /\ Distinct(u, Instante)
      BY ONLY <1>1, <1>8, <3>1, ReverseDistinct
    <3>3. PICK n \in Nat : n = Len(s)
      BY <1>1
    <3>4. u = [i \in 1..n |-> s[(n - i) + 1]]
      BY <3>1, <3>3 DEF Logica!Reverse
    <3>5. DOMAIN u = 1..n /\ Len(u) = n
      BY ONLY <3>2, <3>4, n \in Nat
    <3>6. \A i \in 1..n : (n - i) + 1 \in 1..n /\ (n - ((n - i) + 1)) + 1 = i
      BY ONLY n \in Nat
    <3>7. \A i \in 1..n : u[(n - i) + 1] = s[i] /\ u[i] = s[(n - i) + 1]
      BY ONLY <3>4, <3>6
    <3> QED
      BY ONLY <3>2, <3>3, <3>5, <3>6, <3>7
  <2>2. CASE ~b
    BY <1>1, <1>6, <1>8, <2>2
  <2> QED
    BY <2>1, <2>2
<1>10. PICK js : js = {i \in DOMAIN u : u[i].ts < Midnight}
  OBVIOUS
<1>11. PICK q : q = M7!NoPeriodo(u)
  OBVIOUS
<1>12. q = Those(u, js)
  BY <1>10, <1>11, SameParts DEF M7!NoPeriodo
<1>13. q \in Seq(PontosGps) /\ ArePart(q, u, js) /\ Distinct(q, Instante)
  BY ONLY <1>9, <1>12, ThoseAre, ThoseDistinct
<1>14. ArePart(ps, s, is)
  BY ONLY <1>1, <1>4, ThoseAre
<1>15. SameItems(q, ps)
  <2>1. DOMAIN u = 1..Len(u) /\ DOMAIN s = 1..Len(s)
    BY <1>1, <1>9
  <2>2. \A k \in 1..Len(q) : \E i \in 1..Len(u) : q[k] = u[i] /\ u[i].ts < Midnight
    BY ONLY <1>10, <1>13, <2>1 DEF ArePart
  <2>3. \A k \in 1..Len(ps) : \E i \in 1..Len(s) : ps[k] = s[i] /\ s[i].ts < Midnight
    BY ONLY <1>3, <1>14, <2>1 DEF ArePart
  <2>4. \A i \in 1..Len(u) : u[i].ts < Midnight => \E k \in 1..Len(q) : q[k] = u[i]
    BY ONLY <1>10, <1>13, <2>1 DEF ArePart
  <2>5. \A i \in 1..Len(s) : s[i].ts < Midnight => \E k \in 1..Len(ps) : ps[k] = s[i]
    BY ONLY <1>3, <1>14, <2>1 DEF ArePart
  <2>6. ASSUME NEW k \in 1..Len(q) PROVE \E l \in 1..Len(ps) : q[k] = ps[l]
    <3>1. PICK i \in 1..Len(u) : q[k] = u[i] /\ u[i].ts < Midnight
      BY ONLY <2>2, k \in 1..Len(q)
    <3>2. PICK j \in 1..Len(s) : u[i] = s[j]
      BY ONLY <1>9, i \in 1..Len(u)
    <3> QED
      BY ONLY <2>5, <3>1, <3>2, j \in 1..Len(s)
  <2>7. ASSUME NEW k \in 1..Len(ps) PROVE \E l \in 1..Len(q) : ps[k] = q[l]
    <3>1. PICK i \in 1..Len(s) : ps[k] = s[i] /\ s[i].ts < Midnight
      BY ONLY <2>3, k \in 1..Len(ps)
    <3>2. PICK j \in 1..Len(u) : u[j] = s[i]
      BY ONLY <1>9, i \in 1..Len(s)
    <3> QED
      BY ONLY <2>4, <3>1, <3>2, j \in 1..Len(u)
  <2> QED
    BY ONLY <2>6, <2>7 DEF SameItems
<1>16. PICK key : key = [i \in DOMAIN q |-> q[i].ts]
  OBVIOUS
<1>17. \A i \in 1..Len(q) : key[i] = Instante[q[i]]
  <2>1. DOMAIN q = 1..Len(q) /\ \A i \in 1..Len(q) : Instante[q[i]] = q[i].ts
    BY ONLY <1>13, InstanteIs
  <2> QED
    BY ONLY <1>16, <2>1
<1>18. PICK o : o = Sorted(q, key)
  OBVIOUS
<1>19. Instante \in [PontosGps -> Int]
  BY InstanteIs
<1>20. o \in Seq(PontosGps) /\ Rises(o, Instante) /\ SameItems(o, q)
  BY ONLY <1>13, <1>17, <1>18, <1>19, SortedRises
<1>21. SameItems(o, ps)
  BY ONLY <1>15, <1>20 DEF SameItems
<1>22. o = ps
  BY ONLY <1>7, <1>19, <1>20, <1>21, OneOrder
<1>23. M7!Ordenados(q) = o
  BY <1>16, <1>18, SamePartsM7 DEF M7!Ordenados
<1> QED
  BY ONLY <1>2, <1>5, <1>6, <1>11, <1>22, <1>23

-----------------------------------------------------------------------------
(* The cycles of the ignition.                                             *)

LEMMA MinIsM7 ==
  ASSUME NEW Z, Z \subseteq Nat, NEW n \in Z
  PROVE  M7!Min(Z) \in Z /\ \A k \in Z : M7!Min(Z) <= k
<1>1. \E i \in Z : \A k \in Z : i <= k
  BY Least
<1> QED
  BY <1>1 DEF M7!Min

LEMMA MaxIsM7 ==
  ASSUME NEW m \in Nat, NEW Z, Z \subseteq 0..m, NEW n \in Z
  PROVE  M7!Max(Z) \in Z /\ \A k \in Z : k <= M7!Max(Z)
<1>1. \E i \in Z : \A k \in Z : k <= i
  BY Greatest
<1>2. \E i \in Z : \A k \in Z : i >= k
  BY <1>1
<1>3. M7!Max(Z) \in Z /\ \A k \in Z : M7!Max(Z) >= k
  BY <1>2 DEF M7!Max
<1> QED
  BY <1>3

\* Points i to j are a cycle: with ignition before the last, which ends it.
Giro(ps, i, j) ==
  /\ i \in 1..Len(ps) /\ j \in i + 1..Len(ps)
  /\ \A k \in i..j - 1 : M7!Suavizada(ps, k)
  /\ ~M7!Suavizada(ps, j) \/ j = Len(ps)

LEMMA CicloIs ==
  ASSUME NEW ps \in Seq(PontosGps), NEW i \in 1..Len(ps) - 1, M7!Comeca(ps, i)
  PROVE  \E j : M7!Ciclo(ps, i) = <<i, j>> /\ Giro(ps, i, j)
<1>1. PICK n \in Nat : n = Len(ps)
  OBVIOUS
<1>2. PICK Z : Z = {j \in i + 1..n : ~M7!Suavizada(ps, j) \/ j = n}
  OBVIOUS
<1>3. Z \subseteq Nat /\ n \in Z /\ i \in 1..n /\ i < n
  BY <1>1, <1>2
<1>4. PICK j : j = M7!Min(Z)
  OBVIOUS
<1>5. j \in Z /\ \A k \in Z : j <= k
  BY ONLY <1>3, <1>4, MinIsM7
<1>6. M7!Ciclo(ps, i) = <<i, j>>
  BY ONLY <1>1, <1>2, <1>4 DEF M7!Ciclo
<1>7. j \in i + 1..n /\ (~M7!Suavizada(ps, j) \/ j = n)
  BY ONLY <1>2, <1>5
<1>8. ASSUME NEW k \in i..j - 1 PROVE M7!Suavizada(ps, k)
  <2>1. CASE k = i
    BY <2>1 DEF M7!Comeca
  <2>2. CASE k # i
    <3>1. k \in i + 1..n /\ ~(j <= k)
      BY ONLY <1>3, <1>7, <2>2, n \in Nat, k \in i..j - 1
    <3>2. k \notin Z
      BY ONLY <1>5, <3>1
    <3> QED
      BY ONLY <1>2, <3>1, <3>2
  <2> QED
    BY <2>1, <2>2
<1>9. Giro(ps, i, j)
  BY ONLY <1>1, <1>3, <1>7, <1>8 DEF Giro
<1> QED
  BY <1>6, <1>9

\* A cycle that begins after another lies after it.
LEMMA GirosFollow ==
  ASSUME NEW ps \in Seq(PontosGps), NEW i, NEW j, Giro(ps, i, j),
         NEW k, NEW l, Giro(ps, k, l), i < k, M7!Comeca(ps, k)
  PROVE  j < k
<1>1. PICK n \in Nat : n = Len(ps)
  OBVIOUS
<1>2. i \in 1..n /\ j \in i + 1..n /\ k \in 1..n /\ k - 1 \in i..n
  BY <1>1 DEF Giro
<1>3. ~M7!Suavizada(ps, k - 1)
  BY <1>2 DEF M7!Comeca
<1>4. k - 1 \notin i..j - 1
  BY <1>3 DEF Giro
<1> QED
  BY ONLY <1>2, <1>4, n \in Nat

\* Between two points of a cycle more than two minutes apart the ignition was on.
LEMMA GiroIsOn ==
  ASSUME NEW ps \in Seq(PontosGps), \A k, l \in 1..Len(ps) : k < l => ps[k].ts < ps[l].ts,
         NEW i, NEW j, Giro(ps, i, j), NEW a \in i..j, NEW b \in i..j,
         ps[b].ts - ps[a].ts > 120
  PROVE  \E k \in a..b : ps[k].ignicao
<1>1. PICK n \in Nat : n = Len(ps)
  OBVIOUS
<1>2. i \in 1..n /\ j \in i + 1..n /\ a \in 1..n /\ b \in 1..n
  BY <1>1 DEF Giro
<1>3. \A k \in 1..n : ps[k].ts \in Int
  <2>1. \A k \in 1..n : ps[k] \in PontosGps
    BY <1>1
  <2> QED
    BY ONLY <2>1 DEF PontosGps
<1>4. a < b
  <2>1. \A k, l \in 1..n : k <= l => ps[k].ts <= ps[l].ts
    BY <1>1, <1>3
  <2>2. ~(ps[b].ts <= ps[a].ts)
    BY <1>2, <1>3
  <2> QED
    BY ONLY <1>2, <2>1, <2>2, n \in Nat
<1>5. a \in i..j - 1 /\ a \in a..b
  BY ONLY <1>2, <1>4, n \in Nat, a \in i..j, b \in i..j
<1>6. M7!Suavizada(ps, a)
  BY <1>5 DEF Giro
<1>7. SUFFICES ASSUME \A k \in a..b : ~ps[k].ignicao PROVE FALSE
  OBVIOUS
<1>8. PICK x \in 2..a, y \in a + 1..n :
        /\ ps[y].ignicao /\ (\A k \in x..y - 1 : ~ps[k].ignicao)
        /\ ps[y].ts - ps[x].ts <= 120
  <2>1. ~ps[a].ignicao
    BY ONLY <1>5, <1>7
  <2> QED
    BY ONLY <1>1, <1>6, <2>1 DEF M7!Suavizada
<1>9. y \notin a..b
  BY ONLY <1>7, <1>8
<1>10. x \in 1..n /\ y \in 1..n /\ x <= a /\ b < y
  BY ONLY <1>2, <1>8, <1>9, n \in Nat
<1>11. ps[x].ts <= ps[a].ts /\ ps[b].ts < ps[y].ts
  <2>1. ps[b].ts < ps[y].ts
    BY <1>1, <1>2, <1>10
  <2>2. CASE x = a
    BY <1>2, <1>3, <2>1, <2>2
  <2>3. CASE x # a
    <3>1. x < a
      BY ONLY <1>2, <1>10, <2>3
    <3> QED
      BY <1>1, <1>2, <1>3, <1>10, <2>1, <3>1
  <2> QED
    BY <2>2, <2>3
<1>12. ps[x].ts \in Int /\ ps[y].ts \in Int /\ ps[a].ts \in Int /\ ps[b].ts \in Int
  BY ONLY <1>2, <1>3, <1>10
<1>13. ps[b].ts - ps[a].ts > 120
  OBVIOUS
<1> QED
  BY ONLY <1>8, <1>11, <1>12, <1>13

\* The points come one after the other.
Seguidos(ps) == \A k, l \in 1..Len(ps) : k < l => ps[k].ts < ps[l].ts

LEMMA PontosTell ==
  ASSUME NEW ps \in Seq(PontosGps)
  PROVE  \A k \in 1..Len(ps) : /\ ps[k] \in PontosGps /\ ps[k].ts \in Int /\ ps[k].pos \in Nat
                               /\ ps[k].odometro \in Int
<1>1. \A k \in 1..Len(ps) : ps[k] \in PontosGps
  OBVIOUS
<1> QED
  BY ONLY <1>1 DEF PontosGps

\* The seconds from each of these points to the one before.
Entre(ps, is) == [k \in DOMAIN ps |-> IF k \in is THEN ps[k].ts - ps[k - 1].ts ELSE 0]

\* The seconds in movement are among those of the cycle.
LEMMA EntreIsWithin ==
  ASSUME NEW ps \in Seq(PontosGps), Seguidos(ps), NEW i \in 1..Len(ps), NEW j \in i + 1..Len(ps),
         NEW is, is \subseteq i + 1..j
  PROVE  SumOf(Entre(ps, is), Len(ps)) <= ps[j].ts - ps[i].ts
<1>1. PICK n \in Nat : n = Len(ps)
  OBVIOUS
<1>2. i \in 1..n /\ j \in i + 1..n /\ i < j
  BY <1>1
<1>3. PICK t : t = [k \in 1..n |-> ps[k].ts]
  OBVIOUS
<1>4. \A k \in 1..n : t[k] \in Int /\ t[k] = ps[k].ts
  BY <1>1, <1>3, PontosTell
<1>5. \A k, l \in 1..n : k < l => t[k] < t[l]
  BY ONLY <1>1, <1>4, Seguidos(ps) DEF Seguidos
<1>6. PICK f : f = Entre(ps, is)
  OBVIOUS
<1>7. \A k \in 1..n : f[k] = IF k \in is THEN t[k] - t[k - 1] ELSE 0
  <2> TAKE k \in 1..n
  <2>1. DOMAIN ps = 1..n
    BY <1>1
  <2>2. f[k] = IF k \in is THEN ps[k].ts - ps[k - 1].ts ELSE 0
    BY ONLY <1>6, <2>1, k \in 1..n DEF Entre
  <2>3. k \in is => k - 1 \in 1..n
    BY ONLY <1>2, k \in 1..n, n \in Nat, is \subseteq i + 1..j
  <2> QED
    BY ONLY <1>4, <2>2, <2>3, k \in 1..n
<1>8. PICK c : c = [k \in 0..n |-> IF k <= i THEN i ELSE IF k >= j THEN j ELSE k]
  OBVIOUS
<1>9. PICK h : h = [k \in 0..n |-> t[c[k]]]
  OBVIOUS
<1>10. \A k \in 0..n : /\ c[k] \in 1..n /\ h[k] = t[c[k]] /\ h[k] \in Int
                       /\ c[k] = IF k <= i THEN i ELSE IF k >= j THEN j ELSE k
  <2>1. \A k \in 0..n : c[k] = IF k <= i THEN i ELSE IF k >= j THEN j ELSE k
    BY ONLY <1>8
  <2>2. \A k \in 0..n : c[k] \in 1..n
    BY ONLY <1>2, <2>1, n \in Nat
  <2>3. \A k \in 0..n : h[k] = t[c[k]]
    BY ONLY <1>9
  <2> QED
    BY ONLY <1>4, <2>1, <2>2, <2>3
<1>11. ASSUME NEW k \in 1..n PROVE f[k] \in Int /\ f[k] <= h[k] - h[k - 1]
  <2>1. k - 1 \in 0..n /\ k \in 0..n
    BY ONLY n \in Nat, k \in 1..n
  <2>2. CASE k \in is
    <3>1. k \in i + 1..j
      BY ONLY <2>2, is \subseteq i + 1..j
    <3>2. k - 1 \in 1..n /\ c[k - 1] = k - 1 /\ c[k] = k
      BY ONLY <1>2, <1>10, <2>1, <3>1, n \in Nat, k \in 1..n
    <3>3. h[k] = t[k] /\ h[k - 1] = t[k - 1]
      BY ONLY <1>10, <2>1, <3>2
    <3>4. f[k] = t[k] - t[k - 1]
      BY ONLY <1>7, <2>2, k \in 1..n
    <3> QED
      BY ONLY <1>4, <3>2, <3>3, <3>4, k \in 1..n
  <2>3. CASE k \notin is
    <3>1. PICK a \in 1..n, b \in 1..n : a = c[k - 1] /\ b = c[k]
      BY ONLY <1>10, <2>1
    <3>2. a <= b
      BY ONLY <1>2, <1>10, <2>1, <3>1, n \in Nat, k \in 1..n
    <3>3. t[a] <= t[b]
      <4>1. CASE a = b
        BY ONLY <1>4, <4>1, b \in 1..n
      <4>2. CASE a # b
        BY ONLY <1>4, <1>5, <3>2, <4>2, a \in 1..n, b \in 1..n, n \in Nat
      <4> QED
        BY <4>1, <4>2
    <3>4. f[k] = 0
      BY ONLY <1>7, <2>3, k \in 1..n
    <3>5. h[k - 1] = t[a] /\ h[k] = t[b]
      BY ONLY <1>10, <2>1, <3>1
    <3> QED
      BY ONLY <1>4, <3>3, <3>4, <3>5, a \in 1..n, b \in 1..n
  <2> QED
    BY <2>2, <2>3
<1>12. h[0] = t[i] /\ h[n] = t[j]
  <2>1. 0 \in 0..n /\ n \in 0..n /\ c[0] = i /\ c[n] = j
    BY ONLY <1>2, <1>10, n \in Nat
  <2> QED
    BY ONLY <1>10, <2>1
<1>13. SumOf(f, n) <= h[n] - h[0]
  <2>1. \A k \in 1..n : f[k] \in Int
    BY ONLY <1>11
  <2>2. \A k \in 0..n : h[k] \in Int
    BY ONLY <1>10
  <2>3. \A k \in 1..n : f[k] <= h[k] - h[k - 1]
    BY ONLY <1>11
  <2> QED
    BY ONLY <2>1, <2>2, <2>3, n \in Nat, SumWithin
<1>14. t[i] = ps[i].ts /\ t[j] = ps[j].ts
  BY ONLY <1>2, <1>4, n \in Nat
<1> QED
  BY ONLY <1>1, <1>6, <1>12, <1>13, <1>14

\* They are no fewer than those of one step.
LEMMA EntreIsAtLeast ==
  ASSUME NEW ps \in Seq(PontosGps), Seguidos(ps), NEW is, is \subseteq 2..Len(ps), NEW l \in is
  PROVE  SumOf(Entre(ps, is), Len(ps)) >= ps[l].ts - ps[l - 1].ts
<1>1. PICK n \in Nat : n = Len(ps)
  OBVIOUS
<1>2. PICK f : f = Entre(ps, is)
  OBVIOUS
<1>3. \A k \in 1..n : f[k] = IF k \in is THEN ps[k].ts - ps[k - 1].ts ELSE 0
  <2>1. DOMAIN ps = 1..n
    BY <1>1
  <2> QED
    BY ONLY <1>2, <2>1 DEF Entre
<1>4. ASSUME NEW k \in is PROVE ps[k].ts - ps[k - 1].ts \in Nat
  <2>1. k \in 1..n /\ k - 1 \in 1..n /\ k - 1 < k
    BY <1>1
  <2>2. ps[k - 1].ts < ps[k].ts
    BY ONLY <1>1, <2>1, Seguidos(ps) DEF Seguidos
  <2>3. ps[k].ts \in Int /\ ps[k - 1].ts \in Int
    BY <1>1, <2>1, PontosTell
  <2> QED
    BY ONLY <2>2, <2>3
<1>5. \A k \in 1..n : f[k] \in Nat
  BY ONLY <1>3, <1>4
<1>6. l \in 1..n /\ f[l] = ps[l].ts - ps[l - 1].ts
  BY <1>1, <1>3
<1>7. SumOf(f, n) >= f[l]
  BY ONLY <1>5, <1>6, n \in Nat, SumAtLeast
<1> QED
  BY ONLY <1>1, <1>2, <1>6, <1>7

LEMMA SumIsInt ==
  ASSUME NEW m \in Nat, NEW f, \A n \in 1..m : f[n] \in Nat
  PROVE  SumOf(f, m) \in Int
<1>1. \A n \in 1..m : f[n] \in Int
  OBVIOUS
<1>2. PICK g : SumRun(g, f, m)
  BY ONLY <1>1, m \in Nat, SumSteps
<1> QED
  BY <1>2 DEF SumRun

LEMMA HaversineIs ==
  ASSUME NEW p \in PontosGps, NEW q \in PontosGps
  PROVE  M7!Haversine(p, q) \in Nat /\ (q.pos - p.pos >= 20 => M7!Haversine(p, q) >= 2)
<1>1. PICK x \in Nat, y \in Nat : x = p.pos /\ y = q.pos
  BY DEF PontosGps
<1>2. PICK d : d = IF x < y THEN y - x ELSE x - y
  OBVIOUS
<1>3. d \in Nat /\ (y - x >= 20 => d >= 20)
  BY ONLY <1>2, x \in Nat, y \in Nat
<1>4. M7!Haversine(p, q) = (9 * d) \div 2
  BY ONLY <1>1, <1>2 DEF M7!Haversine
<1>5. (9 * d) \div 2 \in Nat /\ (d >= 20 => (9 * d) \div 2 >= 2)
  BY ONLY <1>3
<1> QED
  BY ONLY <1>1, <1>3, <1>4, <1>5

\* The distance of a trip is that of the odometer, where it is known; and two moving points
\* are 20 m apart at least.
LEMMA DistanciaIsM7 ==
  ASSUME NEW ps, Percorrida(ps), NEW c, NEW p \in 1..Len(ps), NEW u \in 1..Len(ps), p < u
  PROVE  /\ Conhecidos(ps) => M7!Distancia(ps, c, p, u) = ps[u].odometro - ps[p].odometro
         /\ \A l \in p + 1..u :
              /\ M7!Movendo(ps[u]) /\ M7!Movendo(ps[l]) /\ ps[l].ts - ps[l - 1].ts \in 1..600
              => M7!Distancia(ps, c, p, u) >= 2
<1>1. ps \in Seq(PontosGps)
  BY DEF Percorrida
<1>2. PICK n \in Nat : n = Len(ps)
  BY <1>1
<1>3. PICK dist : dist = M7!Distancia(ps, c, p, u)
  OBVIOUS
<1>4. PICK f : f = [k \in DOMAIN ps |-> IF k \in M7!Passos(ps, p, u)
                                        THEN M7!Haversine(ps[k - 1], ps[k]) ELSE 0]
  OBVIOUS
<1>5. PICK o, w : o = ps[p].odometro /\ w = ps[u].odometro
  OBVIOUS
<1>6. /\ o # -1 /\ w # -1 /\ w - o > 0 /\ w - o <= M7!DeltaMaximo => dist = w - o
      /\ o = -1 => dist = SumOf(f, n)
  <2>1. M7!SumOf(f, n) = SumOf(f, n)
    BY ONLY SamePartsM7
  <2>2. PICK sum : sum = M7!SumOf(f, n)
    OBVIOUS
  <2>3. dist = IF o # -1 /\ w # -1 /\ w - o > 0 /\ w - o <= M7!DeltaMaximo THEN w - o ELSE sum
    BY ONLY <1>2, <1>3, <1>4, <1>5, <2>2 DEF M7!Distancia, M7!None
  <2> QED
    BY ONLY <2>1, <2>2, <2>3
<1>7. ASSUME Conhecidos(ps)
      PROVE  dist = w - o /\ (M7!Movendo(ps[u]) => dist >= 2)
  <2>1. o \in Nat /\ w \in Nat /\ w - o > 0 /\ w - o <= M7!DeltaMaximo /\ (M7!Movendo(ps[u]) => w - o >= 2)
    BY ONLY <1>5, <1>7, p \in 1..Len(ps), u \in 1..Len(ps), p < u DEF Conhecidos
  <2>2. o # -1 /\ w # -1
    BY ONLY <2>1
  <2>3. dist = w - o
    BY ONLY <1>6, <2>1, <2>2
  <2> QED
    BY ONLY <2>1, <2>3
<1>8. ASSUME Desconhecidos(ps), NEW l \in p + 1..u, M7!Movendo(ps[l]),
             ps[l].ts - ps[l - 1].ts \in 1..600
      PROVE  dist >= 2
  <2>1. o = -1
    BY ONLY <1>5, <1>8, p \in 1..Len(ps) DEF Desconhecidos
  <2>2. dist = SumOf(f, n)
    BY ONLY <1>6, <2>1
  <2>3. DOMAIN ps = 1..n /\ p \in 1..n /\ u \in 1..n /\ l \in 1..n /\ l - 1 \in 1..n /\ l - 1 < l
    BY <1>1, <1>2
  <2>4. \A k \in 1..n : k \in M7!Passos(ps, p, u) => k - 1 \in 1..n
    <3>1. \A k \in M7!Passos(ps, p, u) : k \in p + 1..u
      BY ONLY DEF M7!Passos
    <3>2. \A k \in p + 1..u : k - 1 \in 1..n
      BY ONLY <2>3, n \in Nat
    <3> QED
      BY ONLY <3>1, <3>2
  <2>5. \A k \in 1..n : ps[k] \in PontosGps
    BY ONLY <1>1, <1>2, PontosTell
  <2>6. \A k \in 1..n : f[k] = IF k \in M7!Passos(ps, p, u) THEN M7!Haversine(ps[k - 1], ps[k]) ELSE 0
    BY ONLY <1>4, <2>3
  <2>7. \A k \in 1..n : f[k] \in Nat
    <3> TAKE k \in 1..n
    <3>1. CASE k \in M7!Passos(ps, p, u)
      <4>1. M7!Haversine(ps[k - 1], ps[k]) \in Nat
        BY ONLY <2>4, <2>5, <3>1, k \in 1..n, HaversineIs
      <4> QED
        BY ONLY <2>6, <3>1, <4>1, k \in 1..n
    <3>2. CASE k \notin M7!Passos(ps, p, u)
      BY ONLY <2>6, <3>2, k \in 1..n
    <3> QED
      BY <3>1, <3>2
  <2>8. l \in M7!Passos(ps, p, u)
    BY ONLY <1>8 DEF M7!Passos
  <2>9. ps[l].pos - ps[l - 1].pos >= 20
    BY ONLY <1>2, <1>8, <2>3, Percorrida(ps) DEF Percorrida
  <2>10. M7!Haversine(ps[l - 1], ps[l]) >= 2
    BY ONLY <2>3, <2>5, <2>9, HaversineIs
  <2>11. f[l] \in Nat /\ f[l] >= 2
    BY ONLY <2>3, <2>6, <2>7, <2>8, <2>10
  <2>12. PICK sum : sum = SumOf(f, n)
    OBVIOUS
  <2>13. sum >= f[l]
    BY ONLY <2>3, <2>7, <2>12, n \in Nat, SumAtLeast
  <2>14. sum \in Int
    BY ONLY <2>7, <2>12, n \in Nat, SumIsInt
  <2> QED
    BY ONLY <2>2, <2>11, <2>12, <2>13, <2>14
<1>9. Conhecidos(ps) \/ Desconhecidos(ps)
  BY DEF Percorrida
<1>10. ASSUME NEW l \in p + 1..u, M7!Movendo(ps[u]), M7!Movendo(ps[l]),
              ps[l].ts - ps[l - 1].ts \in 1..600
       PROVE  dist >= 2
  BY ONLY <1>7, <1>8, <1>9, <1>10
<1> QED
  BY ONLY <1>3, <1>5, <1>7, <1>10

LEMMA EntreIsInt ==
  ASSUME NEW ps \in Seq(PontosGps), Seguidos(ps), NEW is, is \subseteq 2..Len(ps)
  PROVE  SumOf(Entre(ps, is), Len(ps)) \in Int
<1>1. PICK n \in Nat : n = Len(ps)
  OBVIOUS
<1>2. PICK f : f = Entre(ps, is)
  OBVIOUS
<1>3. \A k \in 1..n : f[k] = IF k \in is THEN ps[k].ts - ps[k - 1].ts ELSE 0
  <2>1. DOMAIN ps = 1..n
    BY <1>1
  <2> QED
    BY ONLY <1>2, <2>1 DEF Entre
<1>4. ASSUME NEW k \in is PROVE ps[k].ts - ps[k - 1].ts \in Int
  <2>1. k \in 1..n /\ k - 1 \in 1..n
    BY <1>1
  <2> QED
    BY <1>1, <2>1, PontosTell
<1>5. \A k \in 1..n : f[k] \in Int
  BY ONLY <1>3, <1>4
<1>6. PICK g : SumRun(g, f, n)
  BY ONLY <1>5, n \in Nat, SumSteps
<1> QED
  BY ONLY <1>1, <1>2, <1>6, n \in Nat DEF SumRun

-----------------------------------------------------------------------------
(* The trip of a cycle.                                                    *)

\* v is the trip of the cycle from point i to point j, which moves from p to u.
Tramo(ps, v, i, j, p, u) ==
  /\ Giro(ps, i, j)
  /\ p \in i..j /\ u \in i..j /\ p < u
  /\ M7!Movendo(ps[u])
  /\ v.saida = ps[p].ts /\ v.chegada = ps[u].ts
  /\ v.movimento <= v.total
  /\ Conhecidos(ps) => v.distancia = ps[u].odometro - ps[p].odometro

\* The points of a cycle that move.
Andam(ps, i, j) == {k \in i..j : M7!Movendo(ps[k])}

\* The steps of a cycle that move.
Passam(ps, i, j) ==
  {k \in M7!Passos(ps, i, j) : M7!Movendo(ps[k - 1]) \/ M7!Movendo(ps[k])}

LEMMA ViagemDeM7 ==
  ASSUME NEW ps, NEW i, NEW j, NEW p, NEW u,
         p = M7!Min(Andam(ps, i, j)), u = M7!Max(Andam(ps, i, j))
  PROVE  /\ M7!Viagem(ps, <<i, j>>).saida = ps[p].ts
         /\ M7!Viagem(ps, <<i, j>>).chegada = ps[u].ts
         /\ M7!Viagem(ps, <<i, j>>).distancia = M7!Distancia(ps, <<i, j>>, p, u)
         /\ M7!Viagem(ps, <<i, j>>).movimento = SumOf(Entre(ps, Passam(ps, i, j)), Len(ps))
         /\ M7!Viagem(ps, <<i, j>>).total = ps[j].ts - ps[i].ts
<1>1. PICK c : c = <<i, j>>
  OBVIOUS
<1>2. c[1] = i /\ c[2] = j
  BY ONLY <1>1
<1>3. PICK moves : moves = {k \in c[1]..c[2] : M7!Movendo(ps[k])}
  OBVIOUS
<1>4. moves = Andam(ps, i, j)
  BY ONLY <1>2, <1>3 DEF Andam
<1>5. PICK mov : mov = {k \in M7!Passos(ps, c[1], c[2]) : M7!Movendo(ps[k - 1]) \/ M7!Movendo(ps[k])}
  OBVIOUS
<1>6. mov = Passam(ps, i, j)
  BY ONLY <1>2, <1>5 DEF Passam
<1>7. PICK f : f = [k \in DOMAIN ps |-> IF k \in mov THEN ps[k].ts - ps[k - 1].ts ELSE 0]
  OBVIOUS
<1>8. f = Entre(ps, Passam(ps, i, j))
  BY ONLY <1>6, <1>7 DEF Entre
<1>9. PICK o, d : o = ps[M7!Max({c[1], M7!Min(moves) - 1})].pos
               /\ d = ps[M7!Min({c[2], M7!Max(moves) + 1})].pos
  OBVIOUS
<1>10. M7!Viagem(ps, c) =
         [ciclo |-> c, saida |-> ps[M7!Min(moves)].ts, chegada |-> ps[M7!Max(moves)].ts,
          distancia |-> M7!Distancia(ps, c, M7!Min(moves), M7!Max(moves)),
          movimento |-> M7!SumOf(f, Len(ps)), total |-> ps[c[2]].ts - ps[c[1]].ts,
          origem |-> o, destino |-> d]
  BY ONLY <1>3, <1>5, <1>7, <1>9 DEF M7!Viagem
<1>11. M7!Min(moves) = p /\ M7!Max(moves) = u
  BY <1>4
<1>12. M7!SumOf(f, Len(ps)) = SumOf(Entre(ps, Passam(ps, i, j)), Len(ps))
  BY ONLY <1>8, SamePartsM7
<1> QED
  BY ONLY <1>1, <1>2, <1>10, <1>11, <1>12

\* Of a cycle in which more than one point moves, the first and the last that do.
LEMMA AndamIs ==
  ASSUME NEW ps \in Seq(PontosGps), NEW i, NEW j, Giro(ps, i, j),
         M7!Cardinality(Andam(ps, i, j)) > 1
  PROVE  \E p, u \in i..j : /\ p = M7!Min(Andam(ps, i, j)) /\ u = M7!Max(Andam(ps, i, j))
                            /\ p < u /\ M7!Movendo(ps[p]) /\ M7!Movendo(ps[u])
<1>1. PICK Z : Z = Andam(ps, i, j)
  OBVIOUS
<1>2. PICK n \in Nat : n = Len(ps)
  OBVIOUS
<1>3. i \in 1..n /\ j \in i + 1..n
  BY ONLY <1>2, Giro(ps, i, j) DEF Giro
<1>4. \A k \in Z : k \in i..j /\ M7!Movendo(ps[k])
  BY ONLY <1>1 DEF Andam
<1>5. Z \subseteq 0..n /\ Z \subseteq Nat
  BY ONLY <1>3, <1>4, n \in Nat
<1>6. Cardinality(Z) > 1
  BY ONLY <1>1, M7!Cardinality(Andam(ps, i, j)) > 1, SamePartsM7
<1>7. PICK k \in Z : TRUE
  <2>1. Cardinality({}) = 0
    BY ONLY FS_EmptySet
  <2>2. Z # {}
    BY ONLY <1>6, <2>1
  <2> QED
    BY ONLY <2>2
<1>8. PICK p, u : p = M7!Min(Z) /\ u = M7!Max(Z)
  OBVIOUS
<1>9. p \in Z /\ \A l \in Z : p <= l
  BY ONLY <1>5, <1>7, <1>8, MinIsM7
<1>10. u \in Z /\ \A l \in Z : l <= u
  BY ONLY <1>5, <1>7, <1>8, n \in Nat, MaxIsM7
<1>11. p # u
  <2> SUFFICES ASSUME p = u PROVE FALSE
    OBVIOUS
  <2>1. \A l \in Z : l = p
    BY ONLY <1>5, <1>9, <1>10, p = u
  <2>2. Z = {p}
    BY ONLY <1>9, <2>1
  <2>3. Cardinality({p}) = 1
    BY ONLY FS_Singleton
  <2> QED
    BY ONLY <1>6, <2>2, <2>3
<1>12. p < u
  BY ONLY <1>5, <1>9, <1>10, <1>11
<1> QED
  BY ONLY <1>1, <1>4, <1>8, <1>9, <1>10, <1>12

LEMMA TramoIs ==
  ASSUME NEW ps, Percorrida(ps), NEW i, NEW j, Giro(ps, i, j),
         M7!Cardinality(Andam(ps, i, j)) > 1
  PROVE  \E p, u : Tramo(ps, M7!Viagem(ps, <<i, j>>), i, j, p, u)
<1>1. ps \in Seq(PontosGps) /\ Seguidos(ps)
  BY ONLY Percorrida(ps) DEF Percorrida, Seguidos
<1>2. PICK p \in i..j, u \in i..j :
        /\ p = M7!Min(Andam(ps, i, j)) /\ u = M7!Max(Andam(ps, i, j))
        /\ p < u /\ M7!Movendo(ps[p]) /\ M7!Movendo(ps[u])
  BY ONLY <1>1, Giro(ps, i, j), M7!Cardinality(Andam(ps, i, j)) > 1, AndamIs
<1>3. PICK v : v = M7!Viagem(ps, <<i, j>>)
  OBVIOUS
<1>4. /\ v.saida = ps[p].ts /\ v.chegada = ps[u].ts
      /\ v.distancia = M7!Distancia(ps, <<i, j>>, p, u)
      /\ v.movimento = SumOf(Entre(ps, Passam(ps, i, j)), Len(ps))
      /\ v.total = ps[j].ts - ps[i].ts
  BY ONLY <1>2, <1>3, ViagemDeM7
<1>5. i \in 1..Len(ps) /\ j \in i + 1..Len(ps)
  BY ONLY Giro(ps, i, j) DEF Giro
<1>6. Passam(ps, i, j) \subseteq i + 1..j
  BY ONLY DEF Passam, M7!Passos
<1>7. v.movimento <= v.total
  BY ONLY <1>1, <1>4, <1>5, <1>6, EntreIsWithin
<1>8. p \in 1..Len(ps) /\ u \in 1..Len(ps)
  <2>1. Len(ps) \in Nat
    BY ONLY <1>1
  <2> QED
    BY ONLY <1>5, <2>1, p \in i..j, u \in i..j
<1>9. Conhecidos(ps) => v.distancia = ps[u].odometro - ps[p].odometro
  BY ONLY <1>2, <1>4, <1>8, Percorrida(ps), DistanciaIsM7
<1>10. Tramo(ps, v, i, j, p, u)
  BY ONLY <1>2, <1>4, <1>7, <1>9, Giro(ps, i, j) DEF Tramo
<1> QED
  BY ONLY <1>3, <1>10

LEMMA TwoAreMore ==
  ASSUME NEW Z, IsFiniteSet(Z), NEW a \in Z, NEW b \in Z, a # b
  PROVE  Cardinality(Z) > 1
<1>1. IsFiniteSet({a}) /\ Cardinality({a}) = 1
  BY FS_Singleton
<1>2. Cardinality({a} \cup {b}) = 2 /\ IsFiniteSet({a} \cup {b})
  BY ONLY <1>1, a # b, FS_AddElement
<1>3. {a} \cup {b} \subseteq Z
  OBVIOUS
<1>4. Cardinality({a} \cup {b}) <= Cardinality(Z)
  BY ONLY <1>3, IsFiniteSet(Z), FS_Subset
<1>5. Cardinality(Z) \in Nat
  BY ONLY IsFiniteSet(Z), FS_CardinalityType
<1> QED
  BY ONLY <1>2, <1>4, <1>5

\* A cycle with two moving points in a row, 41 s to ten minutes apart, is a trip.
LEMMA ViajouIs ==
  ASSUME NEW ps, Percorrida(ps), NEW i, NEW j, Giro(ps, i, j), NEW k \in i + 1..j,
         M7!Movendo(ps[k - 1]), M7!Movendo(ps[k]), ps[k].ts - ps[k - 1].ts \in 41..600
  PROVE  /\ M7!Viajou(ps, <<i, j>>)
         /\ M7!Min(Andam(ps, i, j)) <= k - 1 /\ k <= M7!Max(Andam(ps, i, j))
<1>1. ps \in Seq(PontosGps) /\ Seguidos(ps)
  BY ONLY Percorrida(ps) DEF Percorrida, Seguidos
<1>2. PICK n \in Nat : n = Len(ps)
  BY ONLY <1>1
<1>3. i \in 1..n /\ j \in i + 1..n
  BY ONLY <1>2, Giro(ps, i, j) DEF Giro
<1>4. k - 1 \in i..j /\ k \in i..j /\ k - 1 # k /\ k \in 2..n /\ k - 1 < k
  BY ONLY <1>3, n \in Nat, k \in i + 1..j
<1>5. PICK Z : Z = Andam(ps, i, j)
  OBVIOUS
<1>6. k - 1 \in Z /\ k \in Z /\ Z \subseteq i..j
  BY ONLY <1>4, <1>5, M7!Movendo(ps[k - 1]), M7!Movendo(ps[k]) DEF Andam
<1>7. IsFiniteSet(Z)
  <2>1. i \in Int /\ j \in Int
    BY ONLY <1>3, n \in Nat
  <2>2. IsFiniteSet(i..j)
    BY ONLY <2>1, FS_Interval
  <2> QED
    BY ONLY <1>6, <2>2, FS_Subset
<1>8. Cardinality(Z) > 1
  BY ONLY <1>4, <1>6, <1>7, TwoAreMore
<1>9. M7!Cardinality(Z) > 1
  BY ONLY <1>8, SamePartsM7
<1>10. PICK p \in i..j, u \in i..j :
         /\ p = M7!Min(Z) /\ u = M7!Max(Z)
         /\ p < u /\ M7!Movendo(ps[p]) /\ M7!Movendo(ps[u])
  BY ONLY <1>1, <1>5, <1>9, Giro(ps, i, j), AndamIs
<1>11. Z \subseteq Nat /\ Z \subseteq 0..n
  BY ONLY <1>3, <1>6, n \in Nat
<1>12. p <= k - 1
  BY ONLY <1>6, <1>10, <1>11, MinIsM7
<1>13. k <= u
  BY ONLY <1>6, <1>10, <1>11, n \in Nat, MaxIsM7
<1>14. PICK v : v = M7!Viagem(ps, <<i, j>>)
  OBVIOUS
<1>15. /\ v.distancia = M7!Distancia(ps, <<i, j>>, p, u)
       /\ v.movimento = SumOf(Entre(ps, Passam(ps, i, j)), Len(ps))
  BY ONLY <1>5, <1>10, <1>14, ViagemDeM7
<1>16. p \in 1..n /\ u \in 1..n /\ k \in p + 1..u
  BY ONLY <1>3, <1>4, <1>12, <1>13, n \in Nat, p \in i..j, u \in i..j
<1>17. PICK dt : dt = ps[k].ts - ps[k - 1].ts
  OBVIOUS
<1>18. dt \in 1..600 /\ dt > 40 /\ dt \in Int
  <2>1. dt \in 41..600
    BY ONLY <1>17, ps[k].ts - ps[k - 1].ts \in 41..600
  <2>2. dt \in 1..600
    BY ONLY <2>1
  <2>3. dt > 40 /\ dt \in Int
    BY ONLY <2>1
  <2> QED
    BY ONLY <2>2, <2>3
<1>19. v.distancia >= 2
  BY ONLY <1>2, <1>10, <1>15, <1>16, <1>17, <1>18, Percorrida(ps), M7!Movendo(ps[k]),
          DistanciaIsM7
<1>20. k \in Passam(ps, i, j) /\ Passam(ps, i, j) \subseteq 2..Len(ps)
  <2>1. k \in M7!Passos(ps, i, j)
    BY ONLY <1>17, <1>18, k \in i + 1..j DEF M7!Passos
  <2>2. i + 1..j \subseteq 2..n
    BY ONLY <1>3, n \in Nat
  <2>3. M7!Passos(ps, i, j) \subseteq i + 1..j
    BY ONLY DEF M7!Passos
  <2> QED
    BY ONLY <1>2, <2>1, <2>2, <2>3, M7!Movendo(ps[k]) DEF Passam
<1>21. v.movimento > 40
  <2>1. PICK sum : sum = SumOf(Entre(ps, Passam(ps, i, j)), Len(ps))
    OBVIOUS
  <2>2. sum >= dt
    BY ONLY <1>1, <1>17, <1>20, <2>1, EntreIsAtLeast
  <2>3. sum \in Int
    BY ONLY <1>1, <1>20, <2>1, EntreIsInt
  <2> QED
    BY ONLY <1>15, <1>18, <2>1, <2>2, <2>3
<1>22. PICK c : c = <<i, j>>
  OBVIOUS
<1>23. M7!Cardinality({l \in c[1]..c[2] : M7!Movendo(ps[l])}) > 1
  <2>1. c[1] = i /\ c[2] = j
    BY ONLY <1>22
  <2> QED
    BY ONLY <1>5, <1>9, <2>1 DEF Andam
<1>24. M7!Viajou(ps, c)
  BY ONLY <1>14, <1>19, <1>21, <1>22, <1>23 DEF M7!Viajou
<1> QED
  BY ONLY <1>5, <1>10, <1>12, <1>13, <1>22, <1>24

-----------------------------------------------------------------------------
(* The answer of M7.                                                       *)

\* Where the cycle of a point begins.
LEMMA CicloDe ==
  ASSUME NEW ps \in Seq(PontosGps), NEW i \in 2..Len(ps), M7!Suavizada(ps, i - 1)
  PROVE  \E a \in 1..i - 1 : M7!Comeca(ps, a) /\ \A k \in a..i - 1 : M7!Suavizada(ps, k)
<1>1. PICK n \in Nat : n = Len(ps)
  OBVIOUS
<1>2. PICK m \in 1..n : m = i - 1
  BY <1>1
<1>3. PICK Z : Z = {a \in 1..m : \A k \in a..m : M7!Suavizada(ps, k)}
  OBVIOUS
<1>4. m \in Z
  <2>1. \A k \in m..m : k = m
    BY ONLY n \in Nat, m \in 1..n
  <2>2. M7!Suavizada(ps, m)
    BY <1>2
  <2>3. m \in 1..m
    BY ONLY n \in Nat, m \in 1..n
  <2> QED
    BY ONLY <1>3, <2>1, <2>2, <2>3
<1>5. Z \subseteq Nat
  BY ONLY <1>3, n \in Nat, m \in 1..n
<1>6. PICK a \in Z : \A k \in Z : a <= k
  BY ONLY <1>4, <1>5, Least
<1>7. a \in 1..m /\ \A k \in a..m : M7!Suavizada(ps, k)
  BY ONLY <1>3, <1>6
<1>8. M7!Comeca(ps, a)
  <2>1. a \in a..m
    BY ONLY <1>7, n \in Nat, m \in 1..n
  <2>2. ASSUME a # 1, M7!Suavizada(ps, a - 1) PROVE FALSE
    <3>1. a - 1 \in 1..m /\ ~(a <= a - 1) /\ \A k \in a - 1..m : k = a - 1 \/ k \in a..m
      BY ONLY <1>7, <2>2, n \in Nat, m \in 1..n
    <3>2. a - 1 \in Z
      BY ONLY <1>3, <1>7, <2>2, <3>1
    <3> QED
      BY ONLY <1>6, <3>1, <3>2
  <2> QED
    BY ONLY <1>7, <2>1, <2>2 DEF M7!Comeca
<1> QED
  BY ONLY <1>2, <1>7, <1>8

\* vs are the trips of the points ps: the drives, none lost.
Corridas(vs, ps) ==
  /\ \E A : vs \in Seq(A)
  /\ \A k \in 1..Len(vs) : \E i, j, p, u : Tramo(ps, vs[k], i, j, p, u)
  /\ \A k, l \in 1..Len(vs) : k < l => vs[k].chegada < vs[l].saida
  /\ \A i \in 2..Len(ps) :
       /\ ps[i - 1].ignicao /\ ps[i].ignicao
       /\ M7!Movendo(ps[i - 1]) /\ M7!Movendo(ps[i])
       /\ ps[i].ts - ps[i - 1].ts \in 41..600
       => \E k \in 1..Len(vs) : vs[k].saida <= ps[i - 1].ts /\ ps[i].ts <= vs[k].chegada

LEMMA CorridasAre ==
  ASSUME NEW ps, Percorrida(ps), NEW pontos, M7!Ordenados(pontos) = ps
  PROVE  Corridas(M7!Viagens(pontos), ps)
<1>1. ps \in Seq(PontosGps) /\ Seguidos(ps)
  BY ONLY Percorrida(ps) DEF Percorrida, Seguidos
<1>2. PICK n \in Nat : n = Len(ps)
  BY ONLY <1>1
<1>3. DOMAIN ps = 1..n
  BY ONLY <1>1, <1>2
<1>4. PICK is : is = {i \in 1..Len(ps) - 1 :
                        M7!Comeca(ps, i) /\ M7!Viajou(ps, M7!Ciclo(ps, i))}
  OBVIOUS
<1>5. PICK id : id = [i \in DOMAIN ps |-> i]
  OBVIOUS
<1>6. id \in Seq(Nat) /\ Len(id) = n /\ \A i \in 1..n : id[i] = i
  <2>1. id \in [1..n -> Nat]
    BY ONLY <1>3, <1>5, n \in Nat
  <2>2. \A i \in 1..n : id[i] = i
    BY ONLY <1>3, <1>5
  <2> QED
    BY ONLY <2>1, <2>2, n \in Nat
<1>7. PICK from : from = Those(id, is)
  OBVIOUS
<1>8. PICK r : from \in Seq(Nat) /\ IsPart(r, from, id, is)
  BY ONLY <1>6, <1>7, ThosePart
<1>9. PICK m \in Nat : m = Len(from)
  BY ONLY <1>8
<1>10. DOMAIN from = 1..m
  BY ONLY <1>8, <1>9
<1>11. \A k \in 1..m : from[k] \in is /\ from[k] \in 1..n /\ from[k] = r[k]
  BY ONLY <1>6, <1>8, <1>9 DEF IsPart
<1>12. \A k, l \in 1..m : k < l => from[k] < from[l]
  <2>1. \A k, l \in 1..m : k < l => r[k] < r[l]
    BY ONLY <1>8, <1>9 DEF IsPart
  <2> QED
    BY ONLY <1>11, <2>1
<1>13. \A i \in is : i \in 1..n => \E k \in 1..m : from[k] = i
  BY ONLY <1>6, <1>8, <1>9 DEF IsPart
<1>14. PICK vs : vs = M7!Viagens(pontos)
  OBVIOUS
<1>15. vs = [k \in 1..m |-> M7!Viagem(ps, M7!Ciclo(ps, from[k]))]
  <2>1. M7!Those(id, is) = from
    BY ONLY <1>7, SameParts
  <2>2. vs = [k \in DOMAIN from |-> M7!Viagem(ps, M7!Ciclo(ps, from[k]))]
    BY ONLY <1>4, <1>5, <1>14, <2>1, M7!Ordenados(pontos) = ps DEF M7!Viagens
  <2> QED
    BY ONLY <1>10, <2>2
<1>16. PICK A : A = {M7!Viagem(ps, M7!Ciclo(ps, from[k])) : k \in 1..m}
  OBVIOUS
<1>17. vs \in Seq(A) /\ Len(vs) = m
  <2>1. vs \in [1..m -> A]
    BY ONLY <1>15, <1>16
  <2> QED
    BY ONLY <2>1, m \in Nat
<1>18. ASSUME NEW k \in 1..m
       PROVE  M7!Comeca(ps, from[k]) /\ \E j, p, u : Tramo(ps, vs[k], from[k], j, p, u)
  <2>1. PICK i : i = from[k]
    OBVIOUS
  <2>2. i \in is
    BY ONLY <1>11, <2>1, k \in 1..m
  <2>3. i \in 1..Len(ps) - 1 /\ M7!Comeca(ps, i) /\ M7!Viajou(ps, M7!Ciclo(ps, i))
    BY ONLY <1>4, <2>2
  <2>4. PICK j : M7!Ciclo(ps, i) = <<i, j>> /\ Giro(ps, i, j)
    BY ONLY <1>1, <2>3, CicloIs
  <2>5. M7!Cardinality(Andam(ps, i, j)) > 1
    <3>1. PICK c : c = <<i, j>>
      OBVIOUS
    <3>2. c[1] = i /\ c[2] = j
      BY ONLY <3>1
    <3>3. M7!Viajou(ps, c)
      BY ONLY <2>3, <2>4, <3>1
    <3>4. M7!Cardinality({l \in c[1]..c[2] : M7!Movendo(ps[l])}) > 1
      BY ONLY <3>3 DEF M7!Viajou
    <3> QED
      BY ONLY <3>2, <3>4 DEF Andam
  <2>6. \E p, u : Tramo(ps, M7!Viagem(ps, <<i, j>>), i, j, p, u)
    BY ONLY <2>4, <2>5, Percorrida(ps), TramoIs
  <2>7. vs[k] = M7!Viagem(ps, <<i, j>>)
    BY ONLY <1>15, <2>1, <2>4, k \in 1..m
  <2> QED
    BY ONLY <2>1, <2>3, <2>6, <2>7
<1>19. ASSUME NEW k \in 1..m, NEW l \in 1..m, k < l PROVE vs[k].chegada < vs[l].saida
  <2>1. PICK i, j, p, u : i = from[k] /\ Tramo(ps, vs[k], i, j, p, u)
    BY ONLY <1>18, k \in 1..m
  <2>2. PICK i2, j2, p2, u2 : i2 = from[l] /\ Tramo(ps, vs[l], i2, j2, p2, u2)
    BY ONLY <1>18, l \in 1..m
  <2>3. i < i2 /\ M7!Comeca(ps, i2)
    BY ONLY <1>12, <1>18, <1>19, <2>1, <2>2, k \in 1..m, l \in 1..m
  <2>4. /\ Giro(ps, i, j) /\ p \in i..j /\ u \in i..j /\ vs[k].chegada = ps[u].ts
        /\ Giro(ps, i2, j2) /\ p2 \in i2..j2 /\ vs[l].saida = ps[p2].ts
    BY ONLY <2>1, <2>2 DEF Tramo
  <2>5. j < i2
    BY ONLY <1>1, <2>3, <2>4, GirosFollow
  <2>6. i \in 1..n /\ j \in i + 1..n /\ i2 \in 1..n /\ j2 \in i2 + 1..n
    BY ONLY <1>2, <2>4 DEF Giro
  <2>7. u \in 1..n /\ p2 \in 1..n /\ u < p2
    BY ONLY <2>4, <2>5, <2>6, n \in Nat
  <2> QED
    BY ONLY <1>1, <1>2, <2>4, <2>7 DEF Seguidos
<1>20. ASSUME NEW i \in 2..Len(ps), ps[i - 1].ignicao, ps[i].ignicao,
              M7!Movendo(ps[i - 1]), M7!Movendo(ps[i]), ps[i].ts - ps[i - 1].ts \in 41..600
       PROVE  \E k \in 1..m : vs[k].saida <= ps[i - 1].ts /\ ps[i].ts <= vs[k].chegada
  <2>1. M7!Suavizada(ps, i - 1)
    BY ONLY <1>20 DEF M7!Suavizada
  <2>2. PICK a \in 1..i - 1 : M7!Comeca(ps, a) /\ \A k \in a..i - 1 : M7!Suavizada(ps, k)
    BY ONLY <1>1, <2>1, i \in 2..Len(ps), CicloDe
  <2>3. i \in 2..n /\ a \in 1..n - 1 /\ a \in 1..n
    BY ONLY <1>2, n \in Nat, i \in 2..Len(ps), a \in 1..i - 1
  <2>4. PICK j : M7!Ciclo(ps, a) = <<a, j>> /\ Giro(ps, a, j)
    BY ONLY <1>1, <1>2, <2>2, <2>3, CicloIs
  <2>5. j \in a + 1..n /\ (~M7!Suavizada(ps, j) \/ j = n)
    BY ONLY <1>2, <2>4 DEF Giro
  <2>6. i \in a + 1..j
    <3>1. j \notin a..i - 1 \/ j = n
      BY ONLY <2>2, <2>5
    <3> QED
      BY ONLY <2>3, <2>5, <3>1, n \in Nat, a \in 1..i - 1
  <2>7. PICK first, last : first = M7!Min(Andam(ps, a, j)) /\ last = M7!Max(Andam(ps, a, j))
    OBVIOUS
  <2>8. M7!Viajou(ps, <<a, j>>) /\ first <= i - 1 /\ i <= last
    BY ONLY <1>20, <2>4, <2>6, <2>7, Percorrida(ps), ViajouIs
  <2>9. a \in is
    BY ONLY <1>2, <1>4, <2>2, <2>3, <2>4, <2>8
  <2>10. PICK k \in 1..m : from[k] = a
    BY ONLY <1>13, <2>3, <2>9
  <2>11. vs[k] = M7!Viagem(ps, <<a, j>>)
    BY ONLY <1>15, <2>4, <2>10
  <2>12. vs[k].saida = ps[first].ts /\ vs[k].chegada = ps[last].ts
    BY ONLY <2>7, <2>11, ViagemDeM7
  <2>13. first \in 1..n /\ last \in 1..n
    <3>1. M7!Cardinality(Andam(ps, a, j)) > 1
      <4>1. PICK c : c = <<a, j>>
        OBVIOUS
      <4>2. c[1] = a /\ c[2] = j
        BY ONLY <4>1
      <4>3. M7!Viajou(ps, c)
        BY ONLY <2>8, <4>1
      <4>4. M7!Cardinality({l \in c[1]..c[2] : M7!Movendo(ps[l])}) > 1
        BY ONLY <4>3 DEF M7!Viajou
      <4> QED
        BY ONLY <4>2, <4>4 DEF Andam
    <3>2. first \in a..j /\ last \in a..j
      BY ONLY <1>1, <2>4, <2>7, <3>1, AndamIs
    <3> QED
      BY ONLY <2>3, <2>5, <3>2, n \in Nat
  <2>14. ps[first].ts <= ps[i - 1].ts /\ ps[i].ts <= ps[last].ts
    <3>1. \A x \in 1..n : ps[x].ts \in Int
      BY ONLY <1>1, <1>2, PontosTell
    <3>2. \A x, y \in 1..n : x < y => ps[x].ts < ps[y].ts
      BY ONLY <1>1, <1>2 DEF Seguidos
    <3>3. \A x, y \in 1..n : x <= y => ps[x].ts <= ps[y].ts
      BY ONLY <3>1, <3>2
    <3>4. i - 1 \in 1..n /\ i \in 1..n
      BY ONLY <2>3, n \in Nat
    <3> QED
      BY ONLY <2>8, <2>13, <3>3, <3>4
  <2> QED
    BY ONLY <2>12, <2>14, k \in 1..m
<1>21. Corridas(vs, ps)
  BY ONLY <1>17, <1>18, <1>19, <1>20 DEF Corridas
<1> QED
  BY ONLY <1>14, <1>21

\* The odometer of a trip is read at its first and its last point.
LEMMA TramoTells ==
  ASSUME NEW ps, Percorrida(ps), NEW v, NEW i, NEW j, NEW p, NEW u, Tramo(ps, v, i, j, p, u)
  PROVE  /\ v.saida < v.chegada /\ v.movimento <= v.total
         /\ \A a, b \in 1..Len(ps) :
              /\ ps[a].ts \in v.saida..v.chegada /\ ps[b].ts \in v.saida..v.chegada
              /\ ps[b].ts - ps[a].ts > 120
              => \E k \in a..b : ps[k].ignicao
         /\ ps # <<>> /\ ps[1].odometro # -1 =>
              v.distancia =
                ps[CHOOSE x \in DOMAIN ps : ps[x].ts = v.chegada].odometro
                  - ps[CHOOSE x \in DOMAIN ps : ps[x].ts = v.saida].odometro
<1>1. ps \in Seq(PontosGps) /\ Seguidos(ps)
  BY ONLY Percorrida(ps) DEF Percorrida, Seguidos
<1>2. PICK n \in Nat : n = Len(ps)
  BY ONLY <1>1
<1>3. /\ Giro(ps, i, j) /\ p \in i..j /\ u \in i..j /\ p < u
      /\ v.saida = ps[p].ts /\ v.chegada = ps[u].ts /\ v.movimento <= v.total
      /\ Conhecidos(ps) => v.distancia = ps[u].odometro - ps[p].odometro
  BY ONLY Tramo(ps, v, i, j, p, u) DEF Tramo
<1>4. i \in 1..n /\ j \in i + 1..n
  BY ONLY <1>2, <1>3 DEF Giro
<1>5. p \in 1..n /\ u \in 1..n /\ DOMAIN ps = 1..n
  BY ONLY <1>1, <1>2, <1>3, <1>4, n \in Nat
<1>6. \A x \in 1..n : ps[x].ts \in Int
  BY ONLY <1>1, <1>2, PontosTell
<1>7. \A x, y \in 1..n : x < y => ps[x].ts < ps[y].ts
  BY ONLY <1>1, <1>2 DEF Seguidos
<1>8. v.saida < v.chegada
  BY ONLY <1>3, <1>5, <1>7
<1>9. ASSUME NEW x \in 1..n, NEW y \in 1..n, ps[x].ts <= ps[y].ts PROVE x <= y
  <2>1. ~(ps[y].ts < ps[x].ts)
    BY ONLY <1>6, <1>9
  <2>2. ~(y < x)
    BY ONLY <1>7, <2>1, x \in 1..n, y \in 1..n
  <2> QED
    BY ONLY <2>2, n \in Nat, x \in 1..n, y \in 1..n
<1>10. ASSUME NEW a \in 1..n, NEW b \in 1..n,
              ps[a].ts \in v.saida..v.chegada, ps[b].ts \in v.saida..v.chegada,
              ps[b].ts - ps[a].ts > 120
       PROVE  \E k \in a..b : ps[k].ignicao
  <2>1. /\ ps[p].ts <= ps[a].ts /\ ps[a].ts <= ps[u].ts
        /\ ps[p].ts <= ps[b].ts /\ ps[b].ts <= ps[u].ts
    BY ONLY <1>3, <1>5, <1>6, <1>10
  <2>2. p <= a /\ a <= u /\ p <= b /\ b <= u
    BY ONLY <1>5, <1>9, <2>1, a \in 1..n, b \in 1..n
  <2>3. a \in i..j /\ b \in i..j
    BY ONLY <1>3, <1>4, <2>2, n \in Nat, a \in 1..n, b \in 1..n
  <2>4. \A k, l \in 1..Len(ps) : k < l => ps[k].ts < ps[l].ts
    BY ONLY <1>2, <1>7
  <2> QED
    BY ONLY <1>1, <1>3, <1>10, <2>3, <2>4, GiroIsOn
<1>11. ASSUME NEW x \in 1..n PROVE x = CHOOSE y \in DOMAIN ps : ps[y].ts = ps[x].ts
  <2>1. \A y \in DOMAIN ps : ps[y].ts = ps[x].ts => y = x
    <3> TAKE y \in DOMAIN ps
    <3>1. y \in 1..n
      BY ONLY <1>5, y \in DOMAIN ps
    <3>2. ps[y].ts = ps[x].ts => ps[y].ts <= ps[x].ts /\ ps[x].ts <= ps[y].ts
      BY ONLY <1>6, <3>1, x \in 1..n
    <3> QED
      BY ONLY <1>9, <3>1, <3>2, n \in Nat, x \in 1..n
  <2>2. x \in DOMAIN ps
    BY ONLY <1>5, x \in 1..n
  <2> QED
    BY ONLY <2>1, <2>2
<1>12. ASSUME ps # <<>>, ps[1].odometro # -1
       PROVE  v.distancia =
                ps[CHOOSE x \in DOMAIN ps : ps[x].ts = v.chegada].odometro
                  - ps[CHOOSE x \in DOMAIN ps : ps[x].ts = v.saida].odometro
  <2>1. 1 \in 1..n
    BY ONLY <1>4, n \in Nat
  <2>2. ~Desconhecidos(ps)
    BY ONLY <1>2, <1>12, <2>1 DEF Desconhecidos
  <2>3. Conhecidos(ps)
    BY ONLY <2>2, Percorrida(ps) DEF Percorrida
  <2>4. v.distancia = ps[u].odometro - ps[p].odometro
    BY ONLY <1>3, <2>3
  <2>5. u = CHOOSE x \in DOMAIN ps : ps[x].ts = v.chegada
    BY ONLY <1>3, <1>5, <1>11
  <2>6. p = CHOOSE x \in DOMAIN ps : ps[x].ts = v.saida
    BY ONLY <1>3, <1>5, <1>11
  <2> QED
    BY ONLY <2>4, <2>5, <2>6
<1> QED
  BY ONLY <1>2, <1>3, <1>8, <1>10, <1>12

LEMMA TripsPromise == M7OK => TripsAreDrives
<1> SUFFICES ASSUME M7OK, pedido = "pdf_v2", estado = "respondido"
             PROVE  M7!TripsAreDrives
  BY DEF TripsAreDrives, M7!TripsAreDrives, M7!Answered
<1>1. PICK ps : ps = M7!NoPeriodo(entrada)
  OBVIOUS
<1>2. PICK vs : vs = resposta
  OBVIOUS
<1>3. Percorrida(ps) /\ Corridas(vs, ps)
  <2>1. /\ Rodou(entrada) /\ Len(entrada) <= MaxPontos
        /\ \E b \in BOOLEAN :
             vs = M7!Viagens(M7!NoPeriodo(IF b THEN M7!Reverse(entrada) ELSE entrada))
    BY <1>2 DEF M7OK
  <2>2. PICK b \in BOOLEAN :
          vs = M7!Viagens(M7!NoPeriodo(IF b THEN M7!Reverse(entrada) ELSE entrada))
    BY <2>1
  <2>3. PICK pontos : pontos = M7!NoPeriodo(IF b THEN M7!Reverse(entrada) ELSE entrada)
    OBVIOUS
  <2>4. Percorrida(ps) /\ M7!Ordenados(pontos) = ps
    BY ONLY <1>1, <2>1, <2>3, b \in BOOLEAN, OrdenadosSao
  <2>5. Corridas(M7!Viagens(pontos), ps)
    BY ONLY <2>4, CorridasAre
  <2> QED
    BY ONLY <2>2, <2>3, <2>4, <2>5
<1>4. ps \in Seq(PontosGps) /\ Seguidos(ps)
  BY ONLY <1>3 DEF Percorrida, Seguidos
<1>5. PICK n \in Nat : n = Len(ps) /\ DOMAIN ps = 1..n
  BY ONLY <1>4
<1>6. PICK m \in Nat : m = Len(vs) /\ DOMAIN vs = 1..m
  <2>1. PICK A : vs \in Seq(A)
    BY ONLY <1>3 DEF Corridas
  <2> QED
    BY ONLY <2>1
<1>7. \A k \in 1..m : \E i, j, p, u : Tramo(ps, vs[k], i, j, p, u)
  BY ONLY <1>3, <1>6 DEF Corridas
<1>8. \A k \in 1..m : /\ vs[k].saida < vs[k].chegada /\ vs[k].movimento <= vs[k].total
                      /\ \A a, b \in 1..n :
                           /\ ps[a].ts \in vs[k].saida..vs[k].chegada
                           /\ ps[b].ts \in vs[k].saida..vs[k].chegada
                           /\ ps[b].ts - ps[a].ts > 120
                           => \E l \in a..b : ps[l].ignicao
                      /\ ps # <<>> /\ ps[1].odometro # -1 =>
                           vs[k].distancia =
                             ps[CHOOSE x \in DOMAIN ps : ps[x].ts = vs[k].chegada].odometro
                               - ps[CHOOSE x \in DOMAIN ps : ps[x].ts = vs[k].saida].odometro
  <2> TAKE k \in 1..m
  <2>1. PICK i, j, p, u : Tramo(ps, vs[k], i, j, p, u)
    BY ONLY <1>7, k \in 1..m
  <2>2. PICK v : v = vs[k]
    OBVIOUS
  <2>3. Tramo(ps, v, i, j, p, u)
    BY ONLY <2>1, <2>2
  <2> QED
    BY ONLY <1>3, <1>5, <2>2, <2>3, TramoTells
<1>9. \A k \in 2..Len(vs) : vs[k - 1].chegada < vs[k].saida
  <2> TAKE k \in 2..Len(vs)
  <2>1. k - 1 \in 1..m /\ k \in 1..m /\ k - 1 < k
    BY ONLY <1>6, m \in Nat, k \in 2..Len(vs)
  <2> QED
    BY ONLY <1>3, <1>6, <2>1 DEF Corridas
<1>10. \A v \in M7!Range(vs) : \E k \in 1..m : v = vs[k]
  BY ONLY <1>6, SamePartsM7
<1>11. \A k \in 1..m : vs[k] \in M7!Range(vs)
  BY ONLY <1>6, SamePartsM7
<1>12. ASSUME NEW i \in 2..Len(ps), ps[i - 1].ignicao, ps[i].ignicao,
              M7!Movendo(ps[i - 1]), M7!Movendo(ps[i]), ps[i].ts - ps[i - 1].ts \in 41..600
       PROVE  \E v \in M7!Range(vs) : /\ ps[i - 1].ts \in v.saida..v.chegada
                                      /\ ps[i].ts \in v.saida..v.chegada
  <2>1. PICK k \in 1..m : vs[k].saida <= ps[i - 1].ts /\ ps[i].ts <= vs[k].chegada
    BY ONLY <1>3, <1>6, <1>12 DEF Corridas
  <2>2. PICK x, y : x = ps[i - 1].ts /\ y = ps[i].ts
    OBVIOUS
  <2>3. i - 1 \in 1..n /\ i \in 1..n /\ i - 1 < i
    BY ONLY <1>5, n \in Nat, i \in 2..Len(ps)
  <2>4. x \in Int /\ y \in Int /\ x < y
    BY ONLY <1>4, <1>5, <2>2, <2>3, PontosTell DEF Seguidos
  <2>5. PICK s, c : s = vs[k].saida /\ c = vs[k].chegada
    OBVIOUS
  <2>6. s \in Int /\ c \in Int
    <3>1. PICK a, j, p, u : Tramo(ps, vs[k], a, j, p, u)
      BY ONLY <1>7, k \in 1..m
    <3>2. Giro(ps, a, j) /\ p \in a..j /\ u \in a..j /\ s = ps[p].ts /\ c = ps[u].ts
      BY ONLY <2>5, <3>1 DEF Tramo
    <3>3. a \in 1..n /\ j \in a + 1..n
      BY ONLY <1>5, <3>2 DEF Giro
    <3>4. p \in 1..n /\ u \in 1..n
      BY ONLY <3>2, <3>3, n \in Nat
    <3> QED
      BY ONLY <1>4, <1>5, <3>2, <3>4, PontosTell
  <2>7. x \in s..c /\ y \in s..c
    BY ONLY <2>1, <2>2, <2>4, <2>5, <2>6
  <2> QED
    BY ONLY <1>11, <2>2, <2>5, <2>7, k \in 1..m
<1>13. \A k \in DOMAIN vs : vs[k].saida < vs[k].chegada /\ vs[k].movimento <= vs[k].total
  BY ONLY <1>6, <1>8
<1>14. ASSUME NEW v \in M7!Range(vs), NEW i \in DOMAIN ps, NEW j \in DOMAIN ps,
              ps[i].ts \in v.saida..v.chegada, ps[j].ts \in v.saida..v.chegada,
              ps[j].ts - ps[i].ts > 120
       PROVE  \E k \in i..j : ps[k].ignicao
  <2>1. PICK k \in 1..m : v = vs[k]
    BY ONLY <1>10, v \in M7!Range(vs)
  <2>2. i \in 1..n /\ j \in 1..n
    BY ONLY <1>5, i \in DOMAIN ps, j \in DOMAIN ps
  <2> QED
    BY ONLY <1>8, <1>14, <2>1, <2>2, Zenon
<1>15. ASSUME NEW v \in M7!Range(vs), ps # <<>>, ps[1].odometro # M7!None
       PROVE  v.distancia =
                ps[CHOOSE x \in DOMAIN ps : ps[x].ts = v.chegada].odometro
                  - ps[CHOOSE x \in DOMAIN ps : ps[x].ts = v.saida].odometro
  <2>1. PICK k \in 1..m : v = vs[k]
    BY ONLY <1>10, v \in M7!Range(vs)
  <2>2. ps[1].odometro # -1
    BY ONLY <1>15 DEF M7!None
  <2> QED
    BY ONLY <1>8, <1>15, <2>1, <2>2, Zenon
<1> QED
  BY ONLY <1>1, <1>2, <1>9, <1>12, <1>13, <1>14, <1>15, Zenon DEF M7!TripsAreDrives

\* M7History: the trips of the second PDF are what the vehicle drove, for any number of
\* points in either order.
THEOREM TripsAreDrivesHolds == MCSpec => []TripsAreDrives
<1>1. MCInit => M7OK
  BY M7Init
<1>2. M7OK /\ [MCNext]_MCvars => M7OK'
  BY M7Next
<1>3. M7OK => TripsAreDrives
  BY TripsPromise
<1> QED
  BY <1>1, <1>2, <1>3, PTL DEF MCSpec

-----------------------------------------------------------------------------
(* The reports.                                                            *)

\* A lookup that is not made is a lookup.
LEMMA ForaIs ==
  /\ Geocode!Fora \in Geocode!Chamadas
  /\ Geocode!Fora.estado = "fora" /\ Geocode!Fora.cidade = Geocode!SemCidade
BY DEF Geocode!Fora, Geocode!Chamadas, Geocode!Nada, Geocode!Enderecos

\* A lookup that is given its address.
Given(w, e) == [w EXCEPT !.estado = "pronta", !.endereco = e]

\* A lookup given its address is a lookup, done, with its city.
LEMMA GivenIs ==
  ASSUME NEW w \in Geocode!Chamadas, NEW e \in Geocode!Enderecos
  PROVE  /\ Given(w, e) \in Geocode!Chamadas /\ Given(w, e).estado = "pronta"
         /\ Given(w, e).cidade = w.cidade /\ Given(w, e).endereco = e
<1>1. PICK h : h = [w EXCEPT !.estado = "pronta"]
  OBVIOUS
<1>2. h \in Geocode!Chamadas /\ h.estado = "pronta" /\ h.cidade = w.cidade
  BY <1>1 DEF Geocode!Chamadas
<1>3. Given(w, e) = [h EXCEPT !.endereco = e]
  BY <1>1 DEF Given, Geocode!Chamadas
<1> QED
  BY <1>2, <1>3 DEF Geocode!Chamadas

\* The points of a report.
LEMMA PointIs ==
  ASSUME Geocode!TypeOK, NEW c \in Callers, NEW i \in DOMAIN relatorio[c].pontos
  PROVE  /\ i \in Nat /\ i >= 1
         /\ relatorio[c].pontos[i].key \in Coords
         /\ relatorio[c].pontos[i].cidade \in Cidades \cup {Geocode!SemCidade}
<1>1. PICK ps : ps = relatorio[c].pontos
  OBVIOUS
<1>2. ps \in Geocode!Pontos \cup {<<>>}
  BY <1>1 DEF Geocode!TypeOK, Geocode!Relatorios
<1>3. ps # <<>>
  BY <1>1
<1>4. PICK n \in 1..PontosContestacao :
        ps \in [1..n -> [key : Coords, cidade : Cidades \cup {Geocode!SemCidade}]]
  BY <1>2, <1>3 DEF Geocode!Pontos
<1> QED
  BY <1>1, <1>4

\* No report, no lookup and an empty cache have it.
LEMMA GeocodeInit == Geocode!Init => Geocode!Inductive
<1> SUFFICES ASSUME Geocode!Init PROVE Geocode!Inductive
  OBVIOUS
<1>1. Geocode!TypeOK
  <2>1. Geocode!Nada \in Geocode!Enderecos
    BY DEF Geocode!Nada, Geocode!Enderecos
  <2>2. [estado |-> "novo", pontos |-> <<>>] \in Geocode!Relatorios
    BY DEF Geocode!Relatorios
  <2> QED
    BY <2>1, <2>2, ForaIs DEF Geocode!Init, Geocode!TypeOK
<1>2. Geocode!CacheOK
  BY DEF Geocode!Init, Geocode!CacheOK, Geocode!Justo, Geocode!Nada
<1>3. Geocode!ChamadasOK
  BY ForaIs DEF Geocode!Init, Geocode!ChamadasOK, Geocode!ChamadaOK
<1>4. Geocode!RelatoriosOK
  BY DEF Geocode!Init, Geocode!RelatoriosOK
<1> QED
  BY <1>1, <1>2, <1>3, <1>4 DEF Geocode!Inductive

-----------------------------------------------------------------------------
(* What the steps share.                                                   *)

\* Coordinates that stand for an address keep doing so, as failures only grow.
LEMMA JustoStays ==
  ASSUME NEW k, NEW e, falhou \subseteq falhou', Geocode!Justo(k, e)
  PROVE  Geocode!Justo(k, e)'
BY DEF Geocode!Justo

\* A lookup stays in order while its report stays as it is.
LEMMA ChamadaStays ==
  ASSUME NEW c \in Callers, NEW k \in Coords, NEW r, falhou \subseteq falhou',
         relatorio'[c].pontos = relatorio[c].pontos, Geocode!ChamadaOK(c, k, r)
  PROVE  Geocode!ChamadaOK(c, k, r)'
BY DEF Geocode!ChamadaOK, Geocode!Justo

\* A step of one lookup, not yet done, to a record that is in order.
LEMMA OneLookupMoves ==
  ASSUME Geocode!Inductive, NEW c \in Callers, NEW k \in Coords,
         NEW r \in Geocode!Chamadas,
         chamada[c][k].estado # "pronta",
         chamada' = [chamada EXCEPT ![c][k] = r],
         relatorio' = relatorio,
         falhou \subseteq falhou', falhou' \in SUBSET Coords,
         Geocode!ChamadaOK(c, k, r)',
         cache' \in [Coords -> Geocode!Enderecos], Geocode!CacheOK',
         inFlight' \in [Coords -> Callers \cup {Geocode!Nobody}]
  PROVE  Geocode!Inductive'
<1>1. /\ Geocode!TypeOK /\ Geocode!ChamadasOK /\ Geocode!RelatoriosOK
      /\ chamada \in [Callers -> [Coords -> Geocode!Chamadas]]
  BY DEF Geocode!Inductive, Geocode!TypeOK
<1>2. chamada' \in [Callers -> [Coords -> Geocode!Chamadas]]
  BY <1>1
<1>3. \A d \in Callers, l \in Coords :
        chamada'[d][l] = IF d = c /\ l = k THEN r ELSE chamada[d][l]
  BY <1>1
<1>4. Geocode!TypeOK'
  BY <1>1, <1>2 DEF Geocode!TypeOK
<1>5. Geocode!ChamadasOK'
  <2> SUFFICES ASSUME NEW d \in Callers, NEW l \in Coords
               PROVE  Geocode!ChamadaOK(d, l, chamada[d][l])'
    BY DEF Geocode!ChamadasOK
  <2>1. CASE d = c /\ l = k
    <3>1. chamada'[d][l] = r
      BY <1>3, <2>1
    <3> QED
      BY <2>1, <3>1 DEF Geocode!ChamadaOK
  <2>2. CASE ~(d = c /\ l = k)
    <3>1. PICK w : w = chamada[d][l]
      OBVIOUS
    <3>2. chamada'[d][l] = w
      BY <1>3, <2>2, <3>1
    <3>3. Geocode!ChamadaOK(d, l, w)
      BY <1>1, <3>1 DEF Geocode!ChamadasOK
    <3>4. Geocode!ChamadaOK(d, l, w)'
      BY <3>3, ChamadaStays
    <3> QED
      BY <3>2, <3>4 DEF Geocode!ChamadaOK
  <2> QED
    BY <2>1, <2>2
<1>6. Geocode!RelatoriosOK'
  <2> SUFFICES ASSUME NEW d \in Callers
               PROVE  /\ relatorio'[d].estado = "novo" => relatorio'[d].pontos = <<>>
                      /\ relatorio'[d].estado = "respondido" =>
                           \A i \in DOMAIN relatorio'[d].pontos :
                             Geocode!Feita(d, relatorio[d].pontos[i].key)'
    BY DEF Geocode!RelatoriosOK
  <2>1. /\ relatorio[d].estado = "novo" => relatorio[d].pontos = <<>>
        /\ relatorio[d].estado = "respondido" =>
             \A i \in DOMAIN relatorio[d].pontos :
               chamada[d][relatorio[d].pontos[i].key].estado = "pronta"
    BY <1>1 DEF Geocode!RelatoriosOK, Geocode!Feita
  <2>2. ASSUME NEW i \in DOMAIN relatorio[d].pontos
        PROVE  relatorio[d].pontos[i].key \in Coords
    BY <1>1, PointIs
  <2>3. ASSUME NEW l \in Coords, chamada[d][l].estado = "pronta"
        PROVE  chamada'[d][l].estado = "pronta"
    BY <1>3, <2>3
  <2> QED
    BY <2>1, <2>2, <2>3 DEF Geocode!Feita
<1> QED
  BY <1>4, <1>5, <1>6 DEF Geocode!Inductive

-----------------------------------------------------------------------------
(* The report.                                                             *)

\* The report of one request changes, and no lookup.
LEMMA StartKeeps ==
  ASSUME Geocode!Inductive, NEW c \in Callers, NEW ps \in Geocode!Pontos, NEW d,
         Geocode!Start(c, ps, d)
  PROVE  Geocode!Inductive'
<1>1. /\ Geocode!TypeOK /\ Geocode!CacheOK /\ Geocode!ChamadasOK /\ Geocode!RelatoriosOK
      /\ relatorio[c].estado = "novo"
      /\ relatorio' = [relatorio EXCEPT ![c] = [estado |-> "lote", pontos |-> ps]]
      /\ cache' = cache /\ inFlight' = inFlight /\ falhou' = falhou /\ chamada' = chamada
  BY DEF Geocode!Inductive, Geocode!Start
<1>2. PICK n : n = [estado |-> "lote", pontos |-> ps]
  OBVIOUS
<1>3. n \in Geocode!Relatorios /\ n.estado = "lote" /\ n.pontos = ps
  BY <1>2 DEF Geocode!Relatorios
<1>4. /\ relatorio' \in [Callers -> Geocode!Relatorios]
      /\ \A e \in Callers : relatorio'[e] = IF e = c THEN n ELSE relatorio[e]
  BY <1>1, <1>2, <1>3 DEF Geocode!TypeOK
<1>5. Geocode!TypeOK'
  BY <1>1, <1>4 DEF Geocode!TypeOK
<1>6. Geocode!CacheOK'
  BY <1>1 DEF Geocode!CacheOK, Geocode!Justo
<1>7. Geocode!ChamadasOK'
  <2> SUFFICES ASSUME NEW e \in Callers, NEW k \in Coords
               PROVE  Geocode!ChamadaOK(e, k, chamada[e][k])'
    BY DEF Geocode!ChamadasOK
  <2>1. PICK w : w = chamada[e][k]
    OBVIOUS
  <2>2. Geocode!ChamadaOK(e, k, w) /\ chamada'[e][k] = w
    BY <1>1, <2>1 DEF Geocode!ChamadasOK
  <2>3. CASE e = c
    <3>1. relatorio[c].pontos = <<>>
      BY <1>1 DEF Geocode!RelatoriosOK
    <3>2. w = Geocode!Fora
      BY <2>2, <2>3, <3>1 DEF Geocode!ChamadaOK, Geocode!Primeiros
    <3> QED
      BY <2>2, <3>2, ForaIs DEF Geocode!ChamadaOK
  <2>4. CASE e # c
    <3>1. relatorio'[e].pontos = relatorio[e].pontos
      BY <1>4, <2>4
    <3>2. Geocode!ChamadaOK(e, k, w)'
      BY <1>1, <2>2, <3>1, ChamadaStays
    <3> QED
      BY <2>2, <3>2 DEF Geocode!ChamadaOK
  <2> QED
    BY <2>3, <2>4
<1>8. Geocode!RelatoriosOK'
  BY <1>1, <1>3, <1>4 DEF Geocode!RelatoriosOK, Geocode!Feita
<1> QED
  BY <1>5, <1>6, <1>7, <1>8 DEF Geocode!Inductive

\* A report ends, refused or answered.
LEMMA EndKeeps ==
  ASSUME Geocode!Inductive, NEW c \in Callers, Geocode!Refuse(c) \/ Geocode!Respond(c)
  PROVE  Geocode!Inductive'
<1>1. /\ Geocode!TypeOK /\ Geocode!CacheOK /\ Geocode!ChamadasOK /\ Geocode!RelatoriosOK
      /\ cache' = cache /\ inFlight' = inFlight /\ falhou' = falhou /\ chamada' = chamada
  BY DEF Geocode!Inductive, Geocode!Refuse, Geocode!Respond
<1>2. PICK st \in {"erro", "respondido"} :
        /\ relatorio' = [relatorio EXCEPT ![c].estado = st]
        /\ st = "respondido" =>
             \A i \in DOMAIN relatorio[c].pontos :
               Geocode!Feita(c, relatorio[c].pontos[i].key)
  BY DEF Geocode!Refuse, Geocode!Respond
<1>3. PICK n : n = [relatorio[c] EXCEPT !.estado = st]
  OBVIOUS
<1>4. /\ n \in Geocode!Relatorios
      /\ n.estado = st /\ n.pontos = relatorio[c].pontos
  BY <1>1, <1>3 DEF Geocode!TypeOK, Geocode!Relatorios
<1>5. /\ relatorio' \in [Callers -> Geocode!Relatorios]
      /\ \A e \in Callers : relatorio'[e] = IF e = c THEN n ELSE relatorio[e]
  BY <1>1, <1>2, <1>3, <1>4 DEF Geocode!TypeOK
<1>6. \A e \in Callers : relatorio'[e].pontos = relatorio[e].pontos
  BY <1>4, <1>5
<1>7. Geocode!TypeOK'
  BY <1>1, <1>5 DEF Geocode!TypeOK
<1>8. Geocode!CacheOK'
  BY <1>1 DEF Geocode!CacheOK, Geocode!Justo
<1>9. Geocode!ChamadasOK'
  <2> SUFFICES ASSUME NEW e \in Callers, NEW k \in Coords
               PROVE  Geocode!ChamadaOK(e, k, chamada[e][k])'
    BY DEF Geocode!ChamadasOK
  <2>1. PICK w : w = chamada[e][k]
    OBVIOUS
  <2>2. Geocode!ChamadaOK(e, k, w) /\ chamada'[e][k] = w
    BY <1>1, <2>1 DEF Geocode!ChamadasOK
  <2>3. Geocode!ChamadaOK(e, k, w)'
    BY <1>1, <1>6, <2>2, ChamadaStays
  <2> QED
    BY <2>2, <2>3 DEF Geocode!ChamadaOK
<1>10. Geocode!RelatoriosOK'
  BY <1>1, <1>2, <1>4, <1>5 DEF Geocode!RelatoriosOK, Geocode!Feita
<1> QED
  BY <1>7, <1>8, <1>9, <1>10 DEF Geocode!Inductive

-----------------------------------------------------------------------------
(* The lookups.                                                            *)

\* A lookup begins: from the cache, on the call of another, or with its own.
LEMMA CallKeeps ==
  ASSUME Geocode!Inductive, NEW c \in Callers, NEW i \in DOMAIN relatorio[c].pontos,
         Geocode!Call(c, i)
  PROVE  Geocode!Inductive'
<1>1. PICK p : p = relatorio[c].pontos[i]
  OBVIOUS
<1>2. PICK k : k = p.key
  OBVIOUS
<1>3. /\ Geocode!TypeOK /\ Geocode!CacheOK /\ i \in Geocode!Primeiros(relatorio[c].pontos)
      /\ chamada[c][k] = Geocode!Fora
      /\ cache' = cache /\ falhou' = falhou /\ relatorio' = relatorio
  BY <1>1, <1>2 DEF Geocode!Inductive, Geocode!Call, Geocode!NoLote
<1>4. k \in Coords /\ p.cidade \in Cidades \cup {Geocode!SemCidade}
  BY <1>1, <1>2, <1>3, PointIs
<1>5. Geocode!CacheOK' /\ cache' \in [Coords -> Geocode!Enderecos]
  BY <1>3 DEF Geocode!CacheOK, Geocode!Justo, Geocode!TypeOK
<1>6. \E r \in Geocode!Chamadas :
        /\ chamada' = [chamada EXCEPT ![c][k] = r]
        /\ r.cidade = p.cidade
        /\ r.estado = "espera" => r.de \in Callers /\ r.cidade = Geocode!SemCidade
        /\ r.estado = "pronta" => /\ r.cidade = Geocode!SemCidade
                                  /\ r.endereco = cache[k] /\ cache[k] # Geocode!Nada
        /\ inFlight' \in [Coords -> Callers \cup {Geocode!Nobody}]
  <2>1. /\ cache[k] \in Geocode!Enderecos /\ inFlight[k] \in Callers \cup {Geocode!Nobody}
        /\ Geocode!Nada \in Geocode!Enderecos
    BY <1>3, <1>4 DEF Geocode!TypeOK, Geocode!Nada, Geocode!Enderecos
  <2>2. PICK taken, waits, asks :
          /\ taken = Given(Geocode!Fora, cache[k])
          /\ waits = [Geocode!Fora EXCEPT !.estado = "espera", !.de = inFlight[k]]
          /\ asks  = [Geocode!Fora EXCEPT !.estado = "ruas", !.cidade = p.cidade]
    OBVIOUS
  <2>3. /\ taken \in Geocode!Chamadas /\ taken.estado = "pronta"
        /\ taken.cidade = Geocode!SemCidade /\ taken.endereco = cache[k]
    BY <2>1, <2>2, ForaIs, GivenIs
  <2>a. /\ waits \in Geocode!Chamadas /\ waits.estado = "espera"
        /\ waits.cidade = Geocode!SemCidade /\ waits.de = inFlight[k]
    <3>1. PICK h : h = [Geocode!Fora EXCEPT !.estado = "espera"]
      OBVIOUS
    <3>2. /\ h \in Geocode!Chamadas /\ h.estado = "espera"
          /\ h.cidade = Geocode!SemCidade
      BY <3>1, ForaIs DEF Geocode!Chamadas
    <3>3. waits = [h EXCEPT !.de = inFlight[k]]
      BY <2>2, <3>1, ForaIs DEF Geocode!Chamadas
    <3> QED
      BY <2>1, <3>2, <3>3 DEF Geocode!Chamadas
  <2>b. asks \in Geocode!Chamadas /\ asks.estado = "ruas" /\ asks.cidade = p.cidade
    <3>1. PICK h : h = [Geocode!Fora EXCEPT !.estado = "ruas"]
      OBVIOUS
    <3>2. h \in Geocode!Chamadas /\ h.estado = "ruas"
      BY <3>1, ForaIs DEF Geocode!Chamadas
    <3>3. asks = [h EXCEPT !.cidade = p.cidade]
      BY <2>2, <3>1, ForaIs DEF Geocode!Chamadas
    <3> QED
      BY <1>4, <3>2, <3>3 DEF Geocode!Chamadas
  <2>4. \/ /\ p.cidade = Geocode!SemCidade /\ cache[k] # Geocode!Nada
           /\ chamada' = [chamada EXCEPT ![c][k] = taken] /\ inFlight' = inFlight
        \/ /\ p.cidade = Geocode!SemCidade /\ inFlight[k] # Geocode!Nobody
           /\ chamada' = [chamada EXCEPT ![c][k] = waits] /\ inFlight' = inFlight
        \/ /\ chamada' = [chamada EXCEPT ![c][k] = asks]
           /\ inFlight' = [inFlight EXCEPT ![k] = c]
    BY <1>1, <1>2, <2>2 DEF Geocode!Call, Given
  <2>5. CASE /\ p.cidade = Geocode!SemCidade /\ cache[k] # Geocode!Nada
             /\ chamada' = [chamada EXCEPT ![c][k] = taken] /\ inFlight' = inFlight
    BY <1>3, <2>3, <2>5 DEF Geocode!TypeOK
  <2>6. CASE /\ p.cidade = Geocode!SemCidade /\ inFlight[k] # Geocode!Nobody
             /\ chamada' = [chamada EXCEPT ![c][k] = waits] /\ inFlight' = inFlight
    BY <1>3, <2>1, <2>a, <2>6 DEF Geocode!TypeOK
  <2>7. CASE /\ chamada' = [chamada EXCEPT ![c][k] = asks]
             /\ inFlight' = [inFlight EXCEPT ![k] = c]
    BY <1>3, <1>4, <2>b, <2>7 DEF Geocode!TypeOK
  <2> QED
    BY <2>4, <2>5, <2>6, <2>7
<1>7. PICK r \in Geocode!Chamadas :
        /\ chamada' = [chamada EXCEPT ![c][k] = r]
        /\ r.cidade = p.cidade
        /\ r.estado = "espera" => r.de \in Callers /\ r.cidade = Geocode!SemCidade
        /\ r.estado = "pronta" => /\ r.cidade = Geocode!SemCidade
                                  /\ r.endereco = cache[k] /\ cache[k] # Geocode!Nada
        /\ inFlight' \in [Coords -> Callers \cup {Geocode!Nobody}]
  BY <1>6
<1>8. Geocode!ChamadaOK(c, k, r)
  BY <1>1, <1>2, <1>3, <1>4, <1>7 DEF Geocode!ChamadaOK, Geocode!CacheOK
<1>9. Geocode!ChamadaOK(c, k, r)'
  BY <1>3, <1>4, <1>8, ChamadaStays
<1>10. chamada[c][k].estado # "pronta"
  BY <1>3, ForaIs
<1>11. falhou \subseteq falhou' /\ falhou' \in SUBSET Coords
  BY <1>3 DEF Geocode!TypeOK
<1> QED
  BY <1>3, <1>4, <1>5, <1>7, <1>9, <1>10, <1>11, OneLookupMoves

\* A lookup has what it asked for: the address goes to the cache too.
LEMMA ResolveKeeps ==
  ASSUME Geocode!Inductive, NEW c \in Callers, NEW k \in Coords,
         chamada[c][k].estado \in {"ruas", "numero"},
         NEW e \in Geocode!Enderecos, e # Geocode!Nada,
         falhou \subseteq falhou', falhou' \in SUBSET Coords, relatorio' = relatorio,
         Geocode!Justo(k, e)',
         e.tipo = "rua" => chamada[c][k].cidade \in {e.cidade, Geocode!SemCidade},
         Geocode!Resolve(c, k, e)
  PROVE  Geocode!Inductive'
<1>1. /\ Geocode!TypeOK /\ Geocode!CacheOK
      /\ chamada[c][k] \in Geocode!Chamadas
      /\ Geocode!ChamadaOK(c, k, chamada[c][k])
  BY DEF Geocode!Inductive, Geocode!TypeOK, Geocode!ChamadasOK
<1>2. PICK w : w = chamada[c][k]
  OBVIOUS
<1>4. PICK r : r = Given(w, e)
  OBVIOUS
<1>5. /\ r \in Geocode!Chamadas /\ r.estado = "pronta" /\ r.cidade = w.cidade
      /\ r.endereco = e
  BY <1>1, <1>2, <1>4, GivenIs
<1>6. chamada' = [chamada EXCEPT ![c][k] = r]
  BY <1>2, <1>4 DEF Geocode!Resolve, Given
<1>7. Geocode!ChamadaOK(c, k, w)' /\ w # Geocode!Fora
  BY <1>1, <1>2, ForaIs, ChamadaStays
<1>8. Geocode!ChamadaOK(c, k, r)'
  BY <1>2, <1>5, <1>7 DEF Geocode!ChamadaOK
<1>9. cache' \in [Coords -> Geocode!Enderecos]
  BY <1>1 DEF Geocode!Resolve, Geocode!TypeOK
<1>10. Geocode!CacheOK'
  <2> SUFFICES ASSUME NEW l \in Coords PROVE Geocode!Justo(l, cache[l])'
    BY DEF Geocode!CacheOK
  <2>1. cache'[l] = IF l = k THEN e ELSE cache[l]
    BY <1>1 DEF Geocode!Resolve, Geocode!TypeOK
  <2> QED
    BY <1>1, <2>1 DEF Geocode!CacheOK, Geocode!Justo
<1>11. inFlight' \in [Coords -> Callers \cup {Geocode!Nobody}]
  BY <1>1 DEF Geocode!Resolve, Geocode!TypeOK
<1> QED
  BY <1>5, <1>6, <1>8, <1>9, <1>10, <1>11, OneLookupMoves

\* The streets are answered, or not.
LEMMA RuasKeeps ==
  ASSUME Geocode!Inductive, NEW c \in Callers, NEW k \in Coords, NEW ok \in BOOLEAN,
         Geocode!Ruas(c, k, ok)
  PROVE  Geocode!Inductive'
<1>1. /\ Geocode!TypeOK /\ Geocode!CacheOK
      /\ chamada[c][k] \in Geocode!Chamadas
      /\ Geocode!ChamadaOK(c, k, chamada[c][k])
  BY DEF Geocode!Inductive, Geocode!TypeOK, Geocode!ChamadasOK
<1>2. /\ chamada[c][k].estado = "ruas" /\ relatorio' = relatorio
      /\ falhou \subseteq falhou' /\ falhou' \in SUBSET Coords
      /\ ~ok => k \in falhou'
  BY <1>1 DEF Geocode!Ruas, Geocode!TypeOK
<1>3. CASE ok /\ k \in Conhecidas
  <2>1. PICK w : w = chamada[c][k]
    OBVIOUS
  <2>2. PICK r : r = [w EXCEPT !.estado = "numero"]
    OBVIOUS
  <2>3. /\ r \in Geocode!Chamadas /\ r.estado = "numero" /\ r.cidade = w.cidade
        /\ w.estado = "ruas"
    BY <1>1, <1>2, <2>1, <2>2 DEF Geocode!Chamadas
  <2>4. /\ chamada' = [chamada EXCEPT ![c][k] = r]
        /\ cache' = cache /\ inFlight' = inFlight /\ falhou' = falhou
    BY <1>3, <2>1, <2>2 DEF Geocode!Ruas
  <2>5. Geocode!ChamadaOK(c, k, w)' /\ w # Geocode!Fora
    BY <1>1, <1>2, <2>1, <2>3, ForaIs, ChamadaStays
  <2>6. Geocode!ChamadaOK(c, k, r)'
    BY <2>3, <2>5 DEF Geocode!ChamadaOK
  <2>7. Geocode!CacheOK' /\ cache' \in [Coords -> Geocode!Enderecos]
    BY <1>1, <2>4 DEF Geocode!CacheOK, Geocode!Justo, Geocode!TypeOK
  <2>8. inFlight' \in [Coords -> Callers \cup {Geocode!Nobody}]
    BY <1>1, <2>4 DEF Geocode!TypeOK
  <2>9. chamada[c][k].estado # "pronta"
    BY <1>2
  <2> QED
    BY <1>2, <2>3, <2>4, <2>6, <2>7, <2>8, <2>9, OneLookupMoves
<1>4. CASE ~(ok /\ k \in Conhecidas)
  <2>1. PICK e : e = Geocode!Coordenadas
    OBVIOUS
  <2>2. e \in Geocode!Enderecos /\ e # Geocode!Nada /\ e.tipo = "coordenadas"
    BY <2>1 DEF Geocode!Coordenadas, Geocode!Nada, Geocode!Enderecos
  <2>3. Geocode!Resolve(c, k, e)
    BY <1>4, <2>1 DEF Geocode!Ruas
  <2>4. Geocode!Justo(k, e)'
    BY <1>2, <1>4 DEF Geocode!Justo
  <2> QED
    BY <1>2, <2>2, <2>3, <2>4, ResolveKeeps
<1> QED
  BY <1>3, <1>4

\* The number of the house is answered, or not.
LEMMA NumeroKeeps ==
  ASSUME Geocode!Inductive, NEW c \in Callers, NEW k \in Coords, NEW n \in BOOLEAN,
         Geocode!Numero(c, k, n)
  PROVE  Geocode!Inductive'
<1>1. /\ Geocode!TypeOK /\ chamada[c][k] \in Geocode!Chamadas
  BY DEF Geocode!Inductive, Geocode!TypeOK
<1>2. PICK cidade : cidade = IF chamada[c][k].cidade = Geocode!SemCidade
                             THEN Geocode!Tabela ELSE chamada[c][k].cidade
  OBVIOUS
<1>3. PICK e : e = Geocode!Rua(cidade, n)
  OBVIOUS
<1>4. cidade \in Cidades \cup {Geocode!SemCidade, Geocode!Tabela}
  BY <1>1, <1>2 DEF Geocode!Chamadas
<1>5. /\ e \in Geocode!Enderecos /\ e # Geocode!Nada /\ e.tipo = "rua"
      /\ e.cidade = cidade
  BY <1>3, <1>4 DEF Geocode!Rua, Geocode!Nada, Geocode!Enderecos
<1>6. /\ chamada[c][k].estado \in {"ruas", "numero"} /\ Geocode!Resolve(c, k, e)
      /\ relatorio' = relatorio /\ falhou' = falhou
  BY <1>2, <1>3 DEF Geocode!Numero
<1>7. Geocode!Justo(k, e)'
  BY <1>5 DEF Geocode!Justo
<1>8. chamada[c][k].cidade \in {e.cidade, Geocode!SemCidade}
  BY <1>2, <1>5
<1>9. falhou \subseteq falhou' /\ falhou' \in SUBSET Coords
  BY <1>1, <1>6 DEF Geocode!TypeOK
<1> QED
  BY <1>5, <1>6, <1>7, <1>8, <1>9, ResolveKeeps

\* A lookup that waited on the call of another receives its address.
LEMMA ReceiveKeeps ==
  ASSUME Geocode!Inductive, NEW c \in Callers, NEW k \in Coords, Geocode!Receive(c, k)
  PROVE  Geocode!Inductive'
<1>1. /\ Geocode!TypeOK /\ Geocode!CacheOK /\ Geocode!ChamadasOK
      /\ chamada[c][k] \in Geocode!Chamadas
      /\ Geocode!ChamadaOK(c, k, chamada[c][k])
  BY DEF Geocode!Inductive, Geocode!TypeOK, Geocode!ChamadasOK
<1>2. PICK w : w = chamada[c][k]
  OBVIOUS
<1>3. /\ w.estado = "espera" /\ w.de \in Callers /\ w.cidade = Geocode!SemCidade
  BY <1>1, <1>2 DEF Geocode!Receive, Geocode!ChamadaOK
<1>4. PICK f : f = chamada[w.de][k]
  OBVIOUS
<1>5. /\ f \in Geocode!Chamadas /\ f.estado = "pronta"
      /\ Geocode!ChamadaOK(w.de, k, f)
  BY <1>1, <1>2, <1>3, <1>4 DEF Geocode!Receive, Geocode!Feita, Geocode!TypeOK,
     Geocode!ChamadasOK
<1>6. PICK e : e = f.endereco
  OBVIOUS
<1>7. e \in Geocode!Enderecos /\ e # Geocode!Nada /\ Geocode!Justo(k, e)
  BY <1>5, <1>6 DEF Geocode!ChamadaOK, Geocode!Chamadas
<1>9. PICK r : r = Given(w, e)
  OBVIOUS
<1>10. /\ r \in Geocode!Chamadas /\ r.estado = "pronta" /\ r.cidade = w.cidade
       /\ r.endereco = e
  BY <1>1, <1>2, <1>7, <1>9, GivenIs
<1>11. /\ chamada' = [chamada EXCEPT ![c][k] = r]
       /\ cache' = cache /\ inFlight' = inFlight /\ falhou' = falhou
       /\ relatorio' = relatorio
  BY <1>2, <1>4, <1>6, <1>9 DEF Geocode!Receive, Given
<1>12. Geocode!ChamadaOK(c, k, w)' /\ Geocode!Justo(k, e)' /\ w # Geocode!Fora
  BY <1>1, <1>2, <1>3, <1>7, <1>11, ForaIs, ChamadaStays, JustoStays
<1>13. Geocode!ChamadaOK(c, k, r)'
  BY <1>3, <1>7, <1>10, <1>12 DEF Geocode!ChamadaOK
<1>14. Geocode!CacheOK' /\ cache' \in [Coords -> Geocode!Enderecos]
  BY <1>1, <1>11 DEF Geocode!CacheOK, Geocode!Justo, Geocode!TypeOK
<1>15. /\ inFlight' \in [Coords -> Callers \cup {Geocode!Nobody}]
       /\ falhou \subseteq falhou' /\ falhou' \in SUBSET Coords
  BY <1>1, <1>11 DEF Geocode!TypeOK
<1>16. chamada[c][k].estado # "pronta"
  BY <1>2, <1>3
<1> QED
  BY <1>10, <1>11, <1>13, <1>14, <1>15, <1>16, OneLookupMoves

-----------------------------------------------------------------------------
\* A step of another part leaves the addresses alone.
LEMMA GeocodeStutters ==
  ASSUME Geocode!Inductive, UNCHANGED geocodeVars PROVE Geocode!Inductive'
BY DEF geocodeVars, Geocode!Inductive, Geocode!TypeOK, Geocode!CacheOK, Geocode!ChamadasOK,
   Geocode!ChamadaOK, Geocode!RelatoriosOK, Geocode!Feita, Geocode!Justo

\* Every step of the reports and lookups keeps the invariant.
LEMMA GeocodeNext == Geocode!Inductive /\ [Geocode!Next]_Geocode!vars => Geocode!Inductive'
<1> SUFFICES ASSUME Geocode!Inductive, [Geocode!Next]_Geocode!vars
             PROVE  Geocode!Inductive'
  OBVIOUS
<1>1. CASE Geocode!Next
  <2>1. CASE \E c \in Callers, ps \in Geocode!Pontos, d \in {6, 7} : Geocode!Start(c, ps, d)
    BY <2>1, StartKeeps
  <2>2. CASE \E c \in Callers : Geocode!Refuse(c) \/ Geocode!Respond(c)
    BY <2>2, EndKeeps
  <2>3. CASE \E c \in Callers : \E i \in DOMAIN relatorio[c].pontos : Geocode!Call(c, i)
    BY <2>3, CallKeeps
  <2>4. CASE \E c \in Callers, k \in Coords, ok \in BOOLEAN : Geocode!Ruas(c, k, ok)
    BY <2>4, RuasKeeps
  <2>5. CASE \E c \in Callers, k \in Coords, n \in BOOLEAN : Geocode!Numero(c, k, n)
    BY <2>5, NumeroKeeps
  <2>6. CASE \E c \in Callers, k \in Coords : Geocode!Receive(c, k)
    BY <2>6, ReceiveKeeps
  <2> QED
    BY <1>1, <2>1, <2>2, <2>3, <2>4, <2>5, <2>6 DEF Geocode!Next
<1>2. CASE UNCHANGED Geocode!vars
  BY <1>2, GeocodeStutters DEF geocodeVars, Geocode!vars
<1> QED
  BY <1>1, <1>2

\* The invariant gives every point done an address of its own.
LEMMA GeocodePromises == Geocode!Inductive => Geocode!AddressIsOfThePoint
<1> SUFFICES ASSUME Geocode!Inductive, NEW c \in Callers, relatorio[c].estado = "respondido",
                    NEW i \in Geocode!Primeiros(relatorio[c].pontos),
                    NEW p, p = relatorio[c].pontos[i],
                    NEW e, e = chamada[c][p.key].endereco
             PROVE  /\ e.tipo = "rua" => p.cidade \in {e.cidade, Geocode!SemCidade}
                    /\ e.tipo = "coordenadas" => p.key \notin Conhecidas \ falhou
                    /\ e # Geocode!Nada
  BY DEF Geocode!AddressIsOfThePoint
<1>1. i \in DOMAIN relatorio[c].pontos
  BY DEF Geocode!Primeiros
<1>2. p.key \in Coords
  BY <1>1, PointIs DEF Geocode!Inductive
<1>3. PICK w : w = chamada[c][p.key]
  OBVIOUS
<1>4. w.estado = "pronta"
  BY <1>1, <1>3 DEF Geocode!Inductive, Geocode!RelatoriosOK, Geocode!Feita
<1>5. Geocode!ChamadaOK(c, p.key, w)
  BY <1>2, <1>3 DEF Geocode!Inductive, Geocode!ChamadasOK
<1>6. PICK j \in Geocode!Primeiros(relatorio[c].pontos) :
        /\ relatorio[c].pontos[j].key = p.key
        /\ relatorio[c].pontos[j].cidade = w.cidade
  BY <1>4, <1>5, ForaIs DEF Geocode!ChamadaOK
<1>7. i = j
  <2>1. i \in Nat /\ j \in Nat /\ i >= 1 /\ j >= 1
    BY <1>1, <1>6, PointIs DEF Geocode!Primeiros, Geocode!Inductive
  <2>2. ~(j \in 1..i - 1) /\ ~(i \in 1..j - 1)
    BY <1>6 DEF Geocode!Primeiros
  <2> QED
    BY <2>1, <2>2
<1> QED
  BY <1>3, <1>4, <1>5, <1>6, <1>7 DEF Geocode!ChamadaOK, Geocode!Justo

\* ReverseGeocode alone: every variable keeps its type, and every point of a report has
\* an address of its own coordinate, whatever lookups are shared, cached or fail.
THEOREM ReportIsSafe ==
  Geocode!Spec => [](Geocode!TypeOK /\ Geocode!AddressIsOfThePoint)
<1>1. Geocode!Inductive => Geocode!TypeOK
  BY DEF Geocode!Inductive
<1> QED
  BY <1>1, GeocodeInit, GeocodeNext, GeocodePromises, PTL DEF Geocode!Spec

\* The instance that TLC runs takes the steps of ReverseGeocode or leaves it alone.
LEMMA StepsOfGeocode == [MCNext]_MCvars => [Geocode!Next]_Geocode!vars
<1> SUFFICES ASSUME [MCNext]_MCvars PROVE [Geocode!Next]_Geocode!vars
  OBVIOUS
<1>1. CASE UNCHANGED geocodeVars
  BY <1>1 DEF geocodeVars, Geocode!vars
<1>2. CASE ~UNCHANGED geocodeVars
  <2>1. ~OfHistory /\ ~UNCHANGED MCvars
    BY <1>2 DEF OfHistory, MCvars, geocodeVars
  <2> QED
    BY <2>1 DEF MCNext, Geocode!Next
<1> QED
  BY <1>1, <1>2

\* AddressIsOfThePoint holds of the reports beside the histories, for any requests,
\* coordinates, cities and failures.
THEOREM AddressIsOfThePointHolds == MCSpec => []AddressIsOfThePoint
<1>1. MCInit => Geocode!Init
  BY DEF MCInit
<1>2. AddressIsOfThePoint <=> Geocode!AddressIsOfThePoint
  BY DEF AddressIsOfThePoint
<1> QED
  BY <1>1, <1>2, GeocodeInit, GeocodeNext, GeocodePromises, StepsOfGeocode, PTL DEF MCSpec
=============================================================================
