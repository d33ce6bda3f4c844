------------------------ MODULE SessionBufferLemmas ------------------------
(***************************************************************************)
(* What the operators of SessionBuffer return, and what a call of          *)
(* load_data, save_data or close_data does to the datastore, for all files *)
(* buffer sizes and modes.  A call may be two calls of the datastore (an   *)
(* error closes the stream); together they are still one step of the       *)
(* write-once store, or none.  Then what these calls do to the contents:   *)
(* what the two translations make of a text, what of an upload is in the   *)
(* file after a save or a close, and that nothing but a save adds to a     *)
(* file.                                                                   *)
(***************************************************************************)
EXTENDS SessionBuffer, DatastoreLemmas, FiniteSetTheorems, SequenceTheorems, TLAPS

----------------------------------------------------------------------------
(***************************************************************************)
(* Max, Min and FlattenSeq.  Both proofs about recursion are induction     *)
(* over data without an induction theorem: what fails, fails for a least   *)
(* number, because the strict subset order on finite sets is well founded. *)
(***************************************************************************)

\* A set of naturals that is not empty has a least element.
LEMMA LeastElement ==
  ASSUME NEW S \in SUBSET Nat, S # {}
  PROVE  \E m \in S : \A x \in S : m <= x
<1> DEFINE T == {0 .. x : x \in S}
           R == StrictSubsetOrdering(Nat)
<1>1. T \subseteq FiniteSubsetsOf(Nat)
  <2> SUFFICES ASSUME NEW x \in S PROVE 0 .. x \in FiniteSubsetsOf(Nat)
    OBVIOUS
  <2>1. x \in Nat /\ IsFiniteSet(0 .. x)
    BY FS_Interval
  <2> QED
    BY <2>1 DEF FiniteSubsetsOf
<1>2. T # {}
  OBVIOUS
<1>3. IsWellFoundedOn(R, FiniteSubsetsOf(Nat))
  BY FS_StrictSubsetOrderingWellFounded
<1>4. PICK t \in T : \A u \in T : <<u, t>> \notin R
  <2> HIDE DEF T, R
  <2> QED
    BY <1>1, <1>2, <1>3, WFMin
<1>5. PICK m \in S : t = 0 .. m
  BY <1>4
<1>6. ASSUME NEW x \in S, x < m PROVE FALSE
  <2>1. 0 .. x \subseteq 0 .. m /\ m \in 0 .. m /\ m \notin 0 .. x
    BY <1>6
  <2>2. <<0 .. x, 0 .. m>> \in R
    BY <2>1 DEF StrictSubsetOrdering
  <2> QED
    BY <1>4, <1>5, <2>2
<1> QED
  BY <1>6

\* What a bounded set of naturals has for a maximum.
LEMMA MaxBounded ==
  ASSUME NEW n \in Nat, NEW S \in SUBSET (0 .. n), S # {}
  PROVE  Max(S) \in S /\ \A x \in S : x <= Max(S)
<1> DEFINE T == {n - x : x \in S}
<1>0. \A x \in S : x \in Nat /\ x <= n
  OBVIOUS
<1>1. PICK m \in T : \A y \in T : m <= y
  <2>1. T \in SUBSET Nat /\ T # {}
    <3>1. \A x \in S : n - x \in Nat
      BY <1>0
    <3> QED
      BY <3>1
  <2> HIDE DEF T
  <2> QED
    BY <2>1, LeastElement
<1>2. PICK z \in S : m = n - z
  BY <1>1
<1>3. \A x \in S : z >= x
  <2> SUFFICES ASSUME NEW x \in S PROVE z >= x
    OBVIOUS
  <2>1. n - z <= n - x
    BY <1>1, <1>2
  <2> QED
    BY <1>0, <2>1
<1> QED
  BY <1>2, <1>3 DEF Max

\* The smaller of two.
LEMMA MinOfTwo ==
  ASSUME NEW a \in Int, NEW b \in Int
  PROVE  Min({a, b}) = IF a <= b THEN a ELSE b
BY DEF Min

----------------------------------------------------------------------------

\* The recursion of FlattenSeq.
Flattens(f, seqs, n) ==
  f = [i \in 1 .. n |-> IF i = 1 THEN seqs[i] ELSE f[i - 1] \o seqs[i]]

\* It has a solution.
LEMMA FlattenExists ==
  ASSUME NEW seqs, NEW n \in Nat
  PROVE  \E f : Flattens(f, seqs, n)
<1> DEFINE Bad == {k \in Nat : ~ \E f : Flattens(f, seqs, k)}
<1> SUFFICES ASSUME Bad # {} PROVE FALSE
  OBVIOUS
<1>1. PICK m \in Bad : \A k \in Bad : m <= k
  <2> HIDE DEF Bad
  <2>1. Bad \in SUBSET Nat
    BY DEF Bad
  <2> QED
    BY <2>1, LeastElement
<1>2. CASE m = 0
  <2> DEFINE e == [i \in 1 .. 0 |-> {}]
  <2>1. Flattens(e, seqs, 0)
    BY DEF Flattens
  <2> QED
    BY <1>1, <1>2, <2>1
<1>3. CASE m # 0
  <2>1. m - 1 \in Nat /\ m - 1 \notin Bad
    BY <1>1, <1>3
  <2>2. PICK f : Flattens(f, seqs, m - 1)
    BY <2>1
  <2> DEFINE Next(i) == IF i = 1 THEN seqs[i] ELSE f[i - 1] \o seqs[i]
             g == [i \in 1 .. m |-> IF i < m THEN f[i] ELSE Next(i)]
  <2>3. f = [i \in 1 .. m - 1 |-> Next(i)]
    BY <2>2 DEF Flattens
  <2>4. \A i \in 1 .. m - 1 : f[i] = Next(i)
    <3> HIDE DEF Next
    <3> QED
      BY <2>3
  <2>5. \A i \in 1 .. m - 1 : g[i] = f[i]
    BY <1>1
  <2>6. \A i \in 1 .. m : g[i] = IF i = 1 THEN seqs[i] ELSE g[i - 1] \o seqs[i]
    <3> SUFFICES ASSUME NEW i \in 1 .. m
                 PROVE  g[i] = IF i = 1 THEN seqs[i] ELSE g[i - 1] \o seqs[i]
      OBVIOUS
    <3>1. g[i] = Next(i)
      <4> HIDE DEF Next
      <4> QED
        BY <1>1, <2>4
    <3>2. i # 1 => g[i - 1] = f[i - 1]
      BY <1>1, <2>5
    <3> HIDE DEF g
    <3> QED
      BY <3>1, <3>2
  <2>7. Flattens(g, seqs, m)
    <3>1. g = [i \in 1 .. m |-> g[i]]
      OBVIOUS
    <3> HIDE DEF g
    <3> QED
      BY <2>6, <3>1 DEF Flattens
  <2> QED
    BY <1>1, <2>7
<1> QED
  BY <1>2, <1>3

\* What FlattenSeq makes of sequences over S is one.
LEMMA FlattenType ==
  ASSUME NEW S, NEW seqs \in Seq(Seq(S))
  PROVE  FlattenSeq(seqs) \in Seq(S)
<1> DEFINE n == Len(seqs)
           f == CHOOSE f : Flattens(f, seqs, n)
<1>1. n \in Nat /\ \A i \in 1 .. n : seqs[i] \in Seq(S)
  BY LenProperties, ElementOfSeq
<1>2. Flattens(f, seqs, n)
  BY <1>1, FlattenExists
<1>3. CASE n = 0
  BY <1>3, EmptySeq DEF FlattenSeq
<1>4. CASE n # 0
  <2>1. FlattenSeq(seqs) = f[n]
    BY <1>4 DEF FlattenSeq, Flattens
  <2> HIDE DEF f
  <2> DEFINE Bad == {i \in 1 .. n : f[i] \notin Seq(S)}
  <2>2. \A i \in 1 .. n : f[i] = IF i = 1 THEN seqs[i] ELSE f[i - 1] \o seqs[i]
    BY <1>2 DEF Flattens
  <2>3. Bad = {}
    <3> SUFFICES ASSUME Bad # {} PROVE FALSE
      OBVIOUS
    <3>1. PICK m \in Bad : \A k \in Bad : m <= k
      <4> HIDE DEF Bad
      <4>1. Bad \in SUBSET Nat
        BY <1>1 DEF Bad
      <4> QED
        BY <4>1, LeastElement
    <3>2. m # 1
      BY <1>1, <2>2, <3>1
    <3>3. f[m - 1] \in Seq(S)
      BY <1>1, <3>1, <3>2
    <3>4. seqs[m] \in Seq(S) /\ f[m] = f[m - 1] \o seqs[m]
      BY <1>1, <2>2, <3>1, <3>2
    <3>5. f[m] \in Seq(S)
      BY <3>3, <3>4, ConcatProperties
    <3> QED
      BY <3>1, <3>5
  <2> QED
    BY <1>1, <1>4, <2>1, <2>3
<1> QED
  BY <1>3, <1>4

\* Solutions for beginnings of each other agree.
LEMMA FlattensSame ==
  ASSUME NEW s, NEW t, NEW m \in Nat, NEW n \in Nat, m <= n,
         \A i \in 1 .. m : s[i] = t[i],
         NEW f, Flattens(f, s, m), NEW g, Flattens(g, t, n)
  PROVE  \A i \in 1 .. m : f[i] = g[i]
<1>1. \A i \in 1 .. m : f[i] = IF i = 1 THEN s[i] ELSE f[i - 1] \o s[i]
  BY DEF Flattens
<1>2. \A i \in 1 .. n : g[i] = IF i = 1 THEN t[i] ELSE g[i - 1] \o t[i]
  BY DEF Flattens
<1> DEFINE Bad == {i \in 1 .. m : f[i] # g[i]}
<1> SUFFICES ASSUME Bad # {} PROVE FALSE
  OBVIOUS
<1>3. PICK k \in Bad : \A i \in Bad : k <= i
  <2> HIDE DEF Bad
  <2>1. Bad \in SUBSET Nat
    BY DEF Bad
  <2> QED
    BY <2>1, LeastElement
<1>4. k \in 1 .. m /\ k \in 1 .. n /\ f[k] # g[k] /\ s[k] = t[k]
  BY <1>3
<1>5. k # 1 => k - 1 \in 1 .. m /\ k - 1 \notin Bad
  BY <1>3, <1>4
<1>6. k # 1 => f[k - 1] = g[k - 1]
  BY <1>5
<1> QED
  BY <1>1, <1>2, <1>4, <1>6

\* FlattenSeq puts one sequence after the other.
LEMMA FlattenAppend ==
  ASSUME NEW S, NEW seqs \in Seq(Seq(S)), NEW u \in Seq(S)
  PROVE  FlattenSeq(Append(seqs, u)) = FlattenSeq(seqs) \o u
<1> DEFINE n == Len(seqs)
           m == n + 1
           all == Append(seqs, u)
           f == CHOOSE f : Flattens(f, seqs, n)
           g == CHOOSE g : Flattens(g, all, m)
<1>1. n \in Nat /\ m \in Nat /\ Len(all) = m /\ all[m] = u
      /\ \A i \in 1 .. n : seqs[i] = all[i]
  BY LenProperties, AppendProperties
<1>2. m \in 1 .. m /\ m - 1 = n /\ n <= m /\ m # 0 /\ (m = 1 <=> n = 0)
  BY <1>1
<1>3. FlattenSeq(seqs) = IF n = 0 THEN <<>> ELSE f[n]
  <2>1. seqs = <<>> <=> n = 0
    BY EmptySeq
  <2> QED
    BY <2>1 DEF FlattenSeq, Flattens
<1> HIDE DEF n
<1>4. FlattenSeq(all) = g[m]
  <2>1. all # <<>> /\ Len(all) = m
    BY <1>1, AppendProperties
  <2> HIDE DEF all
  <2> QED
    BY <2>1 DEF FlattenSeq, Flattens
<1> HIDE DEF all, m
<1>5. Flattens(f, seqs, n)
  BY <1>1, FlattenExists
<1>6. Flattens(g, all, m)
  BY <1>1, FlattenExists
<1> HIDE DEF f, g
<1>7. \A i \in 1 .. m : g[i] = IF i = 1 THEN all[i] ELSE g[i - 1] \o all[i]
  BY <1>6 DEF Flattens
<1>8. g[m] = IF m = 1 THEN u ELSE g[n] \o u
  BY <1>1, <1>2, <1>7
<1>9. CASE n = 0
  <2>1. FlattenSeq(seqs) \o u = u
    BY <1>3, <1>9, ConcatEmptySeq
  <2> QED
    BY <1>2, <1>4, <1>8, <1>9, <2>1 DEF all
<1>10. CASE n # 0
  <2>1. \A i \in 1 .. n : f[i] = g[i]
    BY <1>1, <1>2, <1>5, <1>6, FlattensSame
  <2>2. f[n] = g[n]
    BY <1>1, <1>10, <2>1
  <2> QED
    BY <1>2, <1>3, <1>4, <1>8, <1>10, <2>2 DEF all
<1> QED
  BY <1>9, <1>10

----------------------------------------------------------------------------

----------------------------------------------------------------------------
(***************************************************************************)
(* Buffers and messages                                                    *)
(***************************************************************************)

\* Before counts units of u, n at most.
LEMMA BeforeRange ==
  ASSUME NEW u \in Seq(Unit), NEW stop, NEW n \in Nat
  PROVE  Before(u, stop, n) \in 0 .. n /\ Before(u, stop, n) <= Len(u)
<1> DEFINE m == Min({n, Len(u)})
           S == {i \in 0 .. m : \A j \in 1 .. i : u[j] # stop}
<1>1. Len(u) \in Nat
  BY LenProperties
<1>2. m \in Nat /\ m <= n /\ m <= Len(u)
  BY <1>1, MinOfTwo
<1> HIDE DEF m
<1>3. 0 \in S /\ S \in SUBSET (0 .. m)
  BY <1>2
<1> HIDE DEF S
<1>4. Max(S) \in 0 .. m
  BY <1>2, <1>3, MaxBounded
<1>5. Before(u, stop, n) = Max(S)
  BY DEF Before, S, m
<1> QED
  BY <1>1, <1>2, <1>4, <1>5

\* A part of a sequence.
LEMMA PartType ==
  ASSUME NEW u \in Seq(Unit), NEW a \in Nat \ {0}, NEW b \in Int, b <= Len(u)
  PROVE  /\ SubSeq(u, a, b) \in Seq(Unit)
         /\ Len(SubSeq(u, a, b)) = IF a <= b THEN b - a + 1 ELSE 0
<1>1. Len(u) \in Nat
  BY LenProperties
<1>2. \A i \in a .. b : u[i] \in Unit
  BY <1>1, ElementOfSeq
<1> QED
  BY <1>2, SubSeqProperties

\* One turn of put_session_data before its save keeps what fits.
LEMMA GivenType ==
  ASSUME NEW x, x.sesbuf \in Seq(Unit), Len(x.sesbuf) <= BufSize,
         NEW wire \in Seq(Unit)
  PROVE  /\ Given(x, wire).kept \in Seq(Unit)
         /\ Len(Given(x, wire).kept) <= BufSize - Len(x.sesbuf)
         /\ Given(x, wire).used \in 0 .. Len(wire)
<1> DEFINE room == BufSize - Len(x.sesbuf)
<1>1. Len(wire) \in Nat /\ Len(x.sesbuf) \in Nat /\ BufSize \in Nat
  BY LenProperties, StoreAssumption
<1>2. room \in Nat
  BY <1>1
<1> HIDE DEF room
<1>3. CASE x.tftpmode = "netascii"
  <2> DEFINE n == Before(wire, CR, room)
  <2>1. n \in 0 .. room /\ n <= Len(wire)
    BY <1>2, BeforeRange
  <2>2. Given(x, wire) = [kept |-> Upto(wire, n),
                          used |-> IF n < room /\ n < Len(wire) THEN n + 1 ELSE n]
    BY <1>3 DEF Given, netascii_to_local, room
  <2> HIDE DEF n
  <2>3. Upto(wire, n) \in Seq(Unit) /\ Len(Upto(wire, n)) = n
    BY <1>1, <2>1, UptoType
  <2> QED
    BY <1>1, <1>2, <2>1, <2>2, <2>3 DEF room
<1>4. CASE x.tftpmode # "netascii"
  <2> DEFINE n == Min({Len(wire), room})
  <2>1. n \in 0 .. room /\ n <= Len(wire)
    BY <1>1, <1>2, MinOfTwo
  <2>2. Given(x, wire) = [kept |-> Upto(wire, n), used |-> n]
    BY <1>4 DEF Given, room
  <2> HIDE DEF n
  <2>3. Upto(wire, n) \in Seq(Unit) /\ Len(Upto(wire, n)) = n
    BY <1>1, <2>1, UptoType
  <2> QED
    BY <1>1, <1>2, <2>1, <2>2, <2>3 DEF room
<1> QED
  BY <1>3, <1>4

\* One turn of get_session_data after its load fills the message at most.
LEMMA TakenType ==
  ASSUME NEW x, x.sesbuf \in Seq(Unit), x.fopt \in BOOLEAN, NEW room \in Nat
  PROVE  /\ Taken(x, room).data \in Seq(Unit)
         /\ Len(Taken(x, room).data) <= room
         /\ Taken(x, room).sesbuf \in Seq(Unit)
         /\ Len(Taken(x, room).sesbuf) <= Len(x.sesbuf)
         /\ Taken(x, room).fopt \in BOOLEAN
<1> DEFINE buf == x.sesbuf
<1>1. Len(buf) \in Nat
  BY LenProperties
<1>2. CASE x.tftpmode = "netascii"
  <2> DEFINE n == Before(buf, LF, room)
             found == n < room /\ n < Len(buf)
             left == room - n
             end == IF ~found THEN <<>> ELSE IF left = 1 THEN <<CR>>
                    ELSE IF x.fopt THEN <<LF>> ELSE <<CR, LF>>
             next == IF found /\ left > 1 THEN n + 2 ELSE n + 1
             flag == IF found THEN left = 1 ELSE x.fopt
  <2>1. n \in 0 .. room /\ n <= Len(buf)
    BY BeforeRange
  <2>2. Taken(x, room) = [data |-> Upto(buf, n) \o end,
                          sesbuf |-> SubSeq(buf, next, Len(buf)),
                          fopt |-> flag]
    BY <1>2 DEF Taken, local_to_netascii
  <2> HIDE DEF n, buf
  <2>3. Upto(buf, n) \in Seq(Unit) /\ Len(Upto(buf, n)) = n
    BY <1>1, <2>1, UptoType DEF buf
  <2>4. end \in Seq(Unit) /\ Len(end) <= left
    <3>1. CR \in Unit /\ LF \in Unit /\ <<>> \in Seq(Unit)
      BY BufferAssumption, EmptySeq
    <3>2. /\ <<CR>> \in Seq(Unit) /\ Len(<<CR>>) = 1
          /\ <<LF>> \in Seq(Unit) /\ Len(<<LF>>) = 1
          /\ <<CR, LF>> \in Seq(Unit) /\ Len(<<CR, LF>>) = 2
          /\ Len(<<>>) = 0
      BY <3>1
    <3> QED
      BY <1>1, <2>1, <3>1, <3>2
  <2>5. next \in Nat \ {0}
    BY <2>1
  <2> HIDE DEF end, next
  <2>6. /\ Upto(buf, n) \o end \in Seq(Unit)
        /\ Len(Upto(buf, n) \o end) = n + Len(end)
    BY <2>3, <2>4, UptoConcat
  <2>7. Len(Upto(buf, n) \o end) <= room
    BY <2>1, <2>4, <2>6, LenProperties
  <2>8. SubSeq(buf, next, Len(buf)) \in Seq(Unit)
        /\ Len(SubSeq(buf, next, Len(buf))) <= Len(buf)
    BY <1>1, <2>5, PartType DEF buf
  <2>9. flag \in BOOLEAN
    <3>1. CASE found
      BY <3>1, Zenon
    <3>2. CASE ~found
      BY <3>2, Zenon
    <3> QED
      BY <3>1, <3>2
  <2> HIDE DEF flag
  <2> QED
    BY <2>2, <2>6, <2>7, <2>8, <2>9 DEF buf
<1>3. CASE x.tftpmode # "netascii"
  <2> DEFINE n == Min({Len(buf), room})
  <2>1. n \in 0 .. room /\ n <= Len(buf)
    BY <1>1, MinOfTwo
  <2>2. Taken(x, room) = [data |-> Upto(buf, n), fopt |-> x.fopt,
                          sesbuf |-> SubSeq(buf, n + 1, Len(buf))]
    BY <1>3 DEF Taken
  <2> HIDE DEF n, buf
  <2>3. Upto(buf, n) \in Seq(Unit) /\ Len(Upto(buf, n)) = n
    BY <1>1, <2>1, UptoType DEF buf
  <2>4. SubSeq(buf, n + 1, Len(buf)) \in Seq(Unit)
        /\ Len(SubSeq(buf, n + 1, Len(buf))) <= Len(buf)
    BY <1>1, <2>1, PartType DEF buf
  <2> QED
    BY <2>1, <2>2, <2>3, <2>4 DEF buf
<1> QED
  BY <1>2, <1>3

\* A text over Unit travels as one.
LEMMA WireType ==
  ASSUME NEW mode, NEW text \in Seq(Unit)
  PROVE  Wire(mode, text) \in Seq(Unit)
<1> DEFINE parts == [i \in 1 .. Len(text) |->
                       IF text[i] = LF THEN <<CR, LF>> ELSE <<text[i]>>]
<1>1. Len(text) \in Nat /\ \A i \in 1 .. Len(text) : text[i] \in Unit
  BY LenProperties, ElementOfSeq
<1>2. CR \in Unit /\ LF \in Unit
  BY BufferAssumption
<1>3. \A i \in 1 .. Len(text) :
        (IF text[i] = LF THEN <<CR, LF>> ELSE <<text[i]>>) \in Seq(Unit)
  BY <1>1, <1>2
<1>4. parts \in Seq(Seq(Unit))
  BY <1>1, <1>3, SeqDef
<1> HIDE DEF parts
<1>5. FlattenSeq(parts) \in Seq(Unit)
  BY <1>4, FlattenType
<1> QED
  BY <1>5 DEF Wire, parts

----------------------------------------------------------------------------
(***************************************************************************)
(* Calls of the datastore, one or more in a row, under one descriptor and  *)
(* name                                                                    *)
(***************************************************************************)

\* Only the stream of f and w changed.
Apart(s, t, f, w) ==
  \A id, g : id # w \/ g # f => get_dsession(t, id, g) = get_dsession(s, id, g)

\* From s to t: the store stays sound, opens streams only on free descriptors,
\* changes no other stream than that of f and w, and takes at most one step of
\* the write-once store, for f and w.
Stepped(s, t, free, f, w) ==
  /\ StoreSound(t) /\ Apart(s, t, f, w)
  /\ StreamFds(t) \subseteq StreamFds(s) \cup free
  /\ Still(s, t) \/ Wrote(s, t, f, w)

\* A sequence that begins like one that begins like a third.
LEMMA BeginningTransitive ==
  ASSUME NEW u \in Seq(Unit), NEW v \in Seq(Unit), NEW w \in Seq(Unit),
         Beginning(u, v), Beginning(v, w)
  PROVE  Beginning(u, w)
<1>1. Len(u) \in Nat /\ Len(v) \in Nat /\ Len(w) \in Nat
  BY LenProperties
<1>2. Len(u) <= Len(v) /\ Len(v) <= Len(w)
  BY DEF Beginning
<1>3. u = SubSeq(v, 1, Len(u)) /\ v = SubSeq(w, 1, Len(v))
  BY SubSeqFull DEF Beginning
<1>4. CASE Len(u) = 0
  BY <1>1, <1>2, <1>4, SubSeqEmpty DEF Beginning
<1>5. CASE Len(u) # 0
  <2>1. /\ 1 \in 1 .. Len(w) /\ Len(v) \in 1 .. Len(w)
        /\ 1 \in 1 .. Len(v) - 1 + 1 /\ Len(u) \in 1 .. Len(v) - 1 + 1
    BY <1>1, <1>2, <1>5
  <2>2. SubSeq(SubSeq(w, 1, Len(v)), 1, Len(u)) = SubSeq(w, 1 + 1 - 1, 1 + Len(u) - 1)
    BY <2>1, SubSeqOfSubSeq
  <2>3. 1 + 1 - 1 = 1 /\ 1 + Len(u) - 1 = Len(u)
    BY <1>1
  <2>4. u = SubSeq(w, 1, Len(u))
    BY <1>3, <2>2, <2>3
  <2> QED
    BY <1>1, <1>2, <2>4, SubSeqFull DEF Beginning
<1> QED
  BY <1>4, <1>5

\* Two writes of one writer to one file are one.
LEMMA WroteTwice ==
  ASSUME NEW s, NEW t, NEW u, StoreSound(s), StoreSound(t), StoreSound(u),
         NEW f, NEW w, Wrote(s, t, f, w), Wrote(t, u, f, w)
  PROVE  Wrote(s, u, f, w)
<1>1. DOMAIN u.files = DOMAIN s.files \cup {f}
  BY DEF Wrote
<1>2. ASSUME NEW g \in DOMAIN s.files
      PROVE  IF g = f THEN Beginning(s.files[f], u.files[f])
             ELSE u.files[g] = s.files[g]
  <2>1. g \in DOMAIN t.files /\ g \in DOMAIN u.files
    BY DEF Wrote
  <2>2. s.files[g] \in Seq(Unit) /\ t.files[g] \in Seq(Unit) /\ u.files[g] \in Seq(Unit)
    BY <2>1 DEF StoreSound, IsStore, IsFiles
  <2>3. CASE g = f
    BY <2>1, <2>2, <2>3, BeginningTransitive DEF Wrote
  <2>4. CASE g # f
    BY <2>1, <2>4 DEF Wrote
  <2> QED
    BY <2>3, <2>4
<1>3. \/ Writers(u) = Writers(s) \cup {<<f, w>>}
      \/ Writers(u) = Writers(s) \ {<<f, w>>}
  <2> DEFINE p == <<f, w>>
  <2>1. Writers(t) = Writers(s) \cup {p} \/ Writers(t) = Writers(s) \ {p}
    BY DEF Wrote
  <2>2. Writers(u) = Writers(t) \cup {p} \/ Writers(u) = Writers(t) \ {p}
    BY DEF Wrote
  <2> HIDE DEF p
  <2>3. Writers(u) = Writers(s) \cup {p} \/ Writers(u) = Writers(s) \ {p}
    BY <2>1, <2>2
  <2> QED
    BY <2>3 DEF p
<1> QED
  BY <1>1, <1>2, <1>3 DEF Wrote

\* So two calls in a row are one step, or none.
LEMMA SteppedTwice ==
  ASSUME NEW s, NEW t, NEW u, StoreSound(s), NEW free, NEW f, NEW w,
         Stepped(s, t, free, f, w), Stepped(t, u, free, f, w)
  PROVE  Stepped(s, u, free, f, w)
<1>1. StoreSound(t) /\ StoreSound(u)
  BY DEF Stepped
<1>2. StreamFds(u) \subseteq StreamFds(s) \cup free /\ Apart(s, u, f, w)
  BY DEF Stepped, Apart
<1>3. CASE Still(s, t)
  BY <1>1, <1>2, <1>3 DEF Stepped, Still, Wrote
<1>4. CASE Still(t, u)
  BY <1>1, <1>2, <1>4 DEF Stepped, Still, Wrote
<1>5. CASE Wrote(s, t, f, w) /\ Wrote(t, u, f, w)
  BY <1>1, <1>2, <1>5, WroteTwice DEF Stepped
<1> QED
  BY <1>3, <1>4, <1>5 DEF Stepped

\* No call at all.
LEMMA NotStepped ==
  ASSUME NEW s, StoreSound(s), NEW free, NEW f, NEW w
  PROVE  Stepped(s, s, free, f, w)
BY DEF Stepped, Still, Apart

\* A call that works on the stream of f and w leaves the others.
LEMMA WorkedApart ==
  ASSUME NEW s, NEW d, NEW t, Worked(s, t, d)
  PROVE  Apart(s, t, d.filename, d.clid)
BY DEF Worked, Same, Apart, get_dsession

\* The descriptors of the streams a call leaves: none is new but the one of
\* the stream it worked on.
LEMMA WorkedFds ==
  ASSUME NEW s, NEW d, NEW t, Worked(s, t, d)
  PROVE  StreamFds(t) \subseteq StreamFds(s) \cup {d.fd}
BY DEF Worked, Same, StreamFds

\* A stream is opened on a free descriptor.
LEMMA CreateFd ==
  ASSUME NEW id, NEW f, NEW m, NEW free, NEW d \in create_dsession(id, f, m, free)
  PROVE  d.fd \in free
BY DEF create_dsession, Lowest

\* iwds_read
LEMMA ReadSteps ==
  ASSUME NEW s, StoreSound(s), NEW id \in Int, NEW f \in File,
         NEW free \in SUBSET Descriptor, NEW r \in iwds_read(s, id, f, free)
  PROVE  Stepped(s, r.ds, free, f, id)
<1>1. StoreSound(r.ds) /\ (Still(s, r.ds) \/ Wrote(s, r.ds, f, id))
  BY ReadKeeps, ReadRefines
<1>2. StreamFds(r.ds) \subseteq StreamFds(s) \cup free /\ Apart(s, r.ds, f, id)
  <2>1. CASE r.ds = s
    BY <2>1 DEF Apart
  <2>2. CASE \E d \in get_dsession(s, id, f) : r \in Fread(s, d)
    <3>1. PICK d \in get_dsession(s, id, f) : r \in Fread(s, d)
      BY <2>2
    <3>2. d \in DSession /\ d.fd \in StreamFds(s) /\ d.clid = id /\ d.filename = f
      BY DEF get_dsession, StoreSound, IsStore, StreamFds
    <3> QED
      BY <3>1, <3>2, FreadWorks, WorkedFds, WorkedApart
  <2>3. CASE /\ f \in DOMAIN s.files
             /\ \E d \in create_dsession(id, f, "r", free) : r \in Fread(s, d)
    <3>1. PICK d \in create_dsession(id, f, "r", free) : r \in Fread(s, d)
      BY <2>3
    <3>2. d \in DSession /\ d.fd \in free /\ d.clid = id /\ d.filename = f
      BY CreateType, CreateFd
    <3> QED
      BY <3>1, <3>2, FreadWorks, WorkedFds, WorkedApart
  <2>4. \/ r.ds = s
        \/ \E d \in get_dsession(s, id, f) : r \in Fread(s, d)
        \/ /\ f \in DOMAIN s.files
           /\ \E d \in create_dsession(id, f, "r", free) : r \in Fread(s, d)
    BY DEF iwds_read, is_dsfile
  <2> QED
    BY <2>1, <2>2, <2>3, <2>4
<1> QED
  BY <1>1, <1>2 DEF Stepped

\* iwds_write
LEMMA WriteSteps ==
  ASSUME NEW s, StoreSound(s), NEW id \in Int, NEW f \in File,
         NEW data \in Seq(Unit), NEW free \in SUBSET Descriptor,
         NEW r \in iwds_write(s, id, f, data, free)
  PROVE  Stepped(s, r.ds, free, f, id)
<1>1. StoreSound(r.ds) /\ (Still(s, r.ds) \/ Wrote(s, r.ds, f, id))
  BY WriteKeeps, WriteRefines
<1> DEFINE opened == Created(s, f)
<1>2. StreamFds(r.ds) \subseteq StreamFds(s) \cup free /\ Apart(s, r.ds, f, id)
  <2>1. CASE r.ds = s
    BY <2>1 DEF Apart
  <2>2. CASE \E d \in get_dsession(s, id, f) : Took(s, d, data, r)
    <3>1. PICK d \in get_dsession(s, id, f) : Took(s, d, data, r)
      BY <2>2
    <3>2. d \in DSession /\ d.fd \in StreamFds(s) /\ d.clid = id /\ d.filename = f
      BY DEF get_dsession, StoreSound, IsStore, StreamFds
    <3> QED
      BY <3>1, <3>2, FwriteWorks, DelWorks, WorkedFds, WorkedApart DEF Took
  <2>3. CASE \E d \in create_dsession(id, f, "w", free) : Took(opened, d, data, r)
    <3>1. PICK d \in create_dsession(id, f, "w", free) : Took(opened, d, data, r)
      BY <2>3
    <3>2. d \in DSession /\ d.fd \in free /\ d.clid = id /\ d.filename = f
      BY CreateType, CreateFd
    <3>3. StreamFds(opened) = StreamFds(s) /\ opened.dhead = s.dhead
      BY DEF Created, StreamFds
    <3> HIDE DEF opened
    <3>4. StreamFds(r.ds) \subseteq StreamFds(s) \cup free /\ Apart(opened, r.ds, f, id)
      BY <3>1, <3>2, <3>3, FwriteWorks, DelWorks, WorkedFds, WorkedApart DEF Took
    <3>5. \A i, g : get_dsession(opened, i, g) = get_dsession(s, i, g)
      BY <3>3 DEF get_dsession
    <3>6. Apart(s, r.ds, f, id)
      BY <3>4, <3>5, Zenon DEF Apart
    <3> QED
      BY <3>4, <3>6
  <2>4. \/ r.ds = s
        \/ \E d \in get_dsession(s, id, f) : Took(s, d, data, r)
        \/ \E d \in create_dsession(id, f, "w", free) : Took(opened, d, data, r)
    BY WriteOutcome DEF Took
  <2> QED
    BY <2>1, <2>2, <2>3, <2>4
<1> QED
  BY <1>1, <1>2 DEF Stepped

\* close_data
LEMMA CloseSteps ==
  ASSUME NEW s, StoreSound(s), NEW x, NEW free, NEW t \in close_data(s, x)
  PROVE  Stepped(s, t, free, x.filename, x.clsock)
<1> DEFINE f == x.filename
           id == x.clsock
<1>1. t \in iwds_close(s, id, f)
  BY DEF close_data
<1>2. StoreSound(t) /\ (Still(s, t) \/ Wrote(s, t, f, id))
  BY <1>1, CloseKeeps, CloseRefines
<1>3. StreamFds(t) \subseteq StreamFds(s)
  BY <1>1 DEF iwds_close, get_dsession, del_dsession, StreamFds
<1>4. Apart(s, t, f, id)
  BY <1>1 DEF iwds_close, get_dsession, del_dsession, Apart
<1> QED
  BY <1>2, <1>3, <1>4 DEF Stepped

\* One turn of the loop of iwds_exit ends the writing of its stream, by the
\* one who opened it.
LEMMA ExitSteps ==
  ASSUME NEW s, StoreSound(s), NEW t \in iwds_exit_step(s), NEW free
  PROVE  \E d \in s.dhead :
           /\ Stepped(s, t, free, d.filename, d.clid)
           /\ Still(s, t) \/ <<d.filename, d.clid>> \in Writers(s)
<1>1. PICK d \in s.dhead : t \in del_dsession(s, d)
  BY DEF iwds_exit_step
<1>2. Fits(s, d)
  BY FitsOld
<1>3. /\ StoreSound(t)
      /\ Grows(s, t, IF d.mode = "w" THEN {d.filename} ELSE {})
      /\ DOMAIN t.files = DOMAIN s.files
  BY <1>1, <1>2, DelKeeps
<1>4. Still(s, t) \/ Wrote(s, t, d.filename, d.clid)
  BY <1>1, <1>2, <1>3, DelWorks, WorkedMoves, WorkedOld
<1>5. StreamFds(t) \subseteq StreamFds(s)
  BY <1>1 DEF del_dsession, StreamFds
<1>6. Still(s, t) \/ <<d.filename, d.clid>> \in Writers(s)
  BY <1>3, <1>4 DEF Wrote
<1>7. Apart(s, t, d.filename, d.clid)
  BY <1>1 DEF del_dsession, Apart, get_dsession
<1> QED
  BY <1>3, <1>4, <1>5, <1>6, <1>7 DEF Stepped

\* What fread returns: a buffer's worth at most.
LEMMA FreadData ==
  ASSUME NEW s, StoreSound(s), NEW d, Fits(s, d), NEW r \in Fread(s, d)
  PROVE  r.data \in Seq(Unit) /\ Len(r.data) <= BufSize
<1> DEFINE text == s.files[d.filename]
           end == IF d.eof THEN d.pos
                  ELSE IF d.pos + BufSize <= Len(text) THEN d.pos + BufSize
                  ELSE Len(text)
           data == SubSeq(text, d.pos + 1, end)
           u == Replaced(s, d, [d EXCEPT !.pos = end, !.eof = end < d.pos + BufSize])
           A == {[ds |-> u, data |-> data, derr |-> "OK"] :
                   x \in IF d.mode = "r" THEN {0} ELSE {}}
           B == {[ds |-> v, data |-> <<>>, derr |-> "READFAIL"] :
                   v \in IF d.mode = "w" \/ IoFaults THEN del_dsession(s, d) ELSE {}}
<1>1. r \in A \/ r \in B
  BY Zenon DEF Fread
<1>2. /\ text \in Seq(Unit) /\ d.pos \in Nat /\ BufSize \in Nat
      /\ d.mode = "r" => d.pos <= Len(text)
  BY StoreAssumption DEF StoreSound, IsStore, IsFiles, Fits, DSession
<1>3. Len(text) \in Nat
  BY <1>2, LenProperties
<1> HIDE DEF u, text
<1>4. CASE r \in A
  <2>1. d.mode = "r" /\ r.data = data
    BY <1>4
  <2>2. end \in Nat /\ end <= Len(text) /\ end <= d.pos + BufSize
    BY <1>2, <1>3, <2>1
  <2> HIDE DEF end
  <2>3. /\ data \in Seq(Unit)
        /\ Len(data) = IF d.pos + 1 <= end THEN end - (d.pos + 1) + 1 ELSE 0
    BY <1>2, <2>2, PartType
  <2> HIDE DEF data
  <2> QED
    BY <1>2, <2>1, <2>2, <2>3
<1>5. CASE r \in B
  <2>1. r.data = <<>>
    BY <1>5
  <2> QED
    BY <1>2, <2>1, EmptySeq
<1> QED
  BY <1>1, <1>4, <1>5

\* What iwds_read returns.
LEMMA ReadData ==
  ASSUME NEW s, StoreSound(s), NEW id \in Int, NEW f \in File,
         NEW free \in SUBSET Descriptor, NEW r \in iwds_read(s, id, f, free)
  PROVE  r.data \in Seq(Unit) /\ Len(r.data) <= BufSize
<1>1. CASE r.data = <<>>
  BY <1>1, EmptySeq, StoreAssumption
<1>2. CASE \E d \in get_dsession(s, id, f) : r \in Fread(s, d)
  BY <1>2, FitsOld, FreadData DEF get_dsession
<1>3. CASE /\ f \in DOMAIN s.files
           /\ get_dsession(s, id, f) = {}
           /\ \E d \in create_dsession(id, f, "r", free) : r \in Fread(s, d)
  BY <1>3, FitsNewReader, FreadData
<1>4. \/ r.data = <<>>
      \/ \E d \in get_dsession(s, id, f) : r \in Fread(s, d)
      \/ /\ f \in DOMAIN s.files
         /\ get_dsession(s, id, f) = {}
         /\ \E d \in create_dsession(id, f, "r", free) : r \in Fread(s, d)
  BY DEF iwds_read, is_dsfile
<1> QED
  BY <1>1, <1>2, <1>3, <1>4

\* load_data: one step of the store, and at most a buffer's worth loaded.
LEMMA LoadSteps ==
  ASSUME NEW s, StoreSound(s), NEW x, x.clsock \in Int, x.filename \in File,
         NEW free \in SUBSET Descriptor, NEW r \in load_data(s, x, free)
  PROVE  /\ Stepped(s, r.ds, free, x.filename, x.clsock)
         /\ \E u \in Seq(Unit) : Len(u) <= BufSize /\ r.ses = [x EXCEPT !.sesbuf = u]
<1> DEFINE f == x.filename
           id == x.clsock
<1>1. PICK q \in iwds_read(s, id, f, free) :
        r \in IF q.derr = "OK"
              THEN {[ds |-> q.ds, ses |-> [x EXCEPT !.sesbuf = q.data], ok |-> TRUE]}
              ELSE {[ds |-> t, ses |-> [x EXCEPT !.sesbuf = <<>>], ok |-> FALSE] :
                      t \in close_data(q.ds, x)}
  BY DEF load_data
<1>2. Stepped(s, q.ds, free, f, id) /\ q.data \in Seq(Unit) /\ Len(q.data) <= BufSize
  BY ReadSteps, ReadData
<1>3. <<>> \in Seq(Unit) /\ Len(<<>>) <= BufSize
  BY EmptySeq, StoreAssumption
<1>4. CASE q.derr = "OK"
  BY <1>1, <1>2, <1>4
<1>5. CASE q.derr # "OK"
  <2>1. PICK t \in close_data(q.ds, x) :
          r = [ds |-> t, ses |-> [x EXCEPT !.sesbuf = <<>>], ok |-> FALSE]
    BY <1>1, <1>5
  <2>2. Stepped(q.ds, t, free, f, id)
    BY <1>2, CloseSteps DEF Stepped
  <2>3. Stepped(s, t, free, f, id)
    BY <1>2, <2>2, SteppedTwice
  <2> QED
    BY <1>3, <2>1, <2>3
<1> QED
  BY <1>4, <1>5

\* save_data: one step of the store; the buffer is emptied or kept.
LEMMA SaveSteps ==
  ASSUME NEW s, StoreSound(s), NEW x, x.clsock \in Int, x.filename \in File,
         x.sesbuf \in Seq(Unit),
         NEW free \in SUBSET Descriptor, NEW r \in save_data(s, x, free)
  PROVE  /\ Stepped(s, r.ds, free, x.filename, x.clsock)
         /\ r.ses = x \/ r.ses = [x EXCEPT !.sesbuf = <<>>]
<1> DEFINE f == x.filename
           id == x.clsock
<1>1. PICK q \in iwds_write(s, id, f, x.sesbuf, free) :
        r \in IF q.derr = "OK" /\ q.len = Len(x.sesbuf)
              THEN {[ds |-> q.ds, ses |-> [x EXCEPT !.sesbuf = <<>>], ok |-> TRUE]}
              ELSE {[ds |-> t, ses |-> x, ok |-> FALSE] : t \in close_data(q.ds, x)}
  BY DEF save_data
<1>2. Stepped(s, q.ds, free, f, id)
  BY WriteSteps
<1>3. CASE q.derr = "OK" /\ q.len = Len(x.sesbuf)
  BY <1>1, <1>2, <1>3
<1>4. CASE ~(q.derr = "OK" /\ q.len = Len(x.sesbuf))
  <2>1. PICK t \in close_data(q.ds, x) : r = [ds |-> t, ses |-> x, ok |-> FALSE]
    BY <1>1, <1>4
  <2>2. Stepped(q.ds, t, free, f, id)
    BY <1>2, CloseSteps DEF Stepped
  <2>3. Stepped(s, t, free, f, id)
    BY <1>2, <2>2, SteppedTwice
  <2> QED
    BY <2>1, <2>3
<1> QED
  BY <1>3, <1>4

----------------------------------------------------------------------------
(***************************************************************************)
(* Where a download is                                                     *)
(***************************************************************************)

\* What of a text is in messages once q of its units are taken, and the CR of
\* the line end that follows if a block ended there.
Lead(mode, text, q, fopt) ==
  Wire(mode, Upto(text, q)) \o (IF fopt THEN <<CR>> ELSE <<>>)

\* The buffer of x holds what comes after the first q units of the text, a
\* line end first if its CR is gone.
Placed(text, x, q) ==
  /\ q + Len(x.sesbuf) <= Len(text)
  /\ x.sesbuf = SubSeq(text, q + 1, q + Len(x.sesbuf))
  /\ x.fopt => x.tftpmode = "netascii" /\ x.sesbuf # <<>> /\ x.sesbuf[1] = LF

\* A unit as it travels.
Piece(mode, u) == IF mode = "netascii" /\ u = LF THEN <<CR, LF>> ELSE <<u>>

\* What Piece is.
LEMMA PieceType ==
  ASSUME NEW mode, NEW u \in Unit
  PROVE  Piece(mode, u) \in Seq(Unit) /\ Len(Piece(mode, u)) \in {1, 2}
<1>1. CR \in Unit /\ LF \in Unit
  BY BufferAssumption
<1>2. <<u>> \in Seq(Unit) /\ Len(<<u>>) = 1
  OBVIOUS
<1>3. <<CR, LF>> \in Seq(Unit) /\ Len(<<CR, LF>>) = 2
  BY <1>1
<1>4. Piece(mode, u) = <<CR, LF>> \/ Piece(mode, u) = <<u>>
  BY Zenon DEF Piece
<1> QED
  BY <1>2, <1>3, <1>4

\* A beginning, unit by unit.
LEMMA UptoElements ==
  ASSUME NEW u \in Seq(Unit), NEW n \in 0 .. Len(u)
  PROVE  \A i \in 1 .. n : Upto(u, n)[i] = u[i]
<1>1. Len(u) \in Nat /\ n \in Int
  BY LenProperties
<1>2. \A i \in 1 .. n : u[i] \in Unit
  BY <1>1, ElementOfSeq
<1> QED
  BY <1>1, <1>2, SubSeqProperties DEF Upto

\* The wire form grows with its text, unit by unit.
LEMMA WireNext ==
  ASSUME NEW mode, NEW text \in Seq(Unit), NEW q \in Nat, q < Len(text)
  PROVE  Wire(mode, Upto(text, q + 1)) =
           Wire(mode, Upto(text, q)) \o Piece(mode, text[q + 1])
<1> DEFINE s == Upto(text, q)
           r == q + 1
           t == Upto(text, r)
           u == text[r]
<1>1. Len(text) \in Nat /\ q \in 0 .. Len(text) /\ r \in 0 .. Len(text)
      /\ r \in 1 .. Len(text) /\ r \in 1 .. r
  BY LenProperties
<1>2. s \in Seq(Unit) /\ Len(s) = q /\ \A i \in 1 .. q : s[i] = text[i]
  BY <1>1, UptoType, UptoElements
<1>3. t \in Seq(Unit) /\ Len(t) = r /\ \A i \in 1 .. r : t[i] = text[i]
  BY <1>1, UptoType, UptoElements
<1>4. u \in Unit /\ u = t[r]
  BY <1>1, <1>3, ElementOfSeq
<1>5. \A i \in 1 .. q : i \in 1 .. r /\ i # r
  BY <1>1
<1>6. \A i \in 1 .. r : i \in 1 .. q \/ i = r
  BY <1>1
<1>7. r = q + 1
  OBVIOUS
<1> HIDE DEF s, t, u, r
<1>8. CASE mode = "netascii"
  <2> DEFINE P(v) == IF v = LF THEN <<CR, LF>> ELSE <<v>>
             a == [i \in 1 .. Len(s) |-> P(s[i])]
             b == [i \in 1 .. Len(t) |-> P(t[i])]
  <2>1. \A v \in Unit : P(v) \in Seq(Unit) /\ P(v) = Piece(mode, v)
    BY <1>8, PieceType DEF Piece
  <2>2. /\ \A i \in 1 .. q : s[i] \in Unit
        /\ \A i \in 1 .. r : t[i] \in Unit
    BY <1>2, <1>3, ElementOfSeq
  <2> HIDE DEF P
  <2>3. a \in Seq(Seq(Unit)) /\ Len(a) = q /\ \A i \in 1 .. q : a[i] = P(s[i])
    BY <1>1, <1>2, <2>1, <2>2, SeqDef
  <2>4. b \in Seq(Seq(Unit)) /\ Len(b) = r /\ \A i \in 1 .. r : b[i] = P(t[i])
    BY <1>1, <1>3, <2>1, <2>2, SeqDef
  <2>5. Wire(mode, s) = FlattenSeq(a) /\ Wire(mode, t) = FlattenSeq(b)
    BY <1>8 DEF Wire, P
  <2> HIDE DEF a, b
  <2>6. b = Append(a, P(u))
    <3> DEFINE w == P(u)
               z == Append(a, w)
    <3>0. w \in Seq(Unit)
      BY <1>4, <2>1
    <3> HIDE DEF w
    <3>1. /\ z \in Seq(Seq(Unit)) /\ Len(z) = Len(a) + 1
          /\ \A i \in 1 .. Len(a) : z[i] = a[i]
          /\ z[Len(a) + 1] = w
      BY <2>3, <3>0, AppendProperties
    <3> HIDE DEF z
    <3>2. Len(z) = r /\ z[r] = w /\ \A i \in 1 .. q : z[i] = a[i]
      BY <1>7, <2>3, <3>1
    <3>3. \A i \in 1 .. r : b[i] = z[i]
      <4> SUFFICES ASSUME NEW i \in 1 .. r PROVE b[i] = z[i]
        OBVIOUS
      <4>1. b[i] = P(t[i])
        BY <2>4
      <4>2. CASE i \in 1 .. q
        <5>1. t[i] = s[i]
          BY <1>2, <1>3, <4>2
        <5>2. z[i] = P(s[i])
          BY <2>3, <3>2, <4>2
        <5> QED
          BY <4>1, <5>1, <5>2
      <4>3. CASE i = r
        BY <1>4, <3>2, <4>1, <4>3 DEF w
      <4> QED
        BY <1>6, <4>2, <4>3
    <3>4. b = z
      BY <2>4, <3>1, <3>2, <3>3, SeqEqual
    <3> QED
      BY <3>4 DEF z, w
  <2>7. FlattenSeq(b) = FlattenSeq(a) \o P(u)
    BY <1>4, <2>1, <2>3, <2>6, FlattenAppend
  <2> QED
    BY <1>4, <2>1, <2>5, <2>7 DEF s, t, u, r
<1>9. CASE mode # "netascii"
  <2>1. t = s \o <<u>>
    <3>1. <<u>> \in Seq(Unit) /\ Len(<<u>>) = 1 /\ <<u>>[1] = u
      BY <1>4
    <3>2. /\ s \o <<u>> \in Seq(Unit) /\ Len(s \o <<u>>) = q + 1
          /\ \A i \in 1 .. q + 1 : (s \o <<u>>)[i] =
               IF i <= q THEN s[i] ELSE <<u>>[i - q]
      <4> DEFINE z == <<u>>
      <4>1. z \in Seq(Unit) /\ Len(z) = 1
        BY <3>1
      <4> HIDE DEF z
      <4>2. /\ s \o z \in Seq(Unit)
            /\ Len(s \o z) = Len(s) + Len(z)
            /\ \A i \in 1 .. Len(s) + Len(z) : (s \o z)[i] =
                 IF i <= Len(s) THEN s[i] ELSE z[i - Len(s)]
        BY <1>2, <4>1, ConcatProperties
      <4> QED
        BY <1>2, <4>1, <4>2 DEF z
    <3>3. \A i \in 1 .. r : t[i] = (s \o <<u>>)[i]
      <4> SUFFICES ASSUME NEW i \in 1 .. r PROVE t[i] = (s \o <<u>>)[i]
        OBVIOUS
      <4>1. CASE i \in 1 .. q
        <5>1. i <= q /\ i \in 1 .. q + 1
          BY <1>7, <4>1
        <5> QED
          BY <1>2, <1>3, <3>2, <4>1, <5>1
      <4>2. CASE i = r
        <5>1. ~(r <= q) /\ r - q = 1 /\ r \in 1 .. q + 1
          BY <1>1, <1>7
        <5> QED
          BY <1>4, <3>1, <3>2, <4>2, <5>1
      <4> QED
        BY <1>6, <4>1, <4>2
    <3> QED
      BY <1>3, <1>7, <3>2, <3>3, SeqEqual
  <2>2. Wire(mode, s) = s /\ Wire(mode, t) = t /\ Piece(mode, u) = <<u>>
    BY <1>9 DEF Wire, Piece
  <2> QED
    BY <2>1, <2>2 DEF s, t, u, r
<1> QED
  BY <1>8, <1>9

\* What a sequence begins with.
LEMMA BeginningConcat ==
  ASSUME NEW u \in Seq(Unit), NEW v \in Seq(Unit)
  PROVE  Beginning(u, u \o v)
<1>1. /\ Len(u \o v) = Len(u) + Len(v) /\ Upto(u \o v, Len(u)) = u
      /\ Len(u) \in Nat /\ Len(v) \in Nat
  BY UptoConcat, LenProperties
<1>2. SubSeq(u, 1, Len(u)) = u
  BY SubSeqFull
<1>3. Len(u) <= Len(u \o v)
  BY <1>1
<1> QED
  BY <1>1, <1>2, <1>3 DEF Beginning, Upto

\* A text has the wire forms of its beginnings for beginnings of its own.
LEMMA WireBeginning ==
  ASSUME NEW mode, NEW text \in Seq(Unit), NEW n \in Nat, n <= Len(text),
         NEW q \in Nat, q <= n
  PROVE  Beginning(Wire(mode, Upto(text, q)), Wire(mode, Upto(text, n)))
<1> DEFINE W(k) == Wire(mode, Upto(text, k))
           Bad == {k \in q .. n : ~ Beginning(W(q), W(k))}
<1>0. Len(text) \in Nat
  BY LenProperties
<1>1. \A k \in 0 .. n : W(k) \in Seq(Unit)
  BY <1>0, UptoType, WireType
<1>2. \A k \in Nat : k < n => k + 1 \in 0 .. n /\ Beginning(W(k), W(k + 1))
  <2> SUFFICES ASSUME NEW k \in Nat, k < n
               PROVE  k + 1 \in 0 .. n /\ Beginning(W(k), W(k + 1))
    OBVIOUS
  <2>1. k + 1 \in 0 .. n /\ k \in 0 .. n /\ k < Len(text)
        /\ k + 1 \in 1 .. Len(text)
    BY <1>0
  <2>2. W(k + 1) = W(k) \o Piece(mode, text[k + 1])
    BY <2>1, WireNext
  <2>3. Piece(mode, text[k + 1]) \in Seq(Unit)
    BY <2>1, ElementOfSeq, PieceType
  <2>4. W(k) \in Seq(Unit)
    BY <1>1, <2>1
  <2> HIDE DEF W
  <2> QED
    BY <2>1, <2>2, <2>3, <2>4, BeginningConcat
<1> HIDE DEF W
<1>3. Bad = {}
  <2> SUFFICES ASSUME Bad # {} PROVE FALSE
    OBVIOUS
  <2>1. PICK k \in Bad : \A i \in Bad : k <= i
    <3> HIDE DEF Bad
    <3>1. Bad \in SUBSET Nat
      BY DEF Bad
    <3> QED
      BY <3>1, LeastElement
  <2>2. k \in Nat /\ q <= k /\ k <= n /\ ~ Beginning(W(q), W(k))
    BY <2>1
  <2>3. Beginning(W(q), W(q))
    BY DEF Beginning
  <2>4. k # q /\ k - 1 \in Nat /\ k - 1 < n /\ k - 1 + 1 = k /\ k - 1 \in q .. n
    BY <2>2, <2>3
  <2>5. k - 1 \notin Bad
    BY <2>1, <2>4
  <2>6. Beginning(W(q), W(k - 1))
    BY <2>4, <2>5
  <2>7. Beginning(W(k - 1), W(k))
    BY <1>2, <2>4
  <2>8. q \in 0 .. n /\ k - 1 \in 0 .. n /\ k \in 0 .. n
    BY <2>2, <2>4
  <2>9. W(q) \in Seq(Unit) /\ W(k - 1) \in Seq(Unit) /\ W(k) \in Seq(Unit)
    BY <1>1, <2>8
  <2>10. Beginning(W(q), W(k))
    BY <2>6, <2>7, <2>9, BeginningTransitive
  <2> QED
    BY <2>2, <2>10
<1>4. n \in q .. n
  OBVIOUS
<1> QED
  BY <1>3, <1>4 DEF W

\* None of the n units after the first q needs a translation.
Even(mode, text, q, n) ==
  /\ text \in Seq(Unit) /\ q \in Nat /\ n \in Nat /\ q + n <= Len(text)
  /\ \A i \in q + 1 .. q + n : mode # "netascii" \/ text[i] # LF

\* They travel as they are.
EvenOnWire(mode, text, q, n) ==
  Wire(mode, Upto(text, q + n)) =
    Wire(mode, Upto(text, q)) \o SubSeq(text, q + 1, q + n)

\* Units that need no translation are on the wire what they are in the text.
LEMMA WireRun ==
  ASSUME NEW mode, NEW text, NEW q, NEW n, Even(mode, text, q, n)
  PROVE  EvenOnWire(mode, text, q, n)
<1> SUFFICES ASSUME text \in Seq(Unit), q \in Nat, n \in Nat, q + n <= Len(text),
                    \A i \in q + 1 .. q + n : mode # "netascii" \/ text[i] # LF
             PROVE  Wire(mode, Upto(text, q + n)) =
                      Wire(mode, Upto(text, q)) \o SubSeq(text, q + 1, q + n)
  BY DEF Even, EvenOnWire
<1> DEFINE W(k) == Wire(mode, Upto(text, k))
           R(k) == SubSeq(text, q + 1, k)
           Bad == {k \in q .. q + n : W(k) # W(q) \o R(k)}
<1>0. Len(text) \in Nat
  BY LenProperties
<1>1. \A k \in q .. q + n : R(k) \in Seq(Unit) /\ (k = q => R(k) = <<>>)
  <2> SUFFICES ASSUME NEW k \in q .. q + n
               PROVE  R(k) \in Seq(Unit) /\ (k = q => R(k) = <<>>)
    OBVIOUS
  <2>1. q + 1 \in Nat \ {0} /\ k \in Int /\ k <= Len(text) /\ (k = q => k < q + 1)
    BY <1>0
  <2> QED
    BY <2>1, PartType, SubSeqEmpty
<1>2. \A k \in q .. q + n : W(k) \in Seq(Unit)
  <2>1. \A k \in q .. q + n : k \in 0 .. Len(text)
    BY <1>0
  <2> QED
    BY <2>1, UptoType, WireType
<1>3. \A k \in q + 1 .. q + n :
        /\ W(k) = W(k - 1) \o <<text[k]>> /\ R(k) = R(k - 1) \o <<text[k]>>
        /\ text[k] \in Unit
  <2> SUFFICES ASSUME NEW k \in q + 1 .. q + n
               PROVE  /\ W(k) = W(k - 1) \o <<text[k]>>
                      /\ R(k) = R(k - 1) \o <<text[k]>>
                      /\ text[k] \in Unit
    OBVIOUS
  <2>1. /\ k - 1 \in Nat /\ k - 1 < Len(text) /\ k - 1 + 1 = k
        /\ k \in 1 .. Len(text) /\ q + 1 \in 1 .. Len(text)
        /\ k \in q + 1 .. Len(text)
    BY <1>0
  <2>2. Wire(mode, Upto(text, k - 1 + 1)) =
          Wire(mode, Upto(text, k - 1)) \o Piece(mode, text[k - 1 + 1])
    BY <2>1, WireNext
  <2>3. W(k) = W(k - 1) \o Piece(mode, text[k])
    BY <2>1, <2>2
  <2>4. Piece(mode, text[k]) = <<text[k]>>
    BY DEF Piece
  <2> QED
    BY <2>1, <2>3, <2>4, SubSeqRecursiveSecond, ElementOfSeq
<1> HIDE DEF W, R
<1>4. Bad = {}
  <2> SUFFICES ASSUME Bad # {} PROVE FALSE
    OBVIOUS
  <2>1. PICK k \in Bad : \A i \in Bad : k <= i
    <3> HIDE DEF Bad
    <3>1. Bad \in SUBSET Nat
      BY DEF Bad
    <3> QED
      BY <3>1, LeastElement
  <2>2. k \in q .. q + n /\ W(k) # W(q) \o R(k)
    BY <2>1
  <2>3. q \in q .. q + n
    OBVIOUS
  <2>4. W(q) \o R(q) = W(q)
    BY <1>1, <1>2, <2>3, ConcatEmptySeq
  <2>5. k # q
    BY <2>2, <2>4
  <2>6. k \in q + 1 .. q + n /\ k - 1 \in q .. q + n /\ k - 1 < k
    BY <2>2, <2>5
  <2>7. k - 1 \notin Bad
    BY <2>1, <2>6
  <2>8. W(k - 1) = W(q) \o R(k - 1)
    BY <2>6, <2>7
  <2>9. /\ W(k) = W(k - 1) \o <<text[k]>> /\ R(k) = R(k - 1) \o <<text[k]>>
        /\ <<text[k]>> \in Seq(Unit)
    <3>1. /\ W(k) = W(k - 1) \o <<text[k]>> /\ R(k) = R(k - 1) \o <<text[k]>>
          /\ text[k] \in Unit
      BY <1>3, <2>6, Zenon
    <3>2. <<text[k]>> \in Seq(Unit)
      BY <3>1
    <3> QED
      BY <3>1, <3>2
  <2>10. W(q) \in Seq(Unit) /\ R(k - 1) \in Seq(Unit)
    BY <1>1, <1>2, <2>3, <2>6
  <2>11. (W(q) \o R(k - 1)) \o <<text[k]>> = W(q) \o (R(k - 1) \o <<text[k]>>)
    BY <2>9, <2>10, Associative
  <2> QED
    BY <2>2, <2>8, <2>9, <2>11
<1>5. q + n \in q .. q + n
  OBVIOUS
<1> QED
  BY <1>4, <1>5 DEF W, R

\* Before stops at the first `stop`, or where n or the sequence ends.
LEMMA BeforeIs ==
  ASSUME NEW u \in Seq(Unit), NEW stop, NEW n \in Nat
  PROVE  LET k == Before(u, stop, n)
         IN  /\ \A j \in 1 .. k : u[j] # stop
             /\ k < n /\ k < Len(u) => u[k + 1] = stop
<1> DEFINE m == Min({n, Len(u)})
           S == {i \in 0 .. m : \A j \in 1 .. i : u[j] # stop}
           k == Before(u, stop, n)
<1>1. Len(u) \in Nat
  BY LenProperties
<1>2. m \in Nat /\ m = IF n <= Len(u) THEN n ELSE Len(u)
  BY <1>1, MinOfTwo
<1> HIDE DEF m
<1>3. 0 \in S /\ S \in SUBSET (0 .. m)
  BY <1>2
<1>4. k \in S /\ \A i \in S : i <= k
  <2> HIDE DEF S
  <2>1. k = Max(S)
    BY DEF Before, S, m
  <2> HIDE DEF k
  <2> QED
    BY <1>2, <1>3, <2>1, MaxBounded
<1> HIDE DEF k
<1>5. ASSUME k < n, k < Len(u), u[k + 1] # stop PROVE FALSE
  <2>1. k \in Nat /\ k + 1 \in 0 .. m
    BY <1>1, <1>2, <1>4, <1>5
  <2>2. \A j \in 1 .. k + 1 : u[j] # stop
    <3>1. \A j \in 1 .. k + 1 : j \in 1 .. k \/ j = k + 1
      BY <2>1
    <3> QED
      BY <1>4, <1>5, <3>1
  <2>3. k + 1 \in S
    BY <2>1, <2>2
  <2> QED
    BY <1>4, <2>1, <2>3
<1> QED
  BY <1>4, <1>5 DEF k

\* A part of a part.
LEMMA PartOfPart ==
  ASSUME NEW text \in Seq(Unit), NEW q \in Nat, NEW buf \in Seq(Unit),
         q + Len(buf) <= Len(text), buf = SubSeq(text, q + 1, q + Len(buf)),
         NEW j \in 0 .. Len(buf)
  PROVE  /\ Upto(buf, j) = SubSeq(text, q + 1, q + j)
         /\ SubSeq(buf, j + 1, Len(buf)) = SubSeq(text, q + j + 1, q + Len(buf))
         /\ SubSeq(buf, j + 1, Len(buf)) \in Seq(Unit)
         /\ Len(SubSeq(buf, j + 1, Len(buf))) = Len(buf) - j
         /\ \A i \in 1 .. Len(buf) : buf[i] = text[q + i]
<1> DEFINE n == Len(buf)
           b == SubSeq(text, q + 1, q + n)
           a == SubSeq(buf, 1, j)
           c == SubSeq(text, q + 1, q + j)
           d == SubSeq(buf, j + 1, n)
           e == SubSeq(text, q + j + 1, q + n)
<1>1. Len(text) \in Nat /\ n \in Nat /\ j \in Nat /\ j <= n
  BY LenProperties
<1>2. /\ \A i \in 1 .. n : buf[i] \in Unit
      /\ \A i \in 1 .. Len(text) : text[i] \in Unit
  BY ElementOfSeq
<1>3. q + n <= Len(text) /\ buf = b
  OBVIOUS
<1> HIDE DEF n
<1>4. \A i \in q + 1 .. q + n : text[i] \in Unit
  BY <1>1, <1>2, <1>3
<1>5. \A i \in 1 .. n : buf[i] = text[q + i]
  <2>1. \A i \in 1 .. (q + n) - (q + 1) + 1 : b[i] = text[(q + 1) + i - 1]
    BY <1>1, <1>4, SubSeqProperties
  <2>2. \A i \in 1 .. n : i \in 1 .. (q + n) - (q + 1) + 1 /\ (q + 1) + i - 1 = q + i
    BY <1>1
  <2> HIDE DEF b
  <2> QED
    BY <1>3, <2>1, <2>2
<1>6. a = c
  <2>1. a \in Seq(Unit) /\ Len(a) = j /\ \A i \in 1 .. j : a[i] = buf[i]
    <3>1. \A i \in 1 .. j : i \in 1 .. n
      BY <1>1
    <3>2. \A i \in 1 .. j : buf[i] \in Unit
      BY <1>2, <3>1
    <3> QED
      BY <1>1, <3>2, SubSeqProperties
  <2>2. c \in Seq(Unit) /\ Len(c) = j /\ \A i \in 1 .. j : c[i] = text[q + i]
    <3>1. \A i \in q + 1 .. q + j : text[i] \in Unit
      BY <1>1, <1>4
    <3>2. /\ c \in Seq(Unit)
          /\ Len(c) = IF q + 1 <= q + j THEN (q + j) - (q + 1) + 1 ELSE 0
          /\ \A i \in 1 .. (q + j) - (q + 1) + 1 : c[i] = text[(q + 1) + i - 1]
      BY <1>1, <3>1, SubSeqProperties
    <3>3. \A i \in 1 .. j : i \in 1 .. (q + j) - (q + 1) + 1 /\ (q + 1) + i - 1 = q + i
      BY <1>1
    <3> HIDE DEF c
    <3> QED
      BY <1>1, <3>2, <3>3
  <2>3. \A i \in 1 .. j : i \in 1 .. n
    BY <1>1
  <2> HIDE DEF a, c
  <2>4. \A i \in 1 .. Len(a) : a[i] = c[i]
    BY <1>5, <2>1, <2>2, <2>3
  <2> QED
    BY <2>1, <2>2, <2>4, SeqEqual
<1>7. d = e /\ d \in Seq(Unit) /\ Len(d) = n - j
  <2>1. /\ d \in Seq(Unit) /\ Len(d) = n - j
        /\ \A i \in 1 .. n - j : d[i] = buf[j + i]
    <3>1. \A i \in j + 1 .. n : i \in 1 .. n
      BY <1>1
    <3>2. \A i \in j + 1 .. n : buf[i] \in Unit
      BY <1>2, <3>1
    <3>3. /\ d \in Seq(Unit)
          /\ Len(d) = IF j + 1 <= n THEN n - (j + 1) + 1 ELSE 0
          /\ \A i \in 1 .. n - (j + 1) + 1 : d[i] = buf[(j + 1) + i - 1]
      BY <1>1, <3>2, SubSeqProperties
    <3>4. \A i \in 1 .. n - j : i \in 1 .. n - (j + 1) + 1 /\ (j + 1) + i - 1 = j + i
      BY <1>1
    <3> HIDE DEF d
    <3> QED
      BY <1>1, <3>3, <3>4
  <2>2. /\ e \in Seq(Unit) /\ Len(e) = n - j
        /\ \A i \in 1 .. n - j : e[i] = text[q + (j + i)]
    <3>1. \A i \in q + j + 1 .. q + n : text[i] \in Unit
      BY <1>1, <1>4
    <3>2. /\ e \in Seq(Unit)
          /\ Len(e) = IF q + j + 1 <= q + n THEN (q + n) - (q + j + 1) + 1 ELSE 0
          /\ \A i \in 1 .. (q + n) - (q + j + 1) + 1 : e[i] = text[(q + j + 1) + i - 1]
      BY <1>1, <3>1, SubSeqProperties
    <3>3. \A i \in 1 .. n - j : /\ i \in 1 .. (q + n) - (q + j + 1) + 1
                                /\ (q + j + 1) + i - 1 = q + (j + i)
      BY <1>1
    <3> HIDE DEF e
    <3> QED
      BY <1>1, <3>2, <3>3
  <2>3. \A i \in 1 .. n - j : j + i \in 1 .. n
    BY <1>1
  <2> HIDE DEF d, e
  <2>4. \A i \in 1 .. Len(d) : d[i] = e[i]
    BY <1>5, <2>1, <2>2, <2>3
  <2> QED
    BY <2>1, <2>2, <2>4, SeqEqual
<1> QED
  BY <1>5, <1>6, <1>7 DEF Upto, n

\* What is in messages, as a sequence.
LEMMA LeadType ==
  ASSUME NEW mode, NEW text \in Seq(Unit), NEW q \in 0 .. Len(text),
         NEW fopt \in BOOLEAN
  PROVE  /\ Wire(mode, Upto(text, q)) \in Seq(Unit)
         /\ Lead(mode, text, q, fopt) \in Seq(Unit)
         /\ ~fopt => Lead(mode, text, q, fopt) = Wire(mode, Upto(text, q))
<1> DEFINE w == Wire(mode, Upto(text, q))
           e == IF fopt THEN <<CR>> ELSE <<>>
<1>1. w \in Seq(Unit)
  BY UptoType, WireType
<1>2. <<CR>> \in Seq(Unit) /\ <<>> \in Seq(Unit)
  BY BufferAssumption, EmptySeq
<1>3. e \in Seq(Unit) /\ (~fopt => e = <<>>)
  BY <1>2
<1> HIDE DEF w, e
<1>4. w \o e \in Seq(Unit) /\ (~fopt => w \o e = w)
  BY <1>1, <1>3, UptoConcat, ConcatEmptySeq
<1> QED
  BY <1>1, <1>4 DEF Lead, w, e

\* A line end on the wire.
LEMMA LineEnd ==
  /\ <<CR>> \in Seq(Unit) /\ Len(<<CR>>) = 1
  /\ <<LF>> \in Seq(Unit) /\ Len(<<LF>>) = 1
  /\ <<CR, LF>> \in Seq(Unit) /\ Len(<<CR, LF>>) = 2
  /\ <<CR, LF>> = <<CR>> \o <<LF>>
<1>1. CR \in Unit /\ LF \in Unit
  BY BufferAssumption
<1>2. /\ <<CR>> \in Seq(Unit) /\ Len(<<CR>>) = 1
      /\ <<LF>> \in Seq(Unit) /\ Len(<<LF>>) = 1
      /\ <<CR, LF>> \in Seq(Unit) /\ Len(<<CR, LF>>) = 2
  BY <1>1
<1> DEFINE a == <<CR>>
           b == <<LF>>
           c == <<CR, LF>>
<1>3. a[1] = CR /\ b[1] = LF /\ c[1] = CR /\ c[2] = LF
  OBVIOUS
<1>4. c = a \o b
  <2> HIDE DEF a, b, c
  <2>1. /\ a \in Seq(Unit) /\ Len(a) = 1 /\ b \in Seq(Unit) /\ Len(b) = 1
        /\ c \in Seq(Unit) /\ Len(c) = 2
    BY <1>2 DEF a, b, c
  <2>2. /\ a \o b \in Seq(Unit) /\ Len(a \o b) = Len(a) + Len(b)
        /\ \A i \in 1 .. Len(a) + Len(b) : (a \o b)[i] =
             IF i <= Len(a) THEN a[i] ELSE b[i - Len(a)]
    BY <2>1, ConcatProperties
  <2>3. (a \o b)[1] = CR /\ (a \o b)[2] = LF /\ Len(a \o b) = 2
    BY <1>3, <2>1, <2>2
  <2>4. \A i \in 1 .. Len(c) : c[i] = (a \o b)[i]
    <3>1. \A i \in 1 .. Len(c) : i = 1 \/ i = 2
      BY <2>1
    <3> QED
      BY <1>3, <2>3, <3>1
  <2> QED
    BY <2>1, <2>2, <2>3, <2>4, SeqEqual
<1> QED
  BY <1>2, <1>4

\* It is what the text travels as, from the beginning.
LEMMA LeadBeginning ==
  ASSUME NEW x, x.sesbuf \in Seq(Unit), x.fopt \in BOOLEAN,
         NEW text \in Seq(Unit), NEW q \in Nat, Placed(text, x, q)
  PROVE  Beginning(Lead(x.tftpmode, text, q, x.fopt), Wire(x.tftpmode, text))
<1> DEFINE m == x.tftpmode
           W(k) == Wire(m, Upto(text, k))
           n == Len(text)
<1>1. n \in Nat /\ Len(x.sesbuf) \in Nat /\ q + Len(x.sesbuf) <= n
  BY LenProperties DEF Placed
<1>2. q \in 0 .. n /\ n \in 0 .. n /\ q <= n
  BY <1>1
<1>3. W(n) = Wire(m, text)
  BY UptoAll
<1>4. CASE ~x.fopt
  BY <1>1, <1>2, <1>3, <1>4, LeadType, WireBeginning
<1>5. CASE x.fopt
  <2>1. m = "netascii" /\ x.sesbuf # <<>> /\ x.sesbuf[1] = LF
    BY <1>5 DEF Placed
  <2>2. Len(x.sesbuf) > 0
    BY <2>1, EmptySeq
  <2>3. q + 1 <= n /\ q < n /\ q + 1 \in Nat /\ q + 1 \in 0 .. n
        /\ 1 \in 1 .. Len(x.sesbuf) /\ 0 \in 0 .. Len(x.sesbuf)
    BY <1>1, <2>2
  <2>4. text[q + 1] = LF
    <3>1. \A i \in 1 .. Len(x.sesbuf) : x.sesbuf[i] = text[q + i]
      BY <2>3, PartOfPart DEF Placed
    <3> QED
      BY <2>1, <2>3, <3>1
  <2>5. W(q + 1) = W(q) \o Piece(m, text[q + 1])
    BY <2>3, WireNext
  <2>6. Piece(m, text[q + 1]) = <<CR, LF>>
    BY <2>1, <2>4 DEF Piece
  <2>8. <<CR, LF>> = <<CR>> \o <<LF>> /\ <<CR>> \in Seq(Unit) /\ <<LF>> \in Seq(Unit)
    BY LineEnd
  <2>9. W(q) \in Seq(Unit) /\ W(q + 1) \in Seq(Unit) /\ W(n) \in Seq(Unit)
    BY <1>2, <2>3, UptoType, WireType
  <2>10. Beginning(W(q + 1), W(n))
    BY <1>1, <2>3, WireBeginning
  <2>11. Lead(m, text, q, x.fopt) = W(q) \o <<CR>>
    BY <1>5 DEF Lead
  <2> HIDE DEF W
  <2>12. W(q + 1) = (W(q) \o <<CR>>) \o <<LF>>
    <3>1. W(q + 1) = W(q) \o (<<CR>> \o <<LF>>)
      BY <2>5, <2>6, <2>8
    <3>2. (W(q) \o <<CR>>) \o <<LF>> = W(q) \o (<<CR>> \o <<LF>>)
      BY <2>8, <2>9, Associative
    <3> QED
      BY <3>1, <3>2
  <2>13. W(q) \o <<CR>> \in Seq(Unit)
    BY <2>8, <2>9, UptoConcat
  <2>14. Beginning(W(q) \o <<CR>>, W(q + 1))
    BY <2>8, <2>12, <2>13, BeginningConcat
  <2> QED
    BY <1>3, <2>9, <2>10, <2>11, <2>13, <2>14, BeginningTransitive
<1> QED
  BY <1>4, <1>5

\* The first n units of the buffer travel as they are.
Plain(mode, buf, n) == \A j \in 1 .. n : mode # "netascii" \/ buf[j] # LF

\* They take x from the units of the text sent up to q to those up to p.
Passing(mode, x, text, q, n, p) ==
  /\ x.sesbuf \in Seq(Unit) /\ text \in Seq(Unit) /\ q \in Nat
  /\ Placed(text, x, q) /\ n \in 0 .. Len(x.sesbuf) /\ p = q + n
  /\ Plain(mode, x.sesbuf, n)

\* They reach the wire unchanged.
AsTheyAre(mode, x, text, q, n, p) ==
  Wire(mode, Upto(text, p)) = Wire(mode, Upto(text, q)) \o Upto(x.sesbuf, n)

\* Units none of which is an LF, or of a transfer in octet mode, go out as they
\* lie in the buffer.
LEMMA PlainTaken ==
  ASSUME NEW x, NEW text, NEW q, NEW n, NEW p, NEW mode,
         Passing(mode, x, text, q, n, p)
  PROVE  AsTheyAre(mode, x, text, q, n, p)
<1> SUFFICES ASSUME x.sesbuf \in Seq(Unit), text \in Seq(Unit), q \in Nat,
                    Placed(text, x, q), n \in 0 .. Len(x.sesbuf), p = q + n,
                    Plain(mode, x.sesbuf, n)
             PROVE  Wire(mode, Upto(text, p)) =
                      Wire(mode, Upto(text, q)) \o Upto(x.sesbuf, n)
  BY DEF Passing, AsTheyAre
<1> DEFINE buf == x.sesbuf
<1>1. /\ Len(text) \in Nat /\ Len(buf) \in Nat /\ q + Len(buf) <= Len(text)
      /\ n \in Nat /\ q + n <= Len(text)
  BY LenProperties DEF Placed
<1>2. /\ Upto(buf, n) = SubSeq(text, q + 1, q + n)
      /\ \A i \in 1 .. Len(buf) : buf[i] = text[q + i]
  <2>1. /\ buf \in Seq(Unit) /\ n \in 0 .. Len(buf)
        /\ buf = SubSeq(text, q + 1, q + Len(buf)) /\ q + Len(buf) <= Len(text)
    BY DEF Placed
  <2> HIDE DEF buf
  <2> QED
    BY ONLY <2>1, text \in Seq(Unit), q \in Nat, PartOfPart
<1>3. \A i \in q + 1 .. q + n : mode # "netascii" \/ text[i] # LF
  <2> SUFFICES ASSUME NEW i \in q + 1 .. q + n
               PROVE  mode # "netascii" \/ text[i] # LF
    OBVIOUS
  <2>1. i - q \in 1 .. n /\ i - q \in 1 .. Len(buf) /\ q + (i - q) = i
    BY <1>1
  <2>2. buf[i - q] = text[i]
    BY <1>2, <2>1
  <2> QED
    BY <2>1, <2>2 DEF Plain
<1>4. Wire(mode, Upto(text, q + n)) =
        Wire(mode, Upto(text, q)) \o SubSeq(text, q + 1, q + n)
  <2>1. Even(mode, text, q, n)
    BY <1>1, <1>3 DEF Even
  <2>2. EvenOnWire(mode, text, q, n)
    BY <2>1, WireRun
  <2> QED
    BY <2>2 DEF EvenOnWire
<1> QED
  BY <1>2, <1>4

\* y is what remains of x after j units of the buffer.
Rest(x, j, y) ==
  /\ y.tftpmode = x.tftpmode
  /\ y.sesbuf = SubSeq(x.sesbuf, j + 1, Len(x.sesbuf))
  /\ y.fopt => /\ y.tftpmode = "netascii" /\ j < Len(x.sesbuf)
               /\ x.sesbuf[j + 1] = LF

\* It stays in its place.
LEMMA RestPlaced ==
  ASSUME NEW x, x.sesbuf \in Seq(Unit), NEW text \in Seq(Unit), NEW q \in Nat,
         Placed(text, x, q), NEW j \in 0 .. Len(x.sesbuf), NEW p, p = q + j,
         NEW y, Rest(x, j, y)
  PROVE  p \in Nat /\ Placed(text, y, p) /\ Len(y.sesbuf) = Len(x.sesbuf) - j
<1> DEFINE buf == x.sesbuf
           rest == SubSeq(buf, j + 1, Len(buf))
<1>1. /\ Len(text) \in Nat /\ Len(buf) \in Nat /\ q + Len(buf) <= Len(text)
      /\ j \in Nat /\ q + j \in Nat
  BY LenProperties DEF Placed
<1>2. /\ rest = SubSeq(text, q + j + 1, q + Len(buf))
      /\ rest \in Seq(Unit) /\ Len(rest) = Len(buf) - j
      /\ \A i \in 1 .. Len(buf) : buf[i] = text[q + i]
  BY <1>1, PartOfPart DEF Placed
<1> HIDE DEF rest
<1>3. y.sesbuf = rest
  BY DEF rest, Rest
<1>4. Len(rest) = Len(buf) - j
  BY <1>2
<1>6. q + j + Len(rest) = q + Len(buf) /\ (j < Len(buf) => Len(rest) # 0)
  <2> HIDE DEF buf
  <2> QED
    BY <1>1, <1>4
<1>5. ASSUME y.fopt PROVE rest # <<>> /\ rest[1] = LF
  <2>1. j < Len(buf) /\ buf[j + 1] = LF
    BY <1>5 DEF Rest
  <2>2. rest # <<>>
    BY <1>6, <2>1, EmptySeq
  <2>3. rest[1] = buf[j + 1]
    <3>1. \A i \in j + 1 .. Len(buf) : i \in 1 .. Len(buf)
      BY <1>1
    <3>2. \A i \in j + 1 .. Len(buf) : buf[i] \in Unit
      BY <3>1, ElementOfSeq
    <3>3. \A i \in 1 .. Len(buf) - (j + 1) + 1 : rest[i] = buf[(j + 1) + i - 1]
      BY <1>1, <3>2, SubSeqProperties DEF rest
    <3>4. 1 \in 1 .. Len(buf) - (j + 1) + 1 /\ (j + 1) + 1 - 1 = j + 1
      BY <1>1, <2>1
    <3> QED
      BY <3>3, <3>4
  <2> QED
    BY <2>1, <2>2, <2>3
<1>7. p \in Nat /\ p + Len(rest) = q + Len(buf) /\ p + Len(rest) <= Len(text)
      /\ q + j + 1 = p + 1
  BY <1>1, <1>6
<1>8. rest = SubSeq(text, p + 1, p + Len(rest))
  BY <1>2, <1>7
<1>9. Placed(text, y, p)
  <2> HIDE DEF buf
  <2> QED
    BY <1>3, <1>5, <1>7, <1>8 DEF Placed, Rest
<1> QED
  BY <1>3, <1>4, <1>7, <1>9

\* A turn of get_session_data over x: t goes to a message with room for so
\* many units, and y is left of x.
Turn(x, room, t, y) ==
  /\ x.fopt => room > 1
  /\ t = Taken(x, room)
  /\ y.tftpmode = x.tftpmode /\ y.sesbuf = t.sesbuf /\ y.fopt = t.fopt

\* The message grows by what comes next on the wire, t.data, and y is where x
\* was or further on.
Onward(x, text, q, t, y, p) ==
  /\ Placed(text, y, p) /\ p + Len(y.sesbuf) = q + Len(x.sesbuf)
  /\ Lead(x.tftpmode, text, p, t.fopt) = Lead(x.tftpmode, text, q, x.fopt) \o t.data

\* One turn; a CR without its LF is the last of its block.
LEMMA TakenPlaced ==
  ASSUME NEW x, x.sesbuf \in Seq(Unit), x.fopt \in BOOLEAN, x.sesbuf # <<>>,
         NEW text \in Seq(Unit), NEW q \in Nat, Placed(text, x, q),
         NEW room \in Nat \ {0}, NEW t, NEW y, Turn(x, room, t, y)
  PROVE  /\ t.fopt => Len(t.data) = room
         /\ \E p \in Nat : Onward(x, text, q, t, y, p)
<1> SUFFICES ASSUME x.fopt => room > 1, t = Taken(x, room),
                    y.tftpmode = x.tftpmode, y.sesbuf = t.sesbuf, y.fopt = t.fopt
             PROVE  /\ t.fopt => Len(t.data) = room
                    /\ \E p \in Nat :
                         /\ Placed(text, y, p) /\ p + Len(y.sesbuf) = q + Len(x.sesbuf)
                         /\ Lead(x.tftpmode, text, p, t.fopt) =
                              Lead(x.tftpmode, text, q, x.fopt) \o t.data
  BY DEF Turn, Onward
<1> DEFINE buf == x.sesbuf
           m == x.tftpmode
           W(k) == Wire(m, Upto(text, k))
<1>1. /\ Len(text) \in Nat /\ Len(buf) \in Nat /\ q + Len(buf) <= Len(text)
      /\ Len(buf) > 0
  BY LenProperties, EmptySeq DEF Placed
<1>2. \A k \in 0 .. Len(text) : W(k) \in Seq(Unit)
  BY UptoType, WireType
<1>3. q \in 0 .. Len(text)
  BY <1>1
<1> HIDE DEF buf, m, W
<1>4. \A k : Lead(m, text, k, FALSE) = W(k) \o <<>> /\ Lead(m, text, k, TRUE) = W(k) \o <<CR>>
  BY DEF Lead, W
<1>5. \A k \in 0 .. Len(text) : Lead(m, text, k, FALSE) = W(k)
  BY <1>2, <1>4, ConcatEmptySeq
<1>6. CASE m # "netascii"
  <2> DEFINE n == Min({Len(buf), room})
  <2>1. n \in 0 .. Len(buf) /\ n \in Nat
    BY <1>1, MinOfTwo
  <2>2. t = [data |-> Upto(buf, n), fopt |-> x.fopt,
             sesbuf |-> SubSeq(buf, n + 1, Len(buf))]
    BY <1>6 DEF Taken, buf, m
  <2> HIDE DEF n
  <2>3. x.fopt = FALSE /\ t.fopt = FALSE
    BY <1>6, <2>2 DEF Placed, m
  <2> DEFINE p == q + n
  <2>4. W(p) = W(q) \o Upto(buf, n)
    <3>1. Plain(m, x.sesbuf, n)
      BY <1>6 DEF Plain
    <3>2. p = q + n /\ n \in 0 .. Len(x.sesbuf)
      BY <2>1 DEF buf
    <3> HIDE DEF p
    <3>3. Wire(m, Upto(text, p)) = Wire(m, Upto(text, q)) \o Upto(x.sesbuf, n)
      <4>1. Passing(m, x, text, q, n, p)
        BY <3>1, <3>2 DEF Passing
      <4>2. AsTheyAre(m, x, text, q, n, p)
        BY <4>1, PlainTaken
      <4> QED
        BY <4>2 DEF AsTheyAre
    <3> QED
      BY <3>3 DEF buf, W
  <2>5. p \in Nat /\ Placed(text, y, p) /\ p + Len(y.sesbuf) = q + Len(buf)
    <3>1. y.sesbuf = SubSeq(x.sesbuf, n + 1, Len(x.sesbuf)) /\ y.fopt = FALSE
      <4> DEFINE u == SubSeq(buf, n + 1, Len(buf))
                 v == Upto(buf, n)
      <4>1. t = [data |-> v, fopt |-> x.fopt, sesbuf |-> u]
        BY <2>2
      <4> HIDE DEF u, v
      <4>2. t.sesbuf = u
        BY <4>1
      <4> QED
        BY <2>3, <4>2 DEF u, buf
    <3>2. p = q + n /\ n \in 0 .. Len(x.sesbuf)
      BY <2>1 DEF buf
    <3>3. Rest(x, n, y)
      BY <3>1 DEF Rest
    <3> HIDE DEF p
    <3>5. p \in Nat /\ Placed(text, y, p) /\ Len(y.sesbuf) = Len(x.sesbuf) - n
      BY <3>2, <3>3, RestPlaced
    <3>6. p + Len(y.sesbuf) = q + Len(buf)
      <4> DEFINE k == Len(buf)
                 l == Len(y.sesbuf)
      <4>1. k \in Nat /\ l = k - n /\ n \in 0 .. k
        BY <1>1, <2>1, <3>5 DEF buf
      <4> HIDE DEF k, l
      <4>2. p + l = q + k
        BY <3>2, <4>1
      <4> QED
        BY <4>2 DEF k, l
    <3> QED
      BY <3>5, <3>6
  <2>6. p \in 0 .. Len(text)
    BY <1>1, <2>1
  <2> HIDE DEF p
  <2>7. Lead(m, text, p, FALSE) = Lead(m, text, q, FALSE) \o t.data
    <3>1. Lead(m, text, p, FALSE) = W(p) /\ Lead(m, text, q, FALSE) = W(q)
      BY <1>3, <1>5, <2>6
    <3>2. W(p) = W(q) \o t.data
      BY <2>2, <2>4
    <3> QED
      BY <3>1, <3>2
  <2> QED
    BY <2>3, <2>5, <2>7 DEF buf, m
<1>7. CASE m = "netascii"
  <2> DEFINE n == Before(buf, LF, room)
             found == n < room /\ n < Len(buf)
             left == room - n
             end == IF ~found THEN <<>> ELSE IF left = 1 THEN <<CR>>
                    ELSE IF x.fopt THEN <<LF>> ELSE <<CR, LF>>
             j == IF found /\ left > 1 THEN n + 1 ELSE n
             flag == IF found THEN left = 1 ELSE x.fopt
  <2>1. n \in 0 .. room /\ n \in 0 .. Len(buf) /\ n \in Nat
    BY <1>1, BeforeRange DEF buf
  <2>2. /\ \A i \in 1 .. n : buf[i] # LF
        /\ n < room /\ n < Len(buf) => buf[n + 1] = LF
    BY BeforeIs DEF buf
  <2>3. t = [data |-> Upto(buf, n) \o end, fopt |-> flag,
             sesbuf |-> SubSeq(buf, (IF found /\ left > 1 THEN n + 2 ELSE n + 1),
                               Len(buf))]
    BY <1>7 DEF Taken, local_to_netascii, buf, m
  <2> HIDE DEF n
  <2>4. (IF found /\ left > 1 THEN n + 2 ELSE n + 1) = j + 1
    BY <2>1
  <2>5. t.data = Upto(buf, n) \o end /\ t.fopt = flag
        /\ t.sesbuf = SubSeq(buf, j + 1, Len(buf))
    <3> DEFINE k == IF found /\ left > 1 THEN n + 2 ELSE n + 1
    <3> DEFINE d == Upto(buf, n) \o end
               u == SubSeq(buf, k, Len(buf))
    <3>1. t = [data |-> d, fopt |-> flag, sesbuf |-> u]
      BY <2>3
    <3>2. u = SubSeq(buf, j + 1, Len(buf))
      BY <2>4
    <3> HIDE DEF d, u, flag
    <3>3. t.data = d /\ t.fopt = flag /\ t.sesbuf = u
      BY <3>1
    <3> QED
      BY <3>2, <3>3 DEF d
  <2> DEFINE p == q + n
             r == q + j
  <2>6. j \in 0 .. Len(buf) /\ r \in 0 .. Len(text) /\ p \in 0 .. Len(text)
        /\ (j = n => r = p) /\ (j = n + 1 => r = p + 1)
    BY <1>1, <2>1
  <2>7. W(p) = W(q) \o Upto(buf, n)
    <3>1. Plain(m, x.sesbuf, n)
      BY <2>2 DEF buf, Plain
    <3>2. p = q + n /\ n \in 0 .. Len(x.sesbuf)
      BY <2>1 DEF buf
    <3> HIDE DEF p
    <3>3. Wire(m, Upto(text, p)) = Wire(m, Upto(text, q)) \o Upto(x.sesbuf, n)
      <4>1. Passing(m, x, text, q, n, p)
        BY <3>1, <3>2 DEF Passing
      <4>2. AsTheyAre(m, x, text, q, n, p)
        BY <4>1, PlainTaken
      <4> QED
        BY <4>2 DEF AsTheyAre
    <3> QED
      BY <3>3 DEF buf, W
  <2>8. x.fopt => n = 0 /\ found /\ left > 1
    <3> SUFFICES ASSUME x.fopt PROVE n = 0 /\ found /\ left > 1
      OBVIOUS
    <3>1. buf[1] = LF
      BY DEF Placed, buf
    <3>2. n = 0
      BY <2>1, <2>2, <3>1
    <3> QED
      BY <1>1, <3>2
  <2>9. flag => found /\ left = 1 /\ ~x.fopt
    BY <2>8
  <2>10. flag \in BOOLEAN
    <3>1. CASE found
      BY <3>1, Zenon
    <3>2. CASE ~found
      BY <3>2, Zenon
    <3> QED
      BY <3>1, <3>2
  <2>11. Upto(buf, n) \in Seq(Unit) /\ Len(Upto(buf, n)) = n
    BY <2>1, UptoType DEF buf
  <2>12. Lead(m, text, r, flag) = Lead(m, text, q, x.fopt) \o (Upto(buf, n) \o end)
    <3>1. CASE ~found
      <4>1. j = n /\ end = <<>> /\ x.fopt = FALSE /\ flag = FALSE
        BY <2>8, <3>1
      <4> HIDE DEF j, end, flag, found, W, p, r
      <4>2. Upto(buf, n) \o end = Upto(buf, n)
        BY <2>11, <4>1, ConcatEmptySeq
      <4> QED
        BY <1>3, <1>5, <2>6, <2>7, <4>1, <4>2
    <3>2. CASE found /\ left = 1
      <4>1. j = n /\ end = <<CR>> /\ x.fopt = FALSE /\ flag = TRUE
        <5>1. ~(left > 1)
          BY <3>2
        <5>2. flag = TRUE
          BY <3>2, Zenon
        <5> QED
          BY <2>8, <3>2, <5>1, <5>2
      <4> HIDE DEF j, end, flag, found, left, W, p, r
      <4>2. (W(q) \o Upto(buf, n)) \o <<CR>> = W(q) \o (Upto(buf, n) \o <<CR>>)
        <5>1. W(q) \in Seq(Unit) /\ <<CR>> \in Seq(Unit)
          BY <1>2, <1>3, LineEnd
        <5> QED
          BY <2>11, <5>1, Associative
      <4> QED
        BY <1>3, <1>4, <1>5, <2>6, <2>7, <4>1, <4>2
    <3>3. CASE found /\ left # 1
      <4>1. n < Len(buf) /\ n < room /\ left > 1 /\ j = n + 1 /\ p < Len(text)
            /\ p \in Nat /\ n + 1 \in 1 .. Len(buf)
        BY <1>1, <2>1, <3>3
      <4>2. flag = FALSE
        <5>1. ~(left = 1) /\ found
          BY <3>3
        <5>2. flag \in BOOLEAN /\ ~flag
          BY <2>10, <5>1, Zenon
        <5> QED
          BY <5>2
      <4>3. text[p + 1] = LF
        <5>1. \A i \in 1 .. Len(buf) : buf[i] = text[q + i]
          BY <2>1, PartOfPart DEF Placed, buf
        <5>2. q + (n + 1) = p + 1
          BY <1>1, <2>1
        <5> QED
          BY <2>2, <4>1, <5>1, <5>2
      <4>4. W(p + 1) = W(p) \o Piece(m, text[p + 1])
        BY <4>1, WireNext DEF W
      <4>5. Piece(m, text[p + 1]) = <<CR, LF>>
        BY <1>7, <4>3 DEF Piece
      <4>6. end = IF x.fopt THEN <<LF>> ELSE <<CR, LF>>
        BY <3>3
      <4> HIDE DEF j, end, flag, found, left, W, p, r
      <4>7. W(r) = W(p) \o <<CR, LF>>
        BY <2>6, <4>1, <4>4, <4>5
      <4>8. Lead(m, text, r, flag) = W(q) \o Upto(buf, n) \o <<CR, LF>>
        BY <1>5, <2>6, <2>7, <4>2, <4>7
      <4>9. CASE ~x.fopt
        <5>1. Lead(m, text, q, x.fopt) = W(q)
          BY <1>3, <1>5, <4>9
        <5>2. (W(q) \o Upto(buf, n)) \o <<CR, LF>> = W(q) \o (Upto(buf, n) \o <<CR, LF>>)
          <6> DEFINE u == W(q)
                     v == Upto(buf, n)
                     z == <<CR, LF>>
          <6>1. u \in Seq(Unit) /\ v \in Seq(Unit) /\ z \in Seq(Unit)
            BY <1>2, <1>3, <2>11, LineEnd
          <6> HIDE DEF u, v, z
          <6>2. (u \o v) \o z = u \o (v \o z)
            BY ONLY <6>1, Associative
          <6> QED
            BY <6>2 DEF u, v, z
        <5> QED
          BY <4>6, <4>8, <4>9, <5>1, <5>2
      <4>10. CASE x.fopt
        <5>1. Lead(m, text, q, x.fopt) = W(q) \o <<CR>>
          BY <1>4, <4>10
        <5>2. n = 0
          BY <2>8, <4>10
        <5>3. Upto(buf, n) = <<>>
          BY <5>2, SubSeqEmpty DEF Upto
        <5>4. W(q) \o Upto(buf, n) = W(q) /\ Upto(buf, n) \o <<LF>> = <<LF>>
          BY <1>2, <1>3, <5>3, LineEnd, ConcatEmptySeq
        <5>5. (W(q) \o <<CR>>) \o <<LF>> = W(q) \o (<<CR>> \o <<LF>>)
          BY <1>2, <1>3, LineEnd, Associative
        <5> QED
          BY <4>6, <4>8, <4>10, <5>1, <5>4, <5>5, LineEnd
      <4> QED
        BY <4>9, <4>10
    <3> QED
      BY <3>1, <3>2, <3>3
  <2>13. t.fopt => Len(t.data) = room
    <3> SUFFICES ASSUME flag PROVE Len(Upto(buf, n) \o end) = room
      BY <2>5
    <3>1. end = <<CR>> /\ room - n = 1
      BY <2>9
    <3>2. Len(Upto(buf, n) \o <<CR>>) = n + 1
      BY <2>11, LineEnd, UptoConcat
    <3> QED
      BY <2>1, <3>1, <3>2
  <2>14. r \in Nat /\ Placed(text, y, r) /\ r + Len(y.sesbuf) = q + Len(buf)
    <3>1. y.fopt => /\ y.tftpmode = "netascii" /\ j < Len(buf) /\ buf[j + 1] = LF
      <4> SUFFICES ASSUME flag
                   PROVE  y.tftpmode = "netascii" /\ j < Len(buf) /\ buf[j + 1] = LF
        BY <2>5
      <4>1. found /\ left = 1
        BY <2>9
      <4>2. j = n
        BY <4>1
      <4> QED
        BY <1>7, <2>2, <4>1, <4>2 DEF m
    <3>2. r = q + j
      OBVIOUS
    <3> HIDE DEF j, end, flag, found, left, r
    <3>3. j \in 0 .. Len(x.sesbuf) /\ Rest(x, j, y)
      BY <2>5, <2>6, <3>1 DEF buf, Rest
    <3>4. r \in Nat /\ Placed(text, y, r) /\ Len(y.sesbuf) = Len(x.sesbuf) - j
      BY <3>2, <3>3, RestPlaced
    <3>5. r + Len(y.sesbuf) = q + Len(buf)
      <4> DEFINE k == Len(buf)
                 l == Len(y.sesbuf)
      <4>1. k \in Nat /\ l = k - j /\ j \in 0 .. k
        BY <1>1, <2>6, <3>4 DEF buf
      <4> HIDE DEF k, l
      <4>2. r + l = q + k
        BY <3>2, <4>1
      <4> QED
        BY <4>2 DEF k, l
    <3> QED
      BY <3>4, <3>5
  <2> HIDE DEF j, end, flag, found, left, r
  <2> QED
    BY <2>5, <2>12, <2>13, <2>14 DEF buf, m
<1> QED
  BY <1>6, <1>7 DEF m, buf

----------------------------------------------------------------------------

\* What a receiver keeps of a unit.
Kernel(mode, u) == IF mode = "netascii" /\ u = CR THEN <<>> ELSE <<u>>

\* What Kernel is.
LEMMA KernelType ==
  ASSUME NEW mode, NEW u \in Unit
  PROVE  Kernel(mode, u) \in Seq(Unit)
<1>1. <<u>> \in Seq(Unit) /\ <<>> \in Seq(Unit)
  OBVIOUS
<1>2. Kernel(mode, u) = <<>> \/ Kernel(mode, u) = <<u>>
  BY Zenon DEF Kernel
<1> QED
  BY <1>1, <1>2

\* What is known of a text is one.
LEMMA KnownType ==
  ASSUME NEW mode, NEW wire \in Seq(Unit)
  PROVE  Known(mode, wire) \in Seq(Unit)
<1> DEFINE parts == [i \in 1 .. Len(wire) |-> IF wire[i] = CR THEN <<>> ELSE <<wire[i]>>]
<1>1. Len(wire) \in Nat /\ \A i \in 1 .. Len(wire) : wire[i] \in Unit
  BY LenProperties, ElementOfSeq
<1>2. \A i \in 1 .. Len(wire) :
        (IF wire[i] = CR THEN <<>> ELSE <<wire[i]>>) \in Seq(Unit)
  BY <1>1
<1>3. parts \in Seq(Seq(Unit))
  BY <1>1, <1>2, SeqDef
<1> HIDE DEF parts
<1>4. FlattenSeq(parts) \in Seq(Unit)
  BY <1>3, FlattenType
<1> QED
  BY <1>4 DEF Known, parts

\* A unit more on the wire.
LEMMA KnownAppend ==
  ASSUME NEW mode, NEW w \in Seq(Unit), NEW u \in Unit
  PROVE  Known(mode, Append(w, u)) = Known(mode, w) \o Kernel(mode, u)
<1> DEFINE t == Append(w, u)
           n == Len(w)
           r == n + 1
<1>1. /\ n \in Nat /\ t \in Seq(Unit) /\ Len(t) = r
      /\ \A i \in 1 .. n : t[i] = w[i]
      /\ t[r] = u
  BY AppendProperties, LenProperties
<1>2. /\ \A i \in 1 .. n : w[i] \in Unit
      /\ \A i \in 1 .. r : i \in 1 .. n \/ i = r
      /\ \A i \in 1 .. n : i \in 1 .. r
      /\ r \in 1 .. r /\ r \in Nat
  BY <1>1, ElementOfSeq
<1>3. t = Append(w, u) /\ n = Len(w) /\ r = n + 1
  OBVIOUS
<1> HIDE DEF t, n, r
<1>4. CASE mode = "netascii"
  <2> DEFINE P(v) == IF v = CR THEN <<>> ELSE <<v>>
             a == [i \in 1 .. Len(w) |-> P(w[i])]
             b == [i \in 1 .. Len(t) |-> P(t[i])]
             p == P(u)
             z == Append(a, p)
  <2>1. \A v \in Unit : P(v) \in Seq(Unit) /\ P(v) = Kernel(mode, v)
    BY <1>4, KernelType DEF Kernel
  <2>2. Known(mode, w) = FlattenSeq(a) /\ Known(mode, t) = FlattenSeq(b)
    BY <1>4 DEF Known
  <2> HIDE DEF P
  <2>3. a \in Seq(Seq(Unit)) /\ Len(a) = n /\ \A i \in 1 .. n : a[i] = P(w[i])
    BY <1>1, <1>2, <1>3, <2>1, SeqDef
  <2>4. \A i \in 1 .. r : t[i] \in Unit
    BY <1>1, <1>2
  <2>5. b \in Seq(Seq(Unit)) /\ Len(b) = r /\ \A i \in 1 .. r : b[i] = P(t[i])
    BY <1>1, <1>2, <2>1, <2>4, SeqDef
  <2>6. p \in Seq(Unit) /\ p = P(u)
    BY <2>1
  <2> HIDE DEF a, b, p
  <2>7. /\ z \in Seq(Seq(Unit)) /\ Len(z) = Len(a) + 1
        /\ \A i \in 1 .. Len(a) : z[i] = a[i]
        /\ z[Len(a) + 1] = p
    BY <2>3, <2>6, AppendProperties
  <2> HIDE DEF z
  <2>8. Len(z) = r /\ z[r] = p /\ \A i \in 1 .. n : z[i] = a[i]
    BY <1>3, <2>3, <2>7
  <2>9. \A i \in 1 .. r : b[i] = z[i]
    <3> SUFFICES ASSUME NEW i \in 1 .. r PROVE b[i] = z[i]
      OBVIOUS
    <3>1. CASE i \in 1 .. n
      BY <1>1, <2>3, <2>5, <2>8, <3>1
    <3>2. CASE i = r
      BY <1>1, <2>5, <2>6, <2>8, <3>2
    <3> QED
      BY <1>2, <3>1, <3>2
  <2>10. b = z
    BY <2>5, <2>7, <2>8, <2>9, SeqEqual
  <2>11. FlattenSeq(b) = FlattenSeq(a) \o p
    BY <2>3, <2>6, <2>10, FlattenAppend DEF z
  <2> QED
    BY <1>3, <2>1, <2>2, <2>6, <2>11
<1>5. CASE mode # "netascii"
  <2>1. Append(w, u) = w \o <<u>>
    BY AppendIsConcat
  <2> QED
    BY <1>5, <2>1 DEF Known, Kernel
<1> QED
  BY <1>4, <1>5

\* Of nothing nothing is known.
LEMMA KnownNone ==
  ASSUME NEW mode
  PROVE  Known(mode, <<>>) = <<>>
<1> DEFINE p == [i \in 1 .. Len(<<>>) |-> IF <<>>[i] = CR THEN <<>> ELSE <<<<>>[i]>>]
<1>1. Len(<<>>) = 0 /\ <<>> \in Seq(Unit)
  BY EmptySeq
<1>2. p = <<>>
  BY <1>1
<1> HIDE DEF p
<1>3. FlattenSeq(p) = p
  BY <1>1, <1>2 DEF FlattenSeq
<1>4. Known(mode, <<>>) = IF mode = "netascii" THEN FlattenSeq(p) ELSE <<>>
  BY DEF Known, p
<1> QED
  BY <1>2, <1>3, <1>4

\* The beginning of a sequence with a unit more.
LEMMA UptoNext ==
  ASSUME NEW u \in Seq(Unit), NEW q \in Nat, q < Len(u)
  PROVE  /\ Upto(u, q) \in Seq(Unit) /\ u[q + 1] \in Unit
         /\ Upto(u, q + 1) = Append(Upto(u, q), u[q + 1])
<1> DEFINE s == Upto(u, q)
           r == q + 1
           t == Upto(u, r)
           v == u[r]
           z == Append(s, v)
<1>1. Len(u) \in Nat /\ q \in 0 .. Len(u) /\ r \in 0 .. Len(u) /\ r \in 1 .. Len(u)
  BY LenProperties
<1>2. s \in Seq(Unit) /\ Len(s) = q /\ \A i \in 1 .. q : s[i] = u[i]
  BY <1>1, UptoType, UptoElements
<1>3. t \in Seq(Unit) /\ Len(t) = r /\ \A i \in 1 .. r : t[i] = u[i]
  BY <1>1, UptoType, UptoElements
<1>4. v \in Unit
  BY <1>1, ElementOfSeq
<1>5. r \in Nat /\ \A i \in 1 .. r : i \in 1 .. q \/ i = r
  OBVIOUS
<1> HIDE DEF s, t, v
<1>6. /\ z \in Seq(Unit) /\ Len(z) = q + 1
      /\ \A i \in 1 .. q : z[i] = s[i]
      /\ z[q + 1] = v
  BY <1>2, <1>4, AppendProperties
<1> HIDE DEF z
<1>7. r = q + 1 /\ v = u[r]
  BY DEF v
<1> HIDE DEF r
<1>8. Len(z) = Len(t) /\ \A i \in 1 .. Len(t) : t[i] = z[i]
  BY <1>2, <1>3, <1>5, <1>6, <1>7
<1>9. t = z
  BY <1>3, <1>6, <1>8, SeqEqual
<1> QED
  BY <1>2, <1>4, <1>9 DEF s, t, v, z, r

\* The same for what is known of it.
LEMMA KnownNext ==
  ASSUME NEW mode, NEW wire \in Seq(Unit), NEW q \in Nat, q < Len(wire)
  PROVE  Known(mode, Upto(wire, q + 1)) =
           Known(mode, Upto(wire, q)) \o Kernel(mode, wire[q + 1])
BY UptoNext, KnownAppend

\* Who knows more of a text knows what was known.
LEMMA KnownBeginning ==
  ASSUME NEW mode, NEW wire \in Seq(Unit), NEW n \in Nat, n <= Len(wire),
         NEW q \in Nat, q <= n
  PROVE  Beginning(Known(mode, Upto(wire, q)), Known(mode, Upto(wire, n)))
<1> DEFINE W(k) == Known(mode, Upto(wire, k))
           Bad == {k \in q .. n : ~ Beginning(W(q), W(k))}
<1>0. Len(wire) \in Nat
  BY LenProperties
<1>1. \A k \in 0 .. n : W(k) \in Seq(Unit)
  BY <1>0, UptoType, KnownType
<1>2. \A k \in Nat : k < n => k + 1 \in 0 .. n /\ Beginning(W(k), W(k + 1))
  <2> SUFFICES ASSUME NEW k \in Nat, k < n
               PROVE  k + 1 \in 0 .. n /\ Beginning(W(k), W(k + 1))
    OBVIOUS
  <2>1. k + 1 \in 0 .. n /\ k \in 0 .. n /\ k < Len(wire)
        /\ k + 1 \in 1 .. Len(wire)
    BY <1>0
  <2>2. W(k + 1) = W(k) \o Kernel(mode, wire[k + 1])
    BY <2>1, KnownNext
  <2>3. Kernel(mode, wire[k + 1]) \in Seq(Unit)
    BY <2>1, ElementOfSeq, KernelType
  <2>4. W(k) \in Seq(Unit)
    BY <1>1, <2>1
  <2> HIDE DEF W
  <2> QED
    BY <2>1, <2>2, <2>3, <2>4, BeginningConcat
<1> HIDE DEF W
<1>3. Bad = {}
  <2> SUFFICES ASSUME Bad # {} PROVE FALSE
    OBVIOUS
  <2>1. PICK k \in Bad : \A i \in Bad : k <= i
    <3> HIDE DEF Bad
    <3>1. Bad \in SUBSET Nat
      BY DEF Bad
    <3> QED
      BY <3>1, LeastElement
  <2>2. k \in Nat /\ q <= k /\ k <= n /\ ~ Beginning(W(q), W(k))
    BY <2>1
  <2>3. Beginning(W(q), W(q))
    BY DEF Beginning
  <2>4. k # q /\ k - 1 \in Nat /\ k - 1 < n /\ k - 1 + 1 = k /\ k - 1 \in q .. n
    BY <2>2, <2>3
  <2>5. k - 1 \notin Bad
    BY <2>1, <2>4
  <2>6. Beginning(W(q), W(k - 1))
    BY <2>4, <2>5
  <2>7. Beginning(W(k - 1), W(k))
    BY <1>2, <2>4
  <2>8. q \in 0 .. n /\ k - 1 \in 0 .. n /\ k \in 0 .. n
    BY <2>2, <2>4
  <2>9. W(q) \in Seq(Unit) /\ W(k - 1) \in Seq(Unit) /\ W(k) \in Seq(Unit)
    BY <1>1, <2>8
  <2>10. Beginning(W(q), W(k))
    BY <2>6, <2>7, <2>9, BeginningTransitive
  <2> QED
    BY <2>2, <2>10
<1>4. n \in q .. n
  OBVIOUS
<1> QED
  BY <1>3, <1>4 DEF W

\* None of the n units after the first q is dropped.
Solid(mode, wire, q, n) ==
  /\ wire \in Seq(Unit) /\ q \in Nat /\ n \in Nat /\ q + n <= Len(wire)
  /\ \A i \in q + 1 .. q + n : mode # "netascii" \/ wire[i] # CR

\* They are known as they are.
SolidKnown(mode, wire, q, n) ==
  Known(mode, Upto(wire, q + n)) =
    Known(mode, Upto(wire, q)) \o SubSeq(wire, q + 1, q + n)

\* Units none of which is dropped are stored as they travel.
LEMMA KnownRun ==
  ASSUME NEW mode, NEW wire, NEW q, NEW n, Solid(mode, wire, q, n)
  PROVE  SolidKnown(mode, wire, q, n)
<1> SUFFICES ASSUME wire \in Seq(Unit), q \in Nat, n \in Nat, q + n <= Len(wire),
                    \A i \in q + 1 .. q + n : mode # "netascii" \/ wire[i] # CR
             PROVE  Known(mode, Upto(wire, q + n)) =
                      Known(mode, Upto(wire, q)) \o SubSeq(wire, q + 1, q + n)
  BY DEF Solid, SolidKnown
<1> DEFINE W(k) == Known(mode, Upto(wire, k))
           R(k) == SubSeq(wire, q + 1, k)
           Bad == {k \in q .. q + n : W(k) # W(q) \o R(k)}
<1>0. Len(wire) \in Nat
  BY LenProperties
<1>1. \A k \in q .. q + n : R(k) \in Seq(Unit) /\ (k = q => R(k) = <<>>)
  <2> SUFFICES ASSUME NEW k \in q .. q + n
               PROVE  R(k) \in Seq(Unit) /\ (k = q => R(k) = <<>>)
    OBVIOUS
  <2>1. q + 1 \in Nat \ {0} /\ k \in Int /\ k <= Len(wire) /\ (k = q => k < q + 1)
    BY <1>0
  <2> QED
    BY <2>1, PartType, SubSeqEmpty
<1>2. \A k \in q .. q + n : W(k) \in Seq(Unit)
  <2>1. \A k \in q .. q + n : k \in 0 .. Len(wire)
    BY <1>0
  <2> QED
    BY <2>1, UptoType, KnownType
<1>3. \A k \in q + 1 .. q + n :
        /\ W(k) = W(k - 1) \o <<wire[k]>> /\ R(k) = R(k - 1) \o <<wire[k]>>
        /\ wire[k] \in Unit
  <2> SUFFICES ASSUME NEW k \in q + 1 .. q + n
               PROVE  /\ W(k) = W(k - 1) \o <<wire[k]>>
                      /\ R(k) = R(k - 1) \o <<wire[k]>>
                      /\ wire[k] \in Unit
    OBVIOUS
  <2>1. /\ k - 1 \in Nat /\ k - 1 < Len(wire) /\ k - 1 + 1 = k
        /\ k \in 1 .. Len(wire) /\ q + 1 \in 1 .. Len(wire)
        /\ k \in q + 1 .. Len(wire)
    BY <1>0
  <2>2. Known(mode, Upto(wire, k - 1 + 1)) =
          Known(mode, Upto(wire, k - 1)) \o Kernel(mode, wire[k - 1 + 1])
    BY <2>1, KnownNext
  <2>3. W(k) = W(k - 1) \o Kernel(mode, wire[k])
    BY <2>1, <2>2
  <2>4. Kernel(mode, wire[k]) = <<wire[k]>>
    BY DEF Kernel
  <2> QED
    BY <2>1, <2>3, <2>4, SubSeqRecursiveSecond, ElementOfSeq
<1> HIDE DEF W, R
<1>4. Bad = {}
  <2> SUFFICES ASSUME Bad # {} PROVE FALSE
    OBVIOUS
  <2>1. PICK k \in Bad : \A i \in Bad : k <= i
    <3> HIDE DEF Bad
    <3>1. Bad \in SUBSET Nat
      BY DEF Bad
    <3> QED
      BY <3>1, LeastElement
  <2>2. k \in q .. q + n /\ W(k) # W(q) \o R(k)
    BY <2>1
  <2>3. q \in q .. q + n
    OBVIOUS
  <2>4. W(q) \o R(q) = W(q)
    BY <1>1, <1>2, <2>3, ConcatEmptySeq
  <2>5. k # q
    BY <2>2, <2>4
  <2>6. k \in q + 1 .. q + n /\ k - 1 \in q .. q + n /\ k - 1 < k
    BY <2>2, <2>5
  <2>7. k - 1 \notin Bad
    BY <2>1, <2>6
  <2>8. W(k - 1) = W(q) \o R(k - 1)
    BY <2>6, <2>7
  <2>9. /\ W(k) = W(k - 1) \o <<wire[k]>> /\ R(k) = R(k - 1) \o <<wire[k]>>
        /\ <<wire[k]>> \in Seq(Unit)
    <3>1. /\ W(k) = W(k - 1) \o <<wire[k]>> /\ R(k) = R(k - 1) \o <<wire[k]>>
          /\ wire[k] \in Unit
      BY <1>3, <2>6, Zenon
    <3>2. <<wire[k]>> \in Seq(Unit)
      BY <3>1
    <3> QED
      BY <3>1, <3>2
  <2>10. W(q) \in Seq(Unit) /\ R(k - 1) \in Seq(Unit)
    BY <1>1, <1>2, <2>3, <2>6
  <2>11. (W(q) \o R(k - 1)) \o <<wire[k]>> = W(q) \o (R(k - 1) \o <<wire[k]>>)
    BY <2>9, <2>10, Associative
  <2> QED
    BY <2>2, <2>8, <2>9, <2>11
<1>5. q + n \in q .. q + n
  OBVIOUS
<1> QED
  BY <1>4, <1>5 DEF W, R

\* A text without CR.
Clean(mode, text) ==
  text \in Seq(Unit) /\ (mode = "netascii" => \A i \in 1 .. Len(text) : text[i] # CR)

\* From its wire form such a text is known again.
LEMMA KnownWire ==
  ASSUME NEW mode, NEW text, Clean(mode, text)
  PROVE  Known(mode, Wire(mode, text)) = text
<1> DEFINE W(k) == Wire(mode, Upto(text, k))
           n == Len(text)
           Bad == {k \in 0 .. n : Known(mode, W(k)) # Upto(text, k)}
<1>1. /\ text \in Seq(Unit) /\ n \in Nat
      /\ mode = "netascii" => \A i \in 1 .. n : text[i] # CR
  BY LenProperties DEF Clean
<1>2. Upto(text, n) = text /\ Upto(text, 0) = <<>>
  BY <1>1, UptoAll, SubSeqEmpty DEF Upto
<1>3. CR \in Unit /\ LF \in Unit /\ CR # LF
  BY BufferAssumption
<1>4. \A k \in 0 .. n : W(k) \in Seq(Unit) /\ Upto(text, k) \in Seq(Unit)
  BY <1>1, UptoType, WireType
<1>5. W(0) = <<>>
  <2> DEFINE p == [i \in 1 .. Len(<<>>) |->
                     IF <<>>[i] = LF THEN <<CR, LF>> ELSE <<<<>>[i]>>]
  <2>1. Len(<<>>) = 0 /\ <<>> \in Seq(Unit)
    BY EmptySeq
  <2>2. p = <<>>
    BY <2>1
  <2> HIDE DEF p
  <2>3. FlattenSeq(p) = p
    BY <2>1, <2>2 DEF FlattenSeq
  <2>4. Wire(mode, <<>>) = IF mode = "netascii" THEN FlattenSeq(p) ELSE <<>>
    BY DEF Wire, p
  <2> QED
    BY <1>2, <2>2, <2>3, <2>4
<1>6. ASSUME NEW k \in Nat, k < n, Known(mode, W(k)) = Upto(text, k)
      PROVE  Known(mode, W(k + 1)) = Upto(text, k + 1)
  <2> DEFINE r == k + 1
             u == text[r]
             w == W(k)
             s == Upto(text, k)
  <2>1. k \in 0 .. n /\ r \in 1 .. n /\ r \in 0 .. n
    BY <1>1, <1>6
  <2>2. W(r) = w \o Piece(mode, u)
    BY <1>1, <1>6, WireNext
  <2>3. u \in Unit /\ s \in Seq(Unit) /\ Upto(text, r) = Append(s, u)
    BY <1>1, <1>6, UptoNext
  <2>4. w \in Seq(Unit) /\ Known(mode, w) = s
    BY <1>4, <1>6, <2>1
  <2>5. mode = "netascii" => u # CR
    BY <1>1, <2>1
  <2> HIDE DEF u, w, s, W, r
  <2>6. Append(s, u) = s \o <<u>>
    BY <2>3, AppendIsConcat
  <2>7. Append(w, u) = w \o <<u>> /\ Kernel(mode, u) = <<u>>
    BY <2>3, <2>4, <2>5, AppendIsConcat DEF Kernel
  <2>8. Known(mode, w \o <<u>>) = s \o <<u>>
    BY <2>3, <2>4, <2>7, KnownAppend
  <2>9. CASE mode = "netascii" /\ u = LF
    <3> DEFINE v == Append(w, CR)
    <3>1. Piece(mode, u) = <<CR, LF>>
      BY <2>9 DEF Piece
    <3>2. v \in Seq(Unit) /\ v = w \o <<CR>>
      BY <1>3, <2>4, AppendProperties, AppendIsConcat
    <3>3. Known(mode, v) = s \o Kernel(mode, CR)
      BY <1>3, <2>4, KnownAppend
    <3>4. Kernel(mode, CR) = <<>> /\ s \o <<>> = s
      BY <2>3, <2>9, ConcatEmptySeq DEF Kernel
    <3> HIDE DEF v
    <3>5. Known(mode, Append(v, LF)) = s \o Kernel(mode, LF)
      BY <1>3, <3>2, <3>3, <3>4, KnownAppend
    <3>6. Append(v, LF) = v \o <<LF>>
      BY <1>3, <3>2, AppendIsConcat
    <3>7. v \o <<LF>> = w \o <<CR, LF>>
      <4>1. <<CR>> \in Seq(Unit) /\ <<LF>> \in Seq(Unit)
            /\ <<CR, LF>> = <<CR>> \o <<LF>>
        BY LineEnd
      <4> DEFINE a == <<CR>>
                 b == <<LF>>
      <4>2. a \in Seq(Unit) /\ b \in Seq(Unit)
        BY <4>1
      <4> HIDE DEF a, b
      <4>3. (w \o a) \o b = w \o (a \o b)
        BY <2>4, <4>2, Associative
      <4> QED
        BY <3>2, <4>1, <4>3 DEF a, b
    <3> QED
      BY <2>2, <2>3, <2>6, <2>7, <2>9, <3>1, <3>5, <3>6, <3>7 DEF r
  <2>10. CASE ~(mode = "netascii" /\ u = LF)
    <3>1. Piece(mode, u) = <<u>>
      BY <2>10 DEF Piece
    <3> QED
      BY <2>2, <2>3, <2>6, <2>8, <3>1 DEF r
  <2> QED
    BY <2>9, <2>10
<1> HIDE DEF W
<1>7. Bad = {}
  <2> SUFFICES ASSUME Bad # {} PROVE FALSE
    OBVIOUS
  <2>1. PICK k \in Bad : \A i \in Bad : k <= i
    <3> HIDE DEF Bad
    <3>1. Bad \in SUBSET Nat
      BY DEF Bad
    <3> QED
      BY <3>1, LeastElement
  <2>2. k \in 0 .. n /\ Known(mode, W(k)) # Upto(text, k)
    BY <2>1
  <2>3. Known(mode, W(0)) = Upto(text, 0)
    BY <1>2, <1>5, KnownNone
  <2>4. k # 0
    BY <2>2, <2>3
  <2> DEFINE j == k - 1
  <2>5. j \in Nat /\ j < n /\ j + 1 = k /\ j \in 0 .. n /\ j < k
    BY <1>1, <2>2, <2>4
  <2> HIDE DEF j
  <2>6. j \notin Bad
    BY <1>1, <2>1, <2>2, <2>5
  <2>7. Known(mode, W(j)) = Upto(text, j)
    BY <2>5, <2>6
  <2>8. Known(mode, W(j + 1)) = Upto(text, j + 1)
    BY <1>6, <2>5, <2>7
  <2> QED
    BY <2>2, <2>5, <2>8
<1>8. n \in 0 .. n
  BY <1>1
<1>9. Known(mode, W(n)) = Upto(text, n)
  BY <1>7, <1>8
<1> QED
  BY <1>2, <1>9 DEF W

\* What is known from a beginning of the wire form is a beginning of the text.
LEMMA KnownOfWire ==
  ASSUME NEW mode, NEW text, Clean(mode, text),
         NEW wire, wire = Wire(mode, text), NEW g \in 0 .. Len(wire)
  PROVE  /\ Known(mode, Upto(wire, g)) \in Seq(Unit)
         /\ Beginning(Known(mode, Upto(wire, g)), text)
         /\ g = Len(wire) => Known(mode, Upto(wire, g)) = text
<1> DEFINE n == Len(wire)
<1>1. wire \in Seq(Unit) /\ n \in Nat
  BY WireType, LenProperties DEF Clean
<1>2. Upto(wire, n) = wire /\ Upto(wire, g) \in Seq(Unit)
  BY <1>1, UptoAll, UptoType
<1>3. Known(mode, Upto(wire, n)) = text
  BY <1>2, KnownWire
<1>4. g \in Nat /\ g <= n /\ n <= Len(wire)
  BY <1>1
<1> HIDE DEF n
<1>5. Beginning(Known(mode, Upto(wire, g)), Known(mode, Upto(wire, n)))
  BY <1>1, <1>4, KnownBeginning
<1> QED
  BY <1>2, <1>3, <1>5, KnownType DEF n

\* A piece buf of a text, after its first q units.
PieceAt(text, q, buf) ==
  /\ text \in Seq(Unit) /\ q \in Nat /\ buf \in Seq(Unit)
  /\ q + Len(buf) <= Len(text) /\ buf = SubSeq(text, q + 1, q + Len(buf))

\* Cut after its first j units.
CutAt(text, q, buf, j) ==
  /\ Upto(buf, j) = SubSeq(text, q + 1, q + j)
  /\ SubSeq(buf, j + 1, Len(buf)) = SubSeq(text, q + j + 1, q + Len(buf))
  /\ \A i \in 1 .. Len(buf) : buf[i] = text[q + i]

\* PartOfPart in these terms.
LEMMA PieceCut ==
  ASSUME NEW text, NEW q, NEW buf, PieceAt(text, q, buf), NEW j, j \in 0 .. Len(buf)
  PROVE  CutAt(text, q, buf, j)
<1>1. /\ text \in Seq(Unit) /\ q \in Nat /\ buf \in Seq(Unit)
      /\ q + Len(buf) <= Len(text) /\ buf = SubSeq(text, q + 1, q + Len(buf))
      /\ j \in 0 .. Len(buf)
  BY DEF PieceAt
<1>2. /\ Upto(buf, j) = SubSeq(text, q + 1, q + j)
      /\ SubSeq(buf, j + 1, Len(buf)) = SubSeq(text, q + j + 1, q + Len(buf))
      /\ \A i \in 1 .. Len(buf) : buf[i] = text[q + i]
  BY <1>1, PartOfPart
<1> QED
  BY <1>2 DEF CutAt

\* The units of a message that are not stored yet, from the wire.
Left(wire, g, end, data) ==
  /\ wire \in Seq(Unit) /\ g \in Nat /\ end \in Nat /\ g <= end /\ end <= Len(wire)
  /\ data = SubSeq(wire, g + 1, end)

\* A turn t took the wire from g to p, and what it kept is what became known.
Kept(mode, wire, g, end, data, t, p) ==
  /\ p = g + t.used
  /\ Left(wire, p, end, SubSeq(data, t.used + 1, Len(data)))
  /\ Known(mode, Upto(wire, p)) = Known(mode, Upto(wire, g)) \o t.kept

\* One turn of put_session_data before its save: nothing is skipped.
LEMMA GivenKnown ==
  ASSUME NEW x, x.sesbuf \in Seq(Unit), Len(x.sesbuf) <= BufSize,
         NEW wire, NEW g, NEW end, NEW data, Left(wire, g, end, data),
         NEW t, t = Given(x, data)
  PROVE  \E p \in Nat : Kept(x.tftpmode, wire, g, end, data, t, p)
<1> DEFINE m == x.tftpmode
           room == BufSize - Len(x.sesbuf)
           l == Len(data)
           p == g + t.used
           rest == SubSeq(data, t.used + 1, l)
           W(k) == Known(m, Upto(wire, k))
<1>1. /\ wire \in Seq(Unit) /\ g \in Nat /\ end \in Nat /\ g <= end
      /\ end <= Len(wire) /\ Len(wire) \in Nat /\ data = SubSeq(wire, g + 1, end)
  BY LenProperties DEF Left
<1>2. data \in Seq(Unit) /\ l = end - g /\ l \in Nat /\ g + l = end
  <2> DEFINE a == g + 1
  <2>1. a \in Nat \ {0} /\ end \in Int /\ end <= Len(wire)
    BY <1>1
  <2>2. data \in Seq(Unit) /\ Len(data) = IF a <= end THEN end - a + 1 ELSE 0
    BY <1>1, <2>1, PartType
  <2> QED
    BY <1>1, <2>2
<1>3. room \in Nat
  BY StoreAssumption, LenProperties
<1> HIDE DEF room, l
<1>4. \A j \in 0 .. l :
        /\ Upto(data, j) = SubSeq(wire, g + 1, g + j)
        /\ SubSeq(data, j + 1, l) = SubSeq(wire, g + j + 1, end)
        /\ \A i \in 1 .. l : data[i] = wire[g + i]
  <2>1. g + Len(data) <= Len(wire) /\ data = SubSeq(wire, g + 1, g + Len(data))
        /\ l = Len(data)
    BY <1>1, <1>2 DEF l
  <2> SUFFICES ASSUME NEW j \in 0 .. l
               PROVE  /\ Upto(data, j) = SubSeq(wire, g + 1, g + j)
                      /\ SubSeq(data, j + 1, l) = SubSeq(wire, g + j + 1, end)
                      /\ \A i \in 1 .. l : data[i] = wire[g + i]
    OBVIOUS
  <2>2. j \in 0 .. Len(data)
    BY <2>1
  <2>3. /\ Upto(data, j) = SubSeq(wire, g + 1, g + j)
        /\ SubSeq(data, j + 1, Len(data)) = SubSeq(wire, g + j + 1, g + Len(data))
        /\ \A i \in 1 .. Len(data) : data[i] = wire[g + i]
    <3>1. PieceAt(wire, g, data)
      BY <1>1, <1>2, <2>1 DEF PieceAt
    <3>2. CutAt(wire, g, data, j)
      BY <2>2, <3>1, PieceCut
    <3> QED
      BY <3>2 DEF CutAt
  <2> QED
    BY <1>2, <2>1, <2>3
<1>5. ASSUME NEW n \in 0 .. l,
             \A i \in 1 .. n : m # "netascii" \/ data[i] # CR
      PROVE  W(g + n) = W(g) \o Upto(data, n)
  <2>1. g + n <= Len(wire) /\ n \in Nat
    BY <1>1, <1>2
  <2>2. \A i \in g + 1 .. g + n : m # "netascii" \/ wire[i] # CR
    <3> SUFFICES ASSUME NEW i \in g + 1 .. g + n
                 PROVE  m # "netascii" \/ wire[i] # CR
      OBVIOUS
    <3> DEFINE j == i - g
    <3>1. j \in 1 .. n /\ j \in 1 .. l /\ g + j = i /\ n \in 0 .. l
      BY <1>1, <1>2
    <3> HIDE DEF j
    <3>2. data[j] = wire[i]
      BY <1>4, <3>1
    <3> QED
      BY <1>5, <3>1, <3>2
  <2>3. Solid(m, wire, g, n)
    BY <1>1, <2>1, <2>2 DEF Solid
  <2> HIDE DEF m
  <2>4. SolidKnown(m, wire, g, n)
    BY <2>3, KnownRun
  <2> QED
    BY <1>4, <2>4 DEF SolidKnown
<1>6. t.used \in 0 .. l
  <2>1. Given(x, data).used \in 0 .. Len(data)
    BY <1>2, GivenType
  <2> QED
    BY <2>1 DEF l
<1>7. p \in Nat /\ p <= end
  BY <1>1, <1>2, <1>6
<1>8. rest = SubSeq(wire, p + 1, end)
  BY <1>4, <1>6
<1>9. W(p) = W(g) \o t.kept
  <2>1. CASE m = "netascii"
    <3> DEFINE n == Before(data, CR, room)
    <3>1. t.kept = Upto(data, n) /\ t.used = IF n < room /\ n < l THEN n + 1 ELSE n
      BY <2>1 DEF Given, netascii_to_local, room, l
    <3>2. n \in 0 .. room /\ n <= l
      BY <1>2, <1>3, BeforeRange DEF l
    <3>3. /\ \A j \in 1 .. n : data[j] # CR
          /\ n < room /\ n < l => data[n + 1] = CR
      BY <1>2, <1>3, BeforeIs DEF l
    <3> HIDE DEF n
    <3>4. n \in 0 .. l
      BY <3>2
    <3>5. W(g + n) = W(g) \o Upto(data, n)
      BY <1>5, <3>3, <3>4
    <3>6. CASE n < room /\ n < l
      <4> DEFINE q == g + n
      <4>1. q \in Nat /\ q < Len(wire) /\ q + 1 = p /\ n + 1 \in 1 .. l /\ g + (n + 1) = q + 1
        <5> DEFINE w == Len(wire)
                   i == t.used
        <5>1. n \in Nat /\ g \in Nat /\ l \in Nat /\ end \in Nat /\ w \in Nat
              /\ n < l /\ g + l = end /\ end <= w /\ i = n + 1 /\ p = g + i
          BY <1>1, <1>2, <3>1, <3>4, <3>6
        <5> HIDE DEF w, i, p
        <5>2. q \in Nat /\ q < w /\ q + 1 = p /\ n + 1 \in 1 .. l /\ g + (n + 1) = q + 1
          BY <5>1
        <5> QED
          BY <5>2 DEF w
      <4>2. wire[q + 1] = CR
        BY <1>4, <3>3, <3>4, <3>6, <4>1
      <4>3. Upto(wire, q) \in Seq(Unit)
        BY <1>1, <4>1, UptoType
      <4> HIDE DEF q, m
      <4>4. Known(m, Upto(wire, q + 1)) = Known(m, Upto(wire, q)) \o Kernel(m, wire[q + 1])
        BY <1>1, <4>1, KnownNext
      <4>5. Kernel(m, wire[q + 1]) = <<>>
        BY <2>1, <4>2 DEF Kernel
      <4>6. Known(m, Upto(wire, q)) \o <<>> = Known(m, Upto(wire, q))
        BY <4>3, KnownType, ConcatEmptySeq
      <4>7. W(p) = W(q)
        BY <4>1, <4>4, <4>5, <4>6
      <4> HIDE DEF W
      <4> QED
        BY <3>1, <3>5, <4>7 DEF q
    <3>7. CASE ~(n < room /\ n < l)
      <4>1. t.used = n
        BY <3>1, <3>7
      <4> HIDE DEF W
      <4> QED
        BY <3>1, <3>5, <4>1
    <3> QED
      BY <3>6, <3>7
  <2>2. CASE m # "netascii"
    <3> DEFINE n == Min({Len(data), room})
    <3>1. t.kept = Upto(data, n) /\ t.used = n
      BY <2>2 DEF Given, room
    <3> HIDE DEF n, W
    <3> QED
      BY <1>5, <1>6, <2>2, <3>1
  <2> QED
    BY <2>1, <2>2
<1>10. Left(wire, p, end, rest)
  BY <1>1, <1>7, <1>8 DEF Left
<1>11. Kept(m, wire, g, end, data, t, p)
  BY <1>9, <1>10 DEF Kept, l
<1> QED
  BY <1>7, <1>11

----------------------------------------------------------------------------
(***************************************************************************)
(* Where an upload is: in the file, in the stream's buffer, or closed      *)
(***************************************************************************)

\* The writer under <<id, f>>: its file and its buffer hold u.
Streaming(s, id, f, u) ==
  \E d \in get_dsession(s, id, f) : d.mode = "w" /\ s.files[f] \o d.wbuf = u

\* File f holds u, and nobody writes it.
Closed(s, f, u) ==
  /\ f \in DOMAIN s.files /\ s.files[f] = u
  /\ \A d \in s.dhead : ~(d.filename = f /\ d.mode = "w")

\* The stream <<id, f>> is closed; of u the disk has a beginning, or all.
Landed(s, id, f, u) ==
  /\ get_dsession(s, id, f) = {}
  /\ \E w \in Seq(Unit) :
       Beginning(w, u) /\ (~IoFaults => w = u) /\ Closed(s, f, w)

\* What is cut into w and z can be put behind u in two steps.
Rejoins(u, w, z) == (u \o w) \o z = u \o (w \o z)

\* A beginning w of a sequence, put behind u and followed by the rest z of it.
LEMMA Rejoined ==
  ASSUME NEW u \in Seq(Unit), NEW w \in Seq(Unit), NEW z \in Seq(Unit)
  PROVE  Rejoins(u, w, z)
BY Associative DEF Rejoins

\* Any part of a buffer that lands is a beginning of it.
LEMMA LandingIs ==
  ASSUME NEW u \in Seq(Unit), NEW v \in Seq(Unit), NEW w \in Landing(v)
  PROVE  /\ w \in Seq(Unit) /\ u \o w \in Seq(Unit) /\ u \o v \in Seq(Unit)
         /\ Beginning(u \o w, u \o v)
         /\ ~IoFaults => w = v
<1>1. w \in Seq(Unit)
  BY LandingType
<1>2. PICK n \in 0 .. Len(v) : w = Upto(v, n)
  <2>1. Len(v) \in 0 .. Len(v)
    BY LenProperties
  <2> QED
    BY <2>1 DEF Landing
<1> DEFINE z == SubSeq(v, n + 1, Len(v))
<1>3. z \in Seq(Unit) /\ w \o z = v
  BY <1>2, UptoSplit
<1> HIDE DEF z
<1>4. (u \o w) \o z = u \o v
  <2>1. Rejoins(u, w, z)
    BY <1>1, <1>3, Rejoined
  <2> QED
    BY <1>3, <2>1 DEF Rejoins
<1>5. u \o w \in Seq(Unit) /\ u \o v \in Seq(Unit)
  BY <1>1, UptoConcat
<1>6. Beginning(u \o w, (u \o w) \o z)
  BY <1>3, <1>5, BeginningConcat
<1>7. ~IoFaults => w = v
  BY LandingAll
<1> QED
  BY <1>1, <1>4, <1>5, <1>6, <1>7

\* Once d is dropped nobody writes its file, and its key is free.
LEMMA DropCloses ==
  ASSUME NEW s, NEW d, Fits(s, d), NEW t, t.dhead = s.dhead \ {d}
  PROVE  /\ get_dsession(t, d.clid, d.filename) = {}
         /\ d.mode = "w" =>
              \A e \in t.dhead : ~(e.filename = d.filename /\ e.mode = "w")
BY DEF Fits, get_dsession

\* del_dsession closes a writer.
LEMMA DelLands ==
  ASSUME NEW s, StoreSound(s), NEW d, Fits(s, d), d.mode = "w",
         NEW t \in del_dsession(s, d)
  PROVE  Landed(t, d.clid, d.filename, s.files[d.filename] \o d.wbuf)
<1> DEFINE f == d.filename
           u == s.files[f]
<1>1. d.wbuf \in Seq(Unit) /\ f \in DOMAIN s.files /\ u \in Seq(Unit)
  BY DEF Fits, DSession, StoreSound, IsStore, IsFiles
<1>2. PICK w \in Landing(d.wbuf) :
        t = [files |-> Append2(s, f, w).files, dhead |-> s.dhead \ {d}]
  BY DEF del_dsession
<1>3. /\ w \in Seq(Unit) /\ u \o w \in Seq(Unit)
      /\ Beginning(u \o w, u \o d.wbuf) /\ (~IoFaults => w = d.wbuf)
  BY <1>1, LandingIs
<1>4. Append2(s, f, w).files[f] = u \o w
      /\ DOMAIN Append2(s, f, w).files = DOMAIN s.files
  <2>1. Append2(s, f, w).files[f] = s.files[f] \o w
    BY <1>1, <1>3, AppendFile
  <2>2. DOMAIN Append2(s, f, w).files = DOMAIN s.files
    BY <1>1, <1>3, AppendKeeps
  <2> QED
    BY <2>1, <2>2
<1>5. t.files[f] = u \o w /\ f \in DOMAIN t.files /\ t.dhead = s.dhead \ {d}
  BY <1>1, <1>2, <1>4
<1>6. /\ get_dsession(t, d.clid, f) = {}
      /\ \A e \in t.dhead : ~(e.filename = f /\ e.mode = "w")
  BY <1>5, DropCloses
<1>7. Closed(t, f, u \o w)
  BY <1>5, <1>6 DEF Closed
<1> QED
  BY <1>3, <1>6, <1>7 DEF Landed

\* What fwrite did with data, so that u is what was and is to be stored.
Streamed(r, id, f, u, data) ==
  /\ r.derr = "OK"
  /\ \/ data # <<>> /\ r.len = Len(data) /\ Streaming(r.ds, id, f, u)
     \/ /\ r.len = 0 /\ Landed(r.ds, id, f, u)
        /\ data = <<>> \/ IoFaults

\* fwrite to a writer takes all; or, on a faulty disk, the stream is closed.
LEMMA FwriteLands ==
  ASSUME NEW s, StoreSound(s), NEW d, Fits(s, d), d.mode = "w",
         NEW data \in Seq(Unit), data # <<>>, NEW r \in Fwrite(s, d, data)
  PROVE  Streamed(r, d.clid, d.filename, (s.files[d.filename] \o d.wbuf) \o data, data)
<1> DEFINE f == d.filename
           u == s.files[f]
           all == d.wbuf \o data
           n == Len(all) - (Len(all) % StdioBlock)
           rest == SubSeq(all, n + 1, Len(all))
           e == [d EXCEPT !.wbuf = rest]
           t == Replaced(s, d, e)
           cut == [files |-> s.files, dhead |-> s.dhead \ {d}]
<1>1. /\ d \in DSession /\ d.wbuf \in Seq(Unit) /\ f \in DOMAIN s.files
      /\ u \in Seq(Unit)
  BY DEF Fits, DSession, StoreSound, IsStore, IsFiles
<1>2. all \in Seq(Unit) /\ Len(all) \in Nat /\ (u \o d.wbuf) \o data = u \o all
  BY <1>1, UptoConcat, LenProperties, Associative
<1>3. \/ r = [ds |-> Append2(t, f, Upto(all, n)), len |-> Len(data), derr |-> "OK"]
      \/ /\ IoFaults
         /\ \E w \in Landing(all) :
              r = [ds |-> Append2(cut, f, w), len |-> 0, derr |-> "OK"]
  BY DEF Fwrite
<1>4. n \in 0 .. Len(all)
  <2>1. Len(all) % StdioBlock \in 0 .. Len(all)
    BY <1>2, StoreAssumption, RemBound
  <2> QED
    BY <1>2, <2>1
<1> HIDE DEF all, n
<1>5. rest \in Seq(Unit) /\ Upto(all, n) \in Seq(Unit) /\ Upto(all, n) \o rest = all
  BY <1>2, <1>4, UptoSplit
<1> HIDE DEF rest
<1>6. /\ e \in DSession /\ e.clid = d.clid /\ e.filename = f /\ e.mode = "w"
      /\ e.wbuf = rest
  BY <1>1, <1>5, Rebuffered
<1> HIDE DEF e
<1>7. t = [files |-> s.files, dhead |-> (s.dhead \ {d}) \cup {e}]
  BY DEF Replaced
<1>8. CASE r = [ds |-> Append2(t, f, Upto(all, n)), len |-> Len(data), derr |-> "OK"]
  <2> HIDE DEF t
  <2>1. StoreSound(t) /\ f \in DOMAIN t.files /\ t.files[f] = u
    <3>1. StoreSound(t)
      BY <1>6, <1>7, ReplaceKeeps
    <3> QED
      BY <1>1, <1>7, <3>1
  <2>2. /\ Append2(t, f, Upto(all, n)).files[f] = u \o Upto(all, n)
        /\ Append2(t, f, Upto(all, n)).dhead = t.dhead
    <3> DEFINE v == Upto(all, n)
    <3>1. v \in Seq(Unit)
      BY <1>5
    <3> HIDE DEF v
    <3>2. /\ Append2(t, f, v).files[f] = t.files[f] \o v
          /\ Append2(t, f, v).dhead = t.dhead
      BY <2>1, <3>1, AppendFile
    <3> QED
      BY <2>1, <3>2 DEF v
  <2>3. r.ds.files[f] = u \o Upto(all, n) /\ e \in r.ds.dhead
    <3> DEFINE b == Append2(t, f, Upto(all, n))
    <3>1. r.ds = b
      BY <1>8
    <3>2. e \in t.dhead
      BY <1>7
    <3>3. b.files[f] = u \o Upto(all, n) /\ b.dhead = t.dhead
      BY <2>2
    <3> HIDE DEF b
    <3> QED
      BY <3>1, <3>2, <3>3
  <2>4. (u \o Upto(all, n)) \o rest = u \o all
    <3> DEFINE v == Upto(all, n)
    <3>1. v \in Seq(Unit) /\ v \o rest = all
      BY <1>5
    <3> HIDE DEF v
    <3>2. u \in Seq(Unit) /\ rest \in Seq(Unit)
      BY <1>1, <1>5
    <3> HIDE DEF u, rest
    <3>3. Rejoins(u, v, rest)
      BY <3>1, <3>2, Rejoined
    <3> QED
      BY <3>1, <3>3 DEF Rejoins, v
  <2>5. e \in get_dsession(r.ds, d.clid, f)
    BY <1>6, <2>3 DEF get_dsession
  <2>6. Streaming(r.ds, d.clid, f, u \o all)
    <3>1. r.ds.files[f] \o e.wbuf = u \o all
      BY <1>6, <2>3, <2>4
    <3>2. e \in get_dsession(r.ds, d.clid, f) /\ e.mode = "w"
      BY <1>6, <2>5
    <3> HIDE DEF f, u
    <3> QED
      BY <3>1, <3>2, Zenon DEF Streaming
  <2> QED
    BY <1>2, <1>8, <2>6 DEF Streamed
<1>9. CASE /\ IoFaults
           /\ \E w \in Landing(all) :
                r = [ds |-> Append2(cut, f, w), len |-> 0, derr |-> "OK"]
  <2>1. PICK w \in Landing(all) :
          r = [ds |-> Append2(cut, f, w), len |-> 0, derr |-> "OK"]
    BY <1>9
  <2>2. w \in Seq(Unit) /\ u \o w \in Seq(Unit) /\ Beginning(u \o w, u \o all)
    BY <1>1, <1>2, LandingIs
  <2>3. StoreSound(cut) /\ f \in DOMAIN cut.files /\ cut.files[f] = u
        /\ cut.dhead = s.dhead \ {d}
    BY <1>1, DropKeeps
  <2> HIDE DEF cut
  <2>4. /\ Append2(cut, f, w).files[f] = u \o w
        /\ DOMAIN Append2(cut, f, w).files = DOMAIN cut.files
        /\ Append2(cut, f, w).dhead = cut.dhead
    <3>1. DOMAIN Append2(cut, f, w).files = DOMAIN cut.files
      BY <2>2, <2>3, AppendKeeps
    <3>2. /\ Append2(cut, f, w).files[f] = cut.files[f] \o w
          /\ Append2(cut, f, w).dhead = cut.dhead
      <4> DEFINE g == f
      <4>1. w \in Seq(Unit) /\ StoreSound(cut) /\ g \in DOMAIN cut.files
        BY <2>2, <2>3
      <4> HIDE DEF g, all
      <4>2. /\ Append2(cut, g, w).files[g] = cut.files[g] \o w
            /\ Append2(cut, g, w).dhead = cut.dhead
        BY <4>1, AppendFile
      <4> QED
        BY <4>2 DEF g
    <3> QED
      BY <2>3, <3>1, <3>2
  <2>5. r.ds.files[f] = u \o w /\ f \in DOMAIN r.ds.files /\ r.ds.dhead = s.dhead \ {d}
    BY <2>1, <2>3, <2>4
  <2>6. /\ get_dsession(r.ds, d.clid, f) = {}
        /\ \A x \in r.ds.dhead : ~(x.filename = f /\ x.mode = "w")
    BY <2>5, DropCloses
  <2>7. Landed(r.ds, d.clid, f, u \o all)
    BY <1>9, <2>2, <2>5, <2>6 DEF Landed, Closed
  <2> QED
    BY <1>2, <1>9, <2>1, <2>7 DEF Streamed
<1> QED
  BY <1>3, <1>8, <1>9

\* A call that works on a writer.
LEMMA StreamLands ==
  ASSUME NEW s, StoreSound(s), NEW d, Fits(s, d), d.mode = "w",
         NEW data \in Seq(Unit), NEW r, Took(s, d, data, r)
  PROVE  Streamed(r, d.clid, d.filename, (s.files[d.filename] \o d.wbuf) \o data, data)
<1> DEFINE u == s.files[d.filename] \o d.wbuf
<1>1. u \in Seq(Unit)
  <2>1. s.files[d.filename] \in Seq(Unit) /\ d.wbuf \in Seq(Unit)
    BY DEF Fits, DSession, StoreSound, IsStore, IsFiles
  <2> QED
    BY <2>1, UptoConcat
<1>2. CASE data = <<>> /\ r.derr = "OK" /\ r.len = 0 /\ r.ds \in del_dsession(s, d)
  <2>1. Landed(r.ds, d.clid, d.filename, u)
    BY <1>2, DelLands
  <2>2. u \o data = u
    BY <1>1, <1>2, ConcatEmptySeq
  <2> QED
    BY <1>2, <2>1, <2>2 DEF Streamed
<1>3. CASE data # <<>> /\ r \in Fwrite(s, d, data)
  BY <1>3, FwriteLands
<1> QED
  BY <1>2, <1>3 DEF Took

\* What was stored under <<id, f>> so far is o.
Written(s, id, f, o) ==
  /\ o \in Seq(Unit)
  /\ get_dsession(s, id, f) = {} => o = <<>>
  /\ get_dsession(s, id, f) # {} => Streaming(s, id, f, o)

\* Why a write is rejected.
Barred(s, id, f, free) ==
  /\ get_dsession(s, id, f) = {}
  /\ f \in DOMAIN s.files \/ f \in Unopenable \/ free = {}

\* A write that is not rejected has its stream, or can open it.
Creates(s, id, f) ==
  get_dsession(s, id, f) = {} => f \notin DOMAIN s.files /\ f \notin Unopenable

\* iwds_write of a session that stored o so far.
LEMMA WriteLands ==
  ASSUME NEW s, StoreSound(s), NEW id \in Int, NEW f \in File,
         NEW data \in Seq(Unit), NEW free \in SUBSET Descriptor,
         NEW o, Written(s, id, f, o),
         NEW r \in iwds_write(s, id, f, data, free)
  PROVE  \/ r.ds = s /\ r.derr # "OK" /\ Barred(s, id, f, free)
         \/ /\ Creates(s, id, f)
            /\ Streamed(r, id, f, o \o data, data)
<1> DEFINE S == get_dsession(s, id, f)
           opened == Created(s, f)
<1>1. CASE S # {}
  <2>1. PICK d \in S : d.mode = "w" /\ s.files[f] \o d.wbuf = o
    BY <1>1 DEF Written, Streaming
  <2>2. d \in s.dhead /\ d.clid = id /\ d.filename = f /\ S = {d}
    BY <2>1 DEF get_dsession, StoreSound, OneDsession
  <2>3. Took(s, d, data, r)
    <3>1. /\ S # {}
          /\ r \in IF data = <<>>
                   THEN {[ds |-> v, len |-> 0, derr |-> "OK"] :
                           v \in UNION {del_dsession(s, e) : e \in S}}
                   ELSE UNION {Fwrite(s, e, data) : e \in S}
      BY <1>1 DEF iwds_write
    <3> HIDE DEF S
    <3>2. CASE data = <<>>
      BY <2>2, <3>1, <3>2 DEF Took
    <3>3. CASE data # <<>>
      BY <2>2, <3>1, <3>3 DEF Took
    <3> QED
      BY <3>2, <3>3
  <2>4. Fits(s, d)
    BY <2>2, FitsOld
  <2>5. Streamed(r, d.clid, d.filename, (s.files[d.filename] \o d.wbuf) \o data, data)
    BY <2>1, <2>3, <2>4, StreamLands
  <2> QED
    BY <1>1, <2>1, <2>2, <2>5 DEF Creates
<1>2. CASE S = {} /\ f \in DOMAIN s.files
  <2>1. r = [ds |-> s, len |-> 0, derr |-> "NOTPERMIT"]
    BY <1>2 DEF iwds_write, is_dsfile
  <2> QED
    BY <1>2, <2>1 DEF Barred
<1>3. CASE S = {} /\ f \notin DOMAIN s.files
  <2> DEFINE N == create_dsession(id, f, "w", free)
  <2>1. CASE N = {}
    <3>1. r = [ds |-> s, len |-> 0, derr |-> "NOSESSION"]
      BY <1>3, <2>1 DEF iwds_write, is_dsfile
    <3>2. f \in Unopenable \/ free = {}
      <4> SUFFICES ASSUME f \notin Unopenable, free # {} PROVE FALSE
        OBVIOUS
      <4>1. free \in SUBSET Nat
        BY StoreAssumption
      <4>2. PICK n \in free : \A m \in free : n <= m
        BY <4>1, LeastElement
      <4>3. n \in Lowest(free)
        BY <4>2 DEF Lowest
      <4> QED
        BY <2>1, <4>3 DEF create_dsession
    <3> QED
      BY <1>3, <3>1, <3>2 DEF Barred
  <2>2. CASE N # {}
    <3>1. \E d \in N : Took(opened, d, data, r)
      <4>1. r \in IF data = <<>>
                  THEN {[ds |-> v, len |-> 0, derr |-> "OK"] :
                          v \in UNION {del_dsession(opened, e) : e \in N}}
                  ELSE UNION {Fwrite(opened, e, data) : e \in N}
        BY <1>3, <2>2 DEF iwds_write, is_dsfile
      <4> HIDE DEF N, opened
      <4>2. CASE data = <<>>
        BY <4>1, <4>2 DEF Took
      <4>3. CASE data # <<>>
        BY <4>1, <4>3 DEF Took
      <4> QED
        BY <4>2, <4>3
    <3>2. PICK d \in N : Took(opened, d, data, r)
      BY <3>1
    <3>3. d.clid = id /\ d.filename = f /\ d.mode = "w" /\ d.wbuf = <<>>
      BY CreateType
    <3>4. opened = [files |-> Put(s.files, f, <<>>), dhead |-> s.dhead]
      BY DEF Created
    <3>5. StoreSound(opened) /\ Fits(opened, d)
      BY <1>3, <3>2, <3>4, FitsNewWriter
    <3>6. opened.files[f] = <<>>
      BY <3>4 DEF Put
    <3>7. <<>> \o <<>> = <<>> /\ o = <<>>
      BY <1>3, EmptySeq, ConcatEmptySeq DEF Written
    <3> HIDE DEF opened
    <3>8. Streamed(r, d.clid, d.filename,
                   (opened.files[d.filename] \o d.wbuf) \o data, data)
      BY <3>2, <3>3, <3>5, StreamLands
    <3>9. f \notin Unopenable
      BY <2>2 DEF create_dsession
    <3> QED
      BY <1>3, <3>3, <3>6, <3>7, <3>8, <3>9 DEF Creates
  <2> QED
    BY <2>1, <2>2
<1> QED
  BY <1>1, <1>2, <1>3

\* What save_data did for session x, so that u is what was and is to be stored.
Savings(x, r, u) ==
  \/ /\ r.ok /\ r.ses = [x EXCEPT !.sesbuf = <<>>] /\ x.sesbuf # <<>>
     /\ Streaming(r.ds, x.clsock, x.filename, u)
  \/ /\ Landed(r.ds, x.clsock, x.filename, u)
     /\ \/ r.ok /\ r.ses = [x EXCEPT !.sesbuf = <<>>] /\ x.sesbuf = <<>>
        \/ ~r.ok /\ r.ses = x /\ IoFaults

\* save_data of a session that stored o so far.
LEMMA SaveLands ==
  ASSUME NEW s, StoreSound(s), NEW x, x.clsock \in Int, x.filename \in File,
         x.sesbuf \in Seq(Unit), NEW free \in SUBSET Descriptor,
         NEW o, Written(s, x.clsock, x.filename, o),
         NEW r \in save_data(s, x, free)
  PROVE  \/ /\ ~r.ok /\ r.ses = x /\ r.ds = s
            /\ Barred(s, x.clsock, x.filename, free)
         \/ /\ Creates(s, x.clsock, x.filename)
            /\ Savings(x, r, o \o x.sesbuf)
<1> DEFINE f == x.filename
           id == x.clsock
           data == x.sesbuf
<1>1. PICK q \in iwds_write(s, id, f, data, free) :
        r \in IF q.derr = "OK" /\ q.len = Len(data)
              THEN {[ds |-> q.ds, ses |-> [x EXCEPT !.sesbuf = <<>>], ok |-> TRUE]}
              ELSE {[ds |-> t, ses |-> x, ok |-> FALSE] : t \in close_data(q.ds, x)}
  BY DEF save_data
<1>2. ASSUME get_dsession(q.ds, id, f) = {}, ~(q.derr = "OK" /\ q.len = Len(data))
      PROVE  r.ds = q.ds /\ r.ses = x /\ ~r.ok
  <2>1. close_data(q.ds, x) = {q.ds}
    BY <1>2 DEF close_data, iwds_close
  <2> QED
    BY <1>1, <1>2, <2>1
<1>3. \/ q.ds = s /\ q.derr # "OK" /\ Barred(s, id, f, free)
      \/ /\ Creates(s, id, f)
         /\ Streamed(q, id, f, o \o data, data)
  BY WriteLands
<1>4. CASE q.ds = s /\ q.derr # "OK" /\ Barred(s, id, f, free)
  BY <1>2, <1>4 DEF Barred
<1>5. CASE /\ Creates(s, id, f)
           /\ Streamed(q, id, f, o \o data, data)
  <2>1. Len(data) \in Nat /\ (Len(data) = 0 <=> data = <<>>)
    BY LenProperties, EmptySeq
  <2>2. CASE data # <<>> /\ q.len = Len(data) /\ Streaming(q.ds, id, f, o \o data)
    <3>1. r.ok /\ r.ses = [x EXCEPT !.sesbuf = <<>>] /\ r.ds = q.ds
      BY <1>1, <1>5, <2>2 DEF Streamed
    <3> QED
      BY <1>5, <2>2, <3>1 DEF Savings
  <2>3. CASE /\ q.len = 0 /\ Landed(q.ds, id, f, o \o data)
             /\ data = <<>> \/ IoFaults
    <3>1. CASE data = <<>>
      <4>1. r.ok /\ r.ses = [x EXCEPT !.sesbuf = <<>>] /\ r.ds = q.ds
        BY <1>1, <1>5, <2>1, <2>3, <3>1 DEF Streamed
      <4> QED
        BY <1>5, <2>3, <3>1, <4>1 DEF Savings
    <3>2. CASE data # <<>>
      <4>1. r.ds = q.ds /\ r.ses = x /\ ~r.ok
        BY <1>2, <2>1, <2>3, <3>2 DEF Landed
      <4> QED
        BY <1>5, <2>3, <3>2, <4>1 DEF Savings
    <3> QED
      BY <3>1, <3>2
  <2> QED
    BY <1>5, <2>2, <2>3 DEF Streamed
<1> QED
  BY <1>3, <1>4, <1>5

\* close_data ends the stream of its session.
LEMMA CloseLands ==
  ASSUME NEW s, StoreSound(s), NEW x, NEW t \in close_data(s, x)
  PROVE  /\ get_dsession(t, x.clsock, x.filename) = {}
         /\ get_dsession(s, x.clsock, x.filename) = {} => t = s
         /\ \A u : Streaming(s, x.clsock, x.filename, u) =>
                     Landed(t, x.clsock, x.filename, u)
<1> DEFINE f == x.filename
           id == x.clsock
           S == get_dsession(s, id, f)
<1>1. t \in IF S = {} THEN {s} ELSE UNION {del_dsession(s, d) : d \in S}
  BY DEF close_data, iwds_close
<1>2. CASE S = {}
  BY <1>1, <1>2 DEF Streaming
<1>3. CASE S # {}
  <2> HIDE DEF S
  <2>1. PICK d \in S : t \in del_dsession(s, d)
    BY <1>1, <1>3
  <2>2. d \in s.dhead /\ d.clid = id /\ d.filename = f /\ S = {d}
    BY <2>1 DEF S, get_dsession, StoreSound, OneDsession
  <2>3. Fits(s, d)
    BY <2>2, FitsOld
  <2>4. t.dhead = s.dhead \ {d}
    BY <2>1 DEF del_dsession
  <2>5. get_dsession(t, id, f) = {}
    BY <2>2, <2>3, <2>4, DropCloses
  <2>6. ASSUME NEW u, Streaming(s, id, f, u)
        PROVE  Landed(t, id, f, u)
    <3>1. d.mode = "w" /\ u = s.files[f] \o d.wbuf
      BY <2>2, <2>6 DEF Streaming, S
    <3>2. Landed(t, d.clid, d.filename, s.files[d.filename] \o d.wbuf)
      BY <2>1, <2>3, <3>1, DelLands
    <3> QED
      BY <2>2, <3>1, <3>2
  <2> QED
    BY <1>3, <2>5, <2>6 DEF S
<1> QED
  BY <1>2, <1>3

----------------------------------------------------------------------------

\* From s to t file g, with its writer's buffer, is at most cut.
Trims(s, t, g) ==
  \A a \in Seq(Unit) : Whole(s.files, s.dhead, g, a) =>
    \E b \in Seq(Unit) : Beginning(b, a) /\ Whole(t.files, t.dhead, g, b)

\* A text is a beginning of itself.
LEMMA BeginsSelf ==
  ASSUME NEW u \in Seq(Unit)
  PROVE  Beginning(u, u)
BY LenProperties DEF Beginning

\* Two cuts.
LEMMA TrimsTwice ==
  ASSUME NEW s, NEW t, NEW v, NEW g, Trims(s, t, g), Trims(t, v, g)
  PROVE  Trims(s, v, g)
<1> SUFFICES ASSUME NEW a \in Seq(Unit), Whole(s.files, s.dhead, g, a)
             PROVE  \E b \in Seq(Unit) : Beginning(b, a) /\ Whole(v.files, v.dhead, g, b)
  BY DEF Trims
<1>1. PICK b \in Seq(Unit) : Beginning(b, a) /\ Whole(t.files, t.dhead, g, b)
  BY DEF Trims
<1>2. PICK e \in Seq(Unit) : Beginning(e, b) /\ Whole(v.files, v.dhead, g, e)
  BY <1>1 DEF Trims
<1>3. Beginning(e, a)
  BY <1>1, <1>2, BeginningTransitive
<1> QED
  BY <1>2, <1>3

\* The file is the same and so are its writers.
LEMMA TrimsNothing ==
  ASSUME NEW s, NEW t, NEW g, t.files[g] = s.files[g],
         \A d : d.filename = g /\ d.mode = "w" => (d \in s.dhead <=> d \in t.dhead)
  PROVE  Trims(s, t, g)
<1> SUFFICES ASSUME NEW a \in Seq(Unit), Whole(s.files, s.dhead, g, a)
             PROVE  \E b \in Seq(Unit) : Beginning(b, a) /\ Whole(t.files, t.dhead, g, b)
  BY DEF Trims
<1>1. Whole(t.files, t.dhead, g, a)
  BY DEF Whole
<1> QED
  BY <1>1, BeginsSelf

\* A step of the session <<w, f>> leaves the other files alone.
LEMMA SteppedTrims ==
  ASSUME NEW s, NEW t, NEW free, NEW f, NEW w, Stepped(s, t, free, f, w),
         NEW g \in DOMAIN s.files, g # f
  PROVE  g \in DOMAIN t.files /\ Trims(s, t, g)
<1>1. g \in DOMAIN t.files /\ t.files[g] = s.files[g]
  BY DEF Stepped, Still, Wrote
<1>2. ASSUME NEW d, d.filename = g
      PROVE  d \in s.dhead <=> d \in t.dhead
  <2>1. get_dsession(t, d.clid, g) = get_dsession(s, d.clid, g)
    BY DEF Stepped, Apart
  <2> QED
    BY <1>2, <2>1 DEF get_dsession
<1> QED
  BY <1>1, <1>2, TrimsNothing

\* A stream that is dropped leaves a beginning of what was written.
LEMMA DelTrims ==
  ASSUME NEW s, StoreSound(s), NEW d, Fits(s, d), d.mode = "w" => d \in s.dhead,
         NEW t \in del_dsession(s, d)
  PROVE  Trims(s, t, d.filename)
<1> DEFINE g == d.filename
<1>1. CASE d.mode = "w"
  <2> SUFFICES ASSUME NEW a \in Seq(Unit), Whole(s.files, s.dhead, g, a)
               PROVE  \E b \in Seq(Unit) : Beginning(b, a) /\ Whole(t.files, t.dhead, g, b)
    BY DEF Trims
  <2>1. Landed(t, d.clid, g, s.files[g] \o d.wbuf)
    BY <1>1, DelLands
  <2>2. a = s.files[g] \o d.wbuf
    BY <1>1 DEF Whole
  <2>3. PICK w \in Seq(Unit) : Beginning(w, a) /\ Closed(t, g, w)
    BY <2>1, <2>2 DEF Landed
  <2> QED
    BY <2>3 DEF Closed, Whole
<1>2. CASE d.mode # "w"
  <2>1. t.files = s.files /\ t.dhead = s.dhead \ {d}
    BY <1>2 DEF del_dsession
  <2> QED
    BY <1>2, <2>1, TrimsNothing
<1> QED
  BY <1>1, <1>2

\* iwds_read cuts its file at most.
LEMMA ReadTrims ==
  ASSUME NEW s, StoreSound(s), NEW id \in Int, NEW f \in File,
         NEW free \in SUBSET Descriptor, NEW r \in iwds_read(s, id, f, free)
  PROVE  Trims(s, r.ds, f)
<1> DEFINE S == get_dsession(s, id, f)
           N == IF S # {} THEN S ELSE create_dsession(id, f, "r", free)
<1>0. Trims(s, s, f)
  BY TrimsNothing
<1>1. \/ r.ds = s
      \/ f \in DOMAIN s.files /\ \E d \in N : r \in Fread(s, d)
  <2> HIDE DEF N
  <2>1. r \in IF ~is_dsfile(s, f)
              THEN {[ds |-> s, data |-> <<>>, derr |-> "NOTEXIST"]}
              ELSE IF N = {}
              THEN {[ds |-> s, data |-> <<>>, derr |-> "NOSESSION"]}
              ELSE UNION {Fread(s, d) : d \in N}
    BY DEF iwds_read, N
  <2> QED
    BY <2>1 DEF is_dsfile
<1>2. ASSUME f \in DOMAIN s.files, NEW d \in N, r \in Fread(s, d)
      PROVE  Trims(s, r.ds, f)
  <2>1. Fits(s, d) /\ d.filename = f /\ (d.mode = "w" => d \in s.dhead)
    <3>1. CASE S # {}
      <4>1. d \in s.dhead /\ d.filename = f
        BY <1>2, <3>1 DEF get_dsession
      <4> QED
        BY <4>1, FitsOld
    <3>2. CASE S = {}
      <4>1. d \in create_dsession(id, f, "r", free)
        BY <1>2, <3>2
      <4>2. d.filename = f /\ d.mode = "r"
        BY <4>1, CreateType
      <4>3. Fits(s, d)
        BY <1>2, <3>2, <4>1, FitsNewReader
      <4> QED
        BY <4>2, <4>3
    <3> QED
      BY <3>1, <3>2
  <2> DEFINE text == s.files[d.filename]
             end == IF d.eof THEN d.pos
                    ELSE IF d.pos + BufSize <= Len(text) THEN d.pos + BufSize
                    ELSE Len(text)
             e == [d EXCEPT !.pos = end, !.eof = end < d.pos + BufSize]
             u == Replaced(s, d, e)
             A == {[ds |-> u, data |-> SubSeq(text, d.pos + 1, end), derr |-> "OK"] :
                     x \in IF d.mode = "r" THEN {0} ELSE {}}
             B == {[ds |-> v, data |-> <<>>, derr |-> "READFAIL"] :
                     v \in IF d.mode = "w" \/ IoFaults THEN del_dsession(s, d) ELSE {}}
  <2>2. r \in A \/ r \in B
    BY <1>2, Zenon DEF Fread
  <2>3. e.mode = d.mode
    <3> HIDE DEF end
    <3> QED
      BY <2>1 DEF Fits, DSession
  <2>4. u.files = s.files /\ u.dhead = (s.dhead \ {d}) \cup {e}
    BY DEF Replaced
  <2> HIDE DEF e, u, text, end
  <2>5. CASE r \in A
    <3>1. r.ds = u /\ d.mode = "r"
      BY <2>5
    <3> QED
      BY <2>3, <2>4, <3>1, TrimsNothing
  <2>6. CASE r \in B
    <3>1. r.ds \in del_dsession(s, d)
      BY <2>6
    <3> QED
      BY <2>1, <3>1, DelTrims
  <2> QED
    BY <2>2, <2>5, <2>6
<1> QED
  BY <1>0, <1>1, <1>2

\* close_data cuts its file at most.
LEMMA CloseTrims ==
  ASSUME NEW s, StoreSound(s), NEW x, NEW t \in close_data(s, x)
  PROVE  Trims(s, t, x.filename)
<1> DEFINE S == get_dsession(s, x.clsock, x.filename)
<1>1. t \in IF S = {} THEN {s} ELSE UNION {del_dsession(s, d) : d \in S}
  BY DEF close_data, iwds_close
<1>2. CASE t = s
  BY <1>2, TrimsNothing
<1>3. CASE \E d \in S : t \in del_dsession(s, d)
  <2>1. PICK d \in S : t \in del_dsession(s, d)
    BY <1>3
  <2>2. d \in s.dhead /\ d.filename = x.filename
    BY <2>1 DEF get_dsession
  <2>3. Fits(s, d)
    BY <2>2, FitsOld
  <2>4. Trims(s, t, d.filename)
    BY <2>1, <2>2, <2>3, DelTrims
  <2> QED
    BY <2>2, <2>4
<1> HIDE DEF S
<1> QED
  BY <1>1, <1>2, <1>3

\* So does load_data.
LEMMA LoadTrims ==
  ASSUME NEW s, StoreSound(s), NEW x, x.clsock \in Int, x.filename \in File,
         NEW free \in SUBSET Descriptor, NEW r \in load_data(s, x, free)
  PROVE  Trims(s, r.ds, x.filename)
<1> DEFINE f == x.filename
           id == x.clsock
<1>1. PICK q \in iwds_read(s, id, f, free) :
        r \in IF q.derr = "OK"
              THEN {[ds |-> q.ds, ses |-> [x EXCEPT !.sesbuf = q.data], ok |-> TRUE]}
              ELSE {[ds |-> t, ses |-> [x EXCEPT !.sesbuf = <<>>], ok |-> FALSE] :
                      t \in close_data(q.ds, x)}
  BY DEF load_data
<1>2. StoreSound(q.ds) /\ Trims(s, q.ds, f)
  BY ReadKeeps, ReadTrims
<1>3. r.ds = q.ds \/ r.ds \in close_data(q.ds, x)
  BY <1>1
<1>4. CASE r.ds \in close_data(q.ds, x)
  <2>1. Trims(q.ds, r.ds, f)
    BY <1>2, <1>4, CloseTrims
  <2> QED
    BY <1>2, <2>1, TrimsTwice
<1> QED
  BY <1>2, <1>3, <1>4

\* And a turn of iwds_exit.
LEMMA ExitTrims ==
  ASSUME NEW s, StoreSound(s), NEW t \in iwds_exit_step(s), NEW g \in DOMAIN s.files
  PROVE  Trims(s, t, g)
<1>1. PICK d \in s.dhead : t \in del_dsession(s, d)
  BY DEF iwds_exit_step
<1>2. Fits(s, d)
  BY FitsOld
<1>3. CASE g = d.filename
  BY <1>1, <1>2, <1>3, DelTrims
<1>4. CASE g # d.filename
  <2>1. d.filename \in DOMAIN s.files /\ d.wbuf \in Seq(Unit) /\ t.dhead = s.dhead \ {d}
    BY <1>1, <1>2 DEF Fits, DSession, del_dsession
  <2>2. t.files[g] = s.files[g]
    <3>1. PICK w \in Landing(d.wbuf) :
            t.files = IF d.mode = "w" THEN Append2(s, d.filename, w).files ELSE s.files
      BY <1>1 DEF del_dsession
    <3>2. w \in Seq(Unit)
      BY <2>1, LandingType
    <3>3. Append2(s, d.filename, w).files[g] = s.files[g]
      BY <1>4, <2>1, <3>2, AppendFile
    <3> QED
      BY <3>1, <3>3
  <2> QED
    BY <1>4, <2>1, <2>2, TrimsNothing
<1> QED
  BY <1>3, <1>4
============================================================================
