-------------------------- MODULE DatasetReadingProofs --------------------------
(***************************************************************************)
(* Proofs about DatasetWriter: the dataset can be read.  The reader takes  *)
(* the rows of all data files one after the other and finds an episode by  *)
(* the positions in its metadata, so what is proved is that nothing that   *)
(* is written later moves a row or a frame of a saved episode, for any     *)
(* number of files, sessions and failures, and that the writer implements  *)
(* the log of EpisodeLog.                                                  *)
(*                                                                         *)
(* The files are concatenated by FlattenSeq, a recursive function; what it *)
(* computes is proved first, by taking the least counterexample.           *)
(***************************************************************************)
EXTENDS DatasetWriterProofs, SequenceTheorems, WellFoundedInduction

(* Induction over a number takes the least one that fails. *)
Less == {p \in Nat \X Nat : p[1] < p[2]}

(* A set of numbers has a least one. *)
LEMMA Least ==
    ASSUME NEW T \in SUBSET Nat, T # {}
    PROVE  \E m \in T : \A k \in T : m <= k
<1>1. IsWellFoundedOn(Less, Nat) BY NatLessThanWellFounded DEF OpToRel, Less
<1>2. \E x \in T : \A y \in T : ~(<<y, x>> \in Less) BY <1>1, WFMin, Zenon
<1>3. PICK m \in T : \A y \in T : ~(<<y, m>> \in Less) BY <1>2
<1>4. \A k \in T : ~(k < m) BY <1>3 DEF Less
<1> QED BY <1>4

(* f concatenates the first i sequences of s, for each i up to n. *)
Flattening(s, n, f) ==
    f = [i \in 1..n |-> IF i = 1 THEN s[i] ELSE f[i - 1] \o s[i]]

(* The function that FlattenSeq defines by recursion exists. *)
LEMMA FlatteningExists ==
    ASSUME NEW s, NEW n \in Nat
    PROVE  \E f : Flattening(s, n, f)
<1> DEFINE T == {k \in Nat : ~\E f : Flattening(s, k, f)}
<1>1. SUFFICES ASSUME T # {} PROVE FALSE OBVIOUS
<1>2. PICK m \in T : \A k \in T : m <= k
  <2>1. T \in SUBSET Nat OBVIOUS
  <2> HIDE DEF T
  <2> QED BY <1>1, <2>1, Least
<1>3. CASE m = 0
  <2> DEFINE f == [i \in 1..0 |-> s[1]]
  <2>1. Flattening(s, 0, f) BY DEF Flattening
  <2> QED BY <1>3, <2>1
<1>4. CASE m # 0
  <2>1. m - 1 \in Nat /\ m - 1 \notin T BY <1>2, <1>4
  <2>2. PICK f : Flattening(s, m - 1, f) BY <2>1
  <2> DEFINE g == [i \in 1..m |-> IF i = m THEN IF m = 1 THEN s[m] ELSE f[m - 1] \o s[m]
                                  ELSE f[i]]
  <2>3. ASSUME NEW i \in 1..m
        PROVE  g[i] = IF i = 1 THEN s[i] ELSE g[i - 1] \o s[i]
    <3>1. CASE i = m /\ m = 1 BY <3>1
    <3>2. CASE i = m /\ m # 1
      <4>1. m - 1 \in 1..m /\ m - 1 # m BY <3>2
      <4> QED BY <3>2, <4>1
    <3>3. CASE i # m
      <4>1. i \in 1..m - 1 /\ g[i] = f[i] BY <3>3
      <4>2. f[i] = IF i = 1 THEN s[i] ELSE f[i - 1] \o s[i] BY <2>2, <4>1 DEF Flattening
      <4>3. i # 1 => i - 1 \in 1..m /\ i - 1 # m BY <3>3
      <4> QED BY <4>1, <4>2, <4>3
    <3> QED BY <3>1, <3>2, <3>3
  <2>4. Flattening(s, m, g) BY <2>3, Zenon DEF Flattening
  <2> QED BY <1>2, <2>4
<1> QED BY <1>3, <1>4

(* It is determined by the parts it reads. *)
LEMMA FlatteningUnique ==
    ASSUME NEW s, NEW t, NEW n \in Nat, NEW k \in Nat, NEW f, NEW g,
           Flattening(s, n, f), Flattening(t, k, g),
           NEW i \in 1..n, i <= k, \A j \in 1..i : s[j] = t[j]
    PROVE  f[i] = g[i]
<1> DEFINE T == {m \in Nat : m \in 1..i /\ f[m] # g[m]}
<1>1. SUFFICES ASSUME T # {} PROVE FALSE OBVIOUS
<1>2. PICK m \in T : \A q \in T : m <= q
  <2>1. T \in SUBSET Nat OBVIOUS
  <2> HIDE DEF T
  <2> QED BY <1>1, <2>1, Least
<1>3. m \in 1..i /\ m \in 1..n /\ m \in 1..k /\ s[m] = t[m] BY <1>2
<1>4. f[m] = (IF m = 1 THEN s[m] ELSE f[m - 1] \o s[m])
      /\ g[m] = (IF m = 1 THEN t[m] ELSE g[m - 1] \o t[m])
  BY <1>3 DEF Flattening
<1>5. m # 1
  BY <1>2, <1>3, <1>4
<1>6. m - 1 \in 1..i /\ m - 1 \notin T BY <1>2, <1>3, <1>5
<1>7. f[m - 1] = g[m - 1] BY <1>6
<1> QED BY <1>2, <1>3, <1>4, <1>5, <1>7

(* FlattenSeq of a sequence that is not empty. *)
LEMMA FlattenIs ==
    ASSUME NEW S, NEW s \in Seq(S), s # <<>>
    PROVE  \E f : Flattening(s, Len(s), f) /\ FlattenSeq(s) = f[Len(s)]
<1>1. Len(s) \in Nat /\ Len(s) # 0 OBVIOUS
<1> DEFINE g == CHOOSE f : f = [i \in 1..Len(s) |-> IF i = 1 THEN s[i] ELSE f[i - 1] \o s[i]]
<1>2. FlattenSeq(s) = g[Len(s)] BY <1>1 DEF FlattenSeq
<1>3. Flattening(s, Len(s), g)
  <2>1. \E f : f = [i \in 1..Len(s) |-> IF i = 1 THEN s[i] ELSE f[i - 1] \o s[i]]
    BY <1>1, FlatteningExists, Zenon DEF Flattening
  <2> QED BY <2>1, Zenon DEF Flattening
<1> QED BY <1>2, <1>3

(* The rows of the first i files, in the order they are read. *)
Before(d, i) == FlattenSeq(SubSeq(d, 1, i))

(* A part of a sequence from its beginning. *)
LEMMA PrefixTyped ==
    ASSUME NEW S, NEW s \in Seq(S), NEW i \in 0..Len(s)
    PROVE  /\ SubSeq(s, 1, i) \in Seq(S) /\ Len(SubSeq(s, 1, i)) = i
           /\ \A j \in 1..i : SubSeq(s, 1, i)[j] = s[j]
<1>1. i \in Int /\ 1 \in Int /\ \A j \in 1..i : s[j] \in S OBVIOUS
<1>2. /\ SubSeq(s, 1, i) \in Seq(S)
      /\ Len(SubSeq(s, 1, i)) = IF 1 <= i THEN i - 1 + 1 ELSE 0
      /\ \A j \in 1..i - 1 + 1 : SubSeq(s, 1, i)[j] = s[1 + j - 1]
  BY <1>1, SubSeqProperties
<1>3. i \in Nat /\ i - 1 + 1 = i /\ \A j \in 1..i : 1 + j - 1 = j OBVIOUS
<1> QED BY <1>2, <1>3

(* What the files up to one hold: what those before it hold, and then it. *)
LEMMA BeforeNext ==
    ASSUME NEW S, NEW d \in Seq(Seq(S)), NEW i \in 1..Len(d)
    PROVE  Before(d, i) = Before(d, i - 1) \o d[i]
<1>1. Len(d) \in Nat /\ i \in Nat OBVIOUS
<1> DEFINE s == SubSeq(d, 1, i)
           t == SubSeq(d, 1, i - 1)
<1>2. /\ s \in Seq(Seq(S)) /\ Len(s) = i /\ s # <<>> /\ \A j \in 1..i : s[j] = d[j]
      /\ t \in Seq(Seq(S)) /\ Len(t) = i - 1 /\ \A j \in 1..i - 1 : t[j] = d[j]
  <2>1. i \in 0..Len(d) /\ i - 1 \in 0..Len(d) /\ i # 0 BY <1>1
  <2>2. s \in Seq(Seq(S)) /\ Len(s) = i /\ \A j \in 1..i : s[j] = d[j]
    BY <2>1, PrefixTyped
  <2>3. t \in Seq(Seq(S)) /\ Len(t) = i - 1 /\ \A j \in 1..i - 1 : t[j] = d[j]
    BY <2>1, PrefixTyped
  <2>4. s # <<>> BY <2>1, <2>2
  <2> QED BY <2>2, <2>3, <2>4
<1> HIDE DEF s, t
<1>3. PICK f : Flattening(s, i, f) /\ FlattenSeq(s) = f[i] BY <1>2, FlattenIs
<1>4. f[i] = IF i = 1 THEN s[i] ELSE f[i - 1] \o s[i]
  <2>1. i \in 1..i BY <1>1
  <2> QED BY <1>3, <2>1 DEF Flattening
<1>5. CASE i = 1
  <2>1. t = <<>> BY <1>2, <1>5
  <2>2. FlattenSeq(t) = <<>> BY <2>1 DEF FlattenSeq
  <2>3. FlattenSeq(s) = d[i] BY <1>2, <1>3, <1>4, <1>5
  <2>4. d[i] \in Seq(S) OBVIOUS
  <2>5. <<>> \o d[i] = d[i] BY <2>4, ConcatEmptySeq
  <2>6. FlattenSeq(s) = FlattenSeq(t) \o d[i] BY <2>2, <2>3, <2>5, Zenon
  <2> QED BY <2>6, Zenon DEF Before, s, t
<1>6. CASE i # 1
  <2>1. t # <<>> /\ i - 1 \in Nat /\ i - 1 \in 1..i - 1 BY <1>2, <1>6
  <2>2. PICK g : Flattening(t, i - 1, g) /\ FlattenSeq(t) = g[i - 1] BY <1>2, <2>1, FlattenIs
  <2>3. g[i - 1] = f[i - 1]
    <3>1. ASSUME NEW j \in 1..i - 1 PROVE t[j] = s[j]
      <4>1. j \in 1..i BY <1>1
      <4> QED BY <1>2, <4>1
    <3>2. i - 1 <= i BY <1>1
    <3> DEFINE p == i - 1
    <3>3. /\ p \in Nat /\ i \in Nat /\ Flattening(t, p, g) /\ Flattening(s, i, f)
          /\ p \in 1..p /\ p <= i /\ \A j \in 1..p : t[j] = s[j]
      BY <1>1, <1>3, <2>1, <2>2, <3>1, <3>2
    <3> HIDE DEF p
    <3>4. g[p] = f[p] BY <3>3, FlatteningUnique
    <3> QED BY <3>4 DEF p
  <2>4. s[i] = d[i] BY <1>1, <1>2
  <2>5. FlattenSeq(s) = FlattenSeq(t) \o d[i]
    BY <1>3, <1>4, <1>6, <2>2, <2>3, <2>4, Zenon
  <2> QED BY <2>5, Zenon DEF Before, s, t
<1> QED BY <1>5, <1>6

(* None of the files hold nothing, and all of them all. *)
LEMMA BeforeFirst ==
    ASSUME NEW S, NEW d \in Seq(S)
    PROVE  Before(d, 0) = <<>> /\ Before(d, Len(d)) = FlattenSeq(d)
<1>1. SubSeq(d, 1, 0) = <<>> /\ SubSeq(d, 1, Len(d)) = d OBVIOUS
<1>2. FlattenSeq(<<>>) = <<>> BY DEF FlattenSeq
<1> QED BY <1>1, <1>2 DEF Before

(* The rows of some files are rows. *)
LEMMA BeforeTyped ==
    ASSUME NEW S, NEW d \in Seq(Seq(S)), NEW i \in 0..Len(d)
    PROVE  Before(d, i) \in Seq(S)
<1> DEFINE T == {k \in Nat : k \in 0..Len(d) /\ Before(d, k) \notin Seq(S)}
<1>1. SUFFICES ASSUME T # {} PROVE FALSE OBVIOUS
<1>2. PICK m \in T : \A q \in T : m <= q
  <2>1. T \in SUBSET Nat OBVIOUS
  <2> HIDE DEF T
  <2> QED BY <1>1, <2>1, Least
<1>3. Len(d) \in Nat OBVIOUS
<1>4. m # 0
  <2>1. <<>> \in Seq(S) OBVIOUS
  <2> QED BY <1>2, <2>1, BeforeFirst
<1>5. m \in 1..Len(d) /\ m - 1 \in 0..Len(d) /\ m - 1 \notin T BY <1>2, <1>3, <1>4
<1>6. Before(d, m - 1) \in Seq(S) BY <1>5
<1>7. Before(d, m) = Before(d, m - 1) \o d[m] BY <1>5, BeforeNext
<1>8. d[m] \in Seq(S) BY <1>5
<1>9. Before(d, m) \in Seq(S) BY <1>6, <1>7, <1>8, ConcatProperties
<1> QED BY <1>2, <1>9

(* What some files hold is read first, however many follow. *)
LEMMA BeforeKept ==
    ASSUME NEW S, NEW d \in Seq(Seq(S)), NEW i \in 0..Len(d), NEW j \in i..Len(d)
    PROVE  /\ Len(Before(d, i)) <= Len(Before(d, j))
           /\ \A r \in 1..Len(Before(d, i)) : Before(d, j)[r] = Before(d, i)[r]
<1> DEFINE Keeps(k) == /\ Len(Before(d, i)) <= Len(Before(d, k))
                       /\ \A r \in 1..Len(Before(d, i)) : Before(d, k)[r] = Before(d, i)[r]
           T == {k \in Nat : k \in i..Len(d) /\ ~Keeps(k)}
<1>1. SUFFICES ASSUME T # {} PROVE FALSE OBVIOUS
<1>2. PICK m \in T : \A q \in T : m <= q
  <2>1. T \in SUBSET Nat OBVIOUS
  <2> HIDE DEF T
  <2> QED BY <1>1, <2>1, Least
<1>3. Len(d) \in Nat /\ i \in Nat /\ Len(Before(d, i)) \in Nat
  <2>1. Before(d, i) \in Seq(S) BY BeforeTyped
  <2> QED BY <2>1
<1>4. m # i BY <1>2, <1>3
<1>5. m \in 1..Len(d) /\ m - 1 \in i..Len(d) /\ m - 1 \notin T BY <1>2, <1>3, <1>4
<1>6. Keeps(m - 1) BY <1>5, <1>3
<1>7. Before(d, m) = Before(d, m - 1) \o d[m] BY <1>5, BeforeNext
<1>8. d[m] \in Seq(S) /\ Before(d, m - 1) \in Seq(S) BY <1>3, <1>5, BeforeTyped
<1>9. Keeps(m)
  <2> DEFINE a == Before(d, m - 1)
             b == Before(d, i)
  <2>1. /\ Len(a) <= Len(a \o d[m]) /\ Len(a) \in Nat /\ Len(a \o d[m]) \in Nat
        /\ \A r \in 1..Len(a) : (a \o d[m])[r] = a[r]
    <3>1. a \in Seq(S) /\ d[m] \in Seq(S) BY <1>8
    <3> HIDE DEF a
    <3>2. Len(a) \in Nat /\ Len(d[m]) \in Nat /\ Len(a \o d[m]) = Len(a) + Len(d[m])
      BY <3>1, ConcatProperties
    <3>3. \A r \in 1..Len(a) + Len(d[m]) :
            (a \o d[m])[r] = IF r <= Len(a) THEN a[r] ELSE d[m][r - Len(a)]
      BY <3>1, ConcatProperties
    <3> QED BY <3>2, <3>3
  <2>2. Len(b) <= Len(a) /\ \A r \in 1..Len(b) : a[r] = b[r] BY <1>6
  <2>3. Len(b) \in Nat BY <1>3
  <2> HIDE DEF a, b
  <2>4. Len(b) <= Len(a \o d[m]) /\ Len(a \o d[m]) \in Nat BY <2>1, <2>2, <2>3
  <2>5. \A r \in 1..Len(b) : (a \o d[m])[r] = b[r] BY <2>1, <2>2, <2>3
  <2> QED BY <1>7, <2>4, <2>5 DEF a, b
<1> QED BY <1>2, <1>9

(* Files are read alike as far as they are alike. *)
LEMMA BeforeSame ==
    ASSUME NEW S, NEW d \in Seq(Seq(S)), NEW t \in Seq(Seq(S)), NEW i \in 0..Len(d),
           i <= Len(t), \A j \in 1..i : t[j] = d[j]
    PROVE  Before(t, i) = Before(d, i)
<1>1. /\ Len(d) \in Nat /\ Len(t) \in Nat /\ i \in 0..Len(t)
  OBVIOUS
<1>2. SubSeq(t, 1, i) = SubSeq(d, 1, i)
  <2>1. /\ SubSeq(t, 1, i) \in Seq(Seq(S)) /\ Len(SubSeq(t, 1, i)) = i
        /\ \A j \in 1..i : SubSeq(t, 1, i)[j] = t[j]
    BY <1>1, PrefixTyped
  <2>2. /\ SubSeq(d, 1, i) \in Seq(Seq(S)) /\ Len(SubSeq(d, 1, i)) = i
        /\ \A j \in 1..i : SubSeq(d, 1, i)[j] = d[j]
    BY PrefixTyped
  <2> QED BY <2>1, <2>2, SeqEqual
<1> QED BY <1>2 DEF Before
-----------------------------------------------------------------------------
(* Until a save fails between its rows and its metadata, the data files hold *)
(* the rows of the saved episodes and nothing else, but for the rows of the  *)
(* one that is being saved; and the last video ends its file.                *)
Fresh ==
    ~spoiled =>
        /\ intact = Len(metas)
        /\ latestFile # 0 => latestFile = Len(data)
        /\ stage # "video" => Len(data) = IF metas = <<>> THEN 0 ELSE metas[Len(metas)].file
        /\ Len(Table) = info.frames + IF stage = "video" THEN Len(buffer) ELSE 0
        /\ stage = "video" =>
            \A i \in 1..Len(buffer) : Table[info.frames + i] = EpisodeRows[i]
        /\ latestMeta =>
            metas[Len(metas)].videoTo = Len(videos[metas[Len(metas)].video])

(* The reader has seen all rows of an episode at the end of its file: what is *)
(* written behind that file, or appended to it, moves none of them.           *)
InFiles == \A e \in 1..intact : metas[e].to <= Len(Before(data, metas[e].file))

(* Videos are put in the last episode's file or in one behind it. *)
VideoOrder ==
    /\ \A e \in 1..Len(metas) : metas[e].video <= metas[Len(metas)].video
    /\ ~latestMeta => loaded = Len(metas)
    /\ \A e \in 1..intact :
        /\ metas[e].videoTo <= Len(videos[metas[e].video])
        /\ metas[e].videoFrom <= metas[e].videoTo

(* The frames of the episode that the encoder has or will have. *)
Waiting == images \o frameQueue

(* The encoder has the frames of the buffer or fewer, and the image files    *)
(* begin with those of the buffer, whatever older ones follow.               *)
Images ==
    /\ streaming /\ ~ragged =>
        /\ Len(Waiting) <= Len(buffer)
        /\ Len(Waiting) = Len(buffer) => Waiting = buffer
    /\ streaming /\ stage = "closed" => images = <<>> /\ frameQueue = <<>>
    /\ ~streaming /\ (stage \in {"rows", "video"} \/ (stage = "idle" /\ ~taken)) =>
        /\ Len(buffer) <= Len(images)
        /\ \A i \in 1..Len(buffer) : images[i] = buffer[i]
    /\ stage = "video" => ~ragged
    /\ stage \in {"rows", "video"} => taken

Reading == Fresh /\ InFiles /\ VideoOrder /\ EpisodesReadable
-----------------------------------------------------------------------------
(* What is read of the data files after the rows of an episode are written:  *)
(* the files before are read as they were, and the rows follow what was in   *)
(* the file, unless a new writer emptied it.                                 *)
LEMMA FilesRead ==
    ASSUME Sound, stage = "rows", NEW full \in BOOLEAN
    PROVE  /\ \A j \in 0..DataFile(full) - 1 : Before(DataFiles(full), j) = Before(data, j)
           /\ Before(DataFiles(full), DataFile(full)) =
                Before(data, IF opened /\ DataFile(full) = latestFile
                             THEN DataFile(full) ELSE DataFile(full) - 1) \o EpisodeRows
<1> DEFINE file == DataFile(full)
           old == IF opened /\ file = latestFile THEN data[file] ELSE <<>>
           d == DataFiles(full)
<1>1. Ranges /\ Files BY DEF Sound
<1>2. file \in 1..Len(data) + 1 /\ Len(data) \in Nat /\ data \in Seq(Seq(Row))
  BY <1>1, FileFree DEF Ranges
<1>3. opened /\ file = latestFile => file \in 1..Len(data)
  BY <1>1, <1>2 DEF Files
<1>4. old \in Seq(Row) BY <1>2, <1>3
<1>5. EpisodeRows \in Seq(Row) BY <1>1, RowsNumbered
<1>6. d \in Seq(Seq(Row)) /\ file \in 1..Len(d) /\ Len(data) <= Len(d) /\ Len(d) \in Nat
      /\ d[file] = old \o EpisodeRows
      /\ \A j \in 1..Len(data) : j # file => d[j] = data[j]
  <2> DEFINE new == old \o EpisodeRows
  <2>1. new \in Seq(Row) BY <1>4, <1>5, ConcatProperties
  <2>2. d = Put(data, file, new) BY DEF DataFiles
  <2> HIDE DEF old, d, file, new
  <2>3. /\ d \in Seq(Seq(Row)) /\ Len(data) <= Len(d) /\ file <= Len(d) /\ d[file] = new
        /\ \A j \in 1..Len(data) : j # file => d[j] = data[j]
    BY <1>2, <2>1, <2>2, PutFile
  <2>4. Len(d) \in Nat BY <2>3
  <2>5. file \in 1..Len(d) BY <1>2, <2>3, <2>4
  <2> QED BY <2>3, <2>4, <2>5 DEF new
<1> HIDE DEF file, d
<1>7. ASSUME NEW j \in 0..file - 1 PROVE Before(d, j) = Before(data, j)
  <2>1. j \in 0..Len(data) /\ j <= Len(d) BY <1>2, <1>6
  <2>2. \A k \in 1..j : d[k] = data[k] BY <1>2, <1>6
  <2> QED BY <1>2, <1>6, <2>1, <2>2, BeforeSame
<1>8. Before(d, file) = Before(d, file - 1) \o d[file] BY <1>6, BeforeNext
<1>9. file - 1 \in 0..file - 1 BY <1>2
<1>10. Before(d, file) = Before(data, file - 1) \o (old \o EpisodeRows)
  BY <1>6, <1>7, <1>8, <1>9
<1>11. Before(data, file - 1) \in Seq(Row)
  <2>1. file - 1 \in 0..Len(data) BY <1>2
  <2> QED BY <1>2, <2>1, BeforeTyped
<1>12. Before(d, file) = (Before(data, file - 1) \o old) \o EpisodeRows
  <2> HIDE DEF old
  <2> QED BY <1>4, <1>5, <1>10, <1>11, ConcatAssociative
<1>13. CASE opened /\ file = latestFile
  <2>1. Before(data, file) = Before(data, file - 1) \o old
    BY <1>2, <1>3, <1>13, BeforeNext
  <2>2. Before(d, file) = Before(data, file) \o EpisodeRows BY <1>12, <2>1
  <2> QED BY <1>7, <1>13, <2>2 DEF file, d
<1>14. CASE ~(opened /\ file = latestFile)
  <2>1. Before(data, file - 1) \o old = Before(data, file - 1)
    BY <1>11, <1>14, ConcatEmptySeq
  <2>2. Before(d, file) = Before(data, file - 1) \o EpisodeRows BY <1>12, <2>1
  <2> QED BY <1>7, <1>14, <2>2 DEF file, d
<1> QED BY <1>13, <1>14

(* Writing rows, the reader still finds what it found up to the end of any   *)
(* episode's file.                                                           *)
LEMMA EpisodesStillRead ==
    ASSUME Sound, stage = "rows", NEW full \in BOOLEAN, NEW e \in 1..Len(metas)
    PROVE  /\ Before(data, metas[e].file) \in Seq(Row)
           /\ Before(DataFiles(full), metas[e].file) \in Seq(Row)
           /\ FlattenSeq(DataFiles(full)) \in Seq(Row)
           /\ Len(Before(data, metas[e].file)) <= Len(Before(DataFiles(full), metas[e].file))
           /\ Len(Before(data, metas[e].file)) <= Len(FlattenSeq(DataFiles(full)))
           /\ \A r \in 1..Len(Before(data, metas[e].file)) :
                FlattenSeq(DataFiles(full))[r] = Table[r]
<1> DEFINE file == DataFile(full)
           d == DataFiles(full)
           f == metas[e].file
<1>1. /\ d \in Seq(Seq(Row)) /\ Len(data) <= Len(d) /\ Len(d) \in Nat
      /\ data \in Seq(Seq(Row)) /\ Len(data) \in Nat
  BY RowsAdded DEF Sound, Ranges
<1>2. f \in 1..Len(data) /\ f \in 0..Len(d) /\ f \in 0..Len(data) /\ Len(data) \in f..Len(data)
      /\ Len(d) \in f..Len(d)
  BY <1>1 DEF Sound, Files
<1>3. f <= file /\ file \in 1..Len(data) + 1 /\ (f = file => opened /\ file = latestFile)
  <2>1. f <= file /\ file \in 1..Len(data) + 1
        /\ ((opened /\ file = latestFile) \/ f < file)
    BY FileFree
  <2> QED BY <1>2, <2>1
<1> HIDE DEF file, d, f
<1>4. Before(data, f) \in Seq(Row) /\ Before(d, f) \in Seq(Row) /\ EpisodeRows \in Seq(Row)
  BY <1>1, <1>2, BeforeTyped, RowsNumbered DEF Sound
<1>5. /\ Len(Before(data, f)) <= Len(Before(d, f))
      /\ \A r \in 1..Len(Before(data, f)) : Before(d, f)[r] = Before(data, f)[r]
  <2>1. Len(Before(data, f)) \in Nat /\ Len(EpisodeRows) \in Nat BY <1>4
  <2>2. CASE f = file
    <3>1. Before(d, f) = Before(data, f) \o EpisodeRows
      BY <1>3, <2>2, FilesRead DEF d, file
    <3>2. /\ Len(Before(d, f)) = Len(Before(data, f)) + Len(EpisodeRows)
          /\ \A r \in 1..Len(Before(data, f)) + Len(EpisodeRows) :
                Before(d, f)[r] = IF r <= Len(Before(data, f)) THEN Before(data, f)[r]
                                  ELSE EpisodeRows[r - Len(Before(data, f))]
      BY <1>4, <3>1, ConcatProperties
    <3> QED BY <2>1, <3>2
  <2>3. CASE f # file
    <3>1. f \in 0..file - 1 BY <1>2, <1>3, <2>3
    <3>2. Before(d, f) = Before(data, f) BY <3>1, FilesRead DEF d, file
    <3> QED BY <2>1, <3>2
  <2> QED BY <2>2, <2>3
<1>6. /\ Len(Before(data, f)) <= Len(Table)
      /\ \A r \in 1..Len(Before(data, f)) : Table[r] = Before(data, f)[r]
  <2>1. Before(data, Len(data)) = Table BY <1>1, BeforeFirst DEF Table
  <2> QED BY <1>1, <1>2, <2>1, BeforeKept
<1>7. /\ Len(Before(d, f)) <= Len(FlattenSeq(d)) /\ FlattenSeq(d) \in Seq(Row)
      /\ \A r \in 1..Len(Before(d, f)) : FlattenSeq(d)[r] = Before(d, f)[r]
  <2>1. Before(d, Len(d)) = FlattenSeq(d) BY <1>1, BeforeFirst
  <2>2. Before(d, Len(d)) \in Seq(Row)
    <3>1. Len(d) \in 0..Len(d) BY <1>1
    <3> QED BY <1>1, <3>1, BeforeTyped
  <2> QED BY <1>1, <1>2, <2>1, <2>2, BeforeKept
<1>8. /\ Len(Before(data, f)) \in Nat /\ Len(Before(d, f)) \in Nat /\ Len(FlattenSeq(d)) \in Nat
  BY <1>4, <1>7
<1>9. \A r \in 1..Len(Before(data, f)) : FlattenSeq(d)[r] = Table[r]
  BY <1>5, <1>6, <1>7, <1>8
<1>10. Len(Before(data, f)) <= Len(FlattenSeq(d)) BY <1>5, <1>7, <1>8
<1> QED BY <1>4, <1>5, <1>7, <1>9, <1>10 DEF d, f

(* While no save failed, the rows are read behind all those of before.       *)
LEMMA RowsFollow ==
    ASSUME Sound, Fresh, stage = "rows", ~spoiled, NEW full \in BOOLEAN
    PROVE  /\ FlattenSeq(DataFiles(full)) = Table \o EpisodeRows /\ Table \in Seq(Row)
           /\ DataFile(full) = Len(DataFiles(full))
<1> DEFINE file == DataFile(full)
           d == DataFiles(full)
<1>1. /\ d \in Seq(Seq(Row)) /\ Len(data) <= Len(d) /\ Len(d) \in Nat /\ file \in 1..Len(d)
      /\ data \in Seq(Seq(Row)) /\ Len(data) \in Nat
  BY RowsAdded DEF Sound, Ranges
<1>2. Before(data, Len(data)) = Table /\ Before(d, Len(d)) = FlattenSeq(d)
  BY <1>1, BeforeFirst DEF Table
<1>3. Table \in Seq(Row)
  <2>1. Len(data) \in 0..Len(data) BY <1>1
  <2> QED BY <1>1, <1>2, <2>1, BeforeTyped
<1>4. /\ latestFile # 0 => latestFile = Len(data) /\ opened
      /\ latestFile = 0 => loaded = Len(metas)
      /\ Len(data) = IF metas = <<>> THEN 0 ELSE metas[Len(metas)].file
      /\ latestFile \in Nat /\ Len(metas) \in Nat /\ (metas = <<>> <=> Len(metas) = 0)
  BY DEF Fresh, Sound, Files, Ranges
<1>5. \/ file = Len(data) + 1 /\ file # latestFile
      \/ file = Len(data) /\ opened /\ file = latestFile
  <2>1. CASE latestFile = 0
    <3>1. file = Len(data) + 1 BY <1>4, <2>1 DEF DataFile
    <3> QED BY <1>1, <2>1, <3>1
  <2>2. CASE latestFile # 0
    <3>1. file = latestFile + (IF full THEN 1 ELSE 0) BY <2>2 DEF DataFile
    <3> QED BY <1>1, <1>4, <2>2, <3>1
  <2> QED BY <2>1, <2>2
<1>6. Len(d) = IF file <= Len(data) THEN Len(data) ELSE Len(data) + 1
  <2>1. \E c : d = Put(data, file, c) BY DEF DataFiles
  <2> HIDE DEF d, file
  <2> QED BY <1>1, <2>1 DEF Put
<1>7. file = Len(d) BY <1>1, <1>5, <1>6
<1>8. Before(d, file) = Table \o EpisodeRows
  <2>1. CASE file = Len(data) + 1 /\ file # latestFile
    <3>1. Before(d, file) = Before(data, file - 1) \o EpisodeRows BY <2>1, FilesRead
    <3>2. file - 1 = Len(data) BY <1>1, <2>1
    <3> QED BY <1>2, <3>1, <3>2
  <2>2. CASE file = Len(data) /\ opened /\ file = latestFile
    <3>1. Before(d, file) = Before(data, file) \o EpisodeRows BY <2>2, FilesRead
    <3> QED BY <1>2, <2>2, <3>1
  <2> QED BY <1>5, <2>1, <2>2
<1> QED BY <1>2, <1>3, <1>7, <1>8

(* The metadata of an episode holds numbers. *)
LEMMA MetaTyped ==
    ASSUME Ranges, NEW e \in 1..Len(metas)
    PROVE  /\ metas[e].file \in Nat /\ metas[e].from \in Nat /\ metas[e].to \in Nat
           /\ metas[e].video \in Nat /\ metas[e].videoFrom \in Nat /\ metas[e].videoTo \in Nat
<1>1. metas[e] \in Meta BY DEF Ranges
<1> QED BY <1>1 DEF Meta

(* What is read depends on the files and the metadata alone. *)
LEMMA ReadAlike ==
    ASSUME EpisodesReadable, metas' = metas, videos' = videos, intact' = intact, Table' = Table
    PROVE  EpisodesReadable'
<1> DEFINE R(n, m, v, t) ==
        \A e \in 1..n :
            /\ m[e].to <= Len(t)
            /\ \A i \in m[e].from .. m[e].to - 1 : t[i + 1].episode = e - 1 /\ t[i + 1].index = i
            /\ ~(m[e].videoTo - m[e].videoFrom < m[e].to - m[e].from) =>
               \A i \in m[e].from .. m[e].to - 1 :
                    /\ m[e].videoFrom + i - m[e].from < Len(v[m[e].video])
                    /\ v[m[e].video][m[e].videoFrom + i - m[e].from + 1] = t[i + 1].frame
<1>1. R(intact, metas, videos, Table)
  BY Zenon DEF EpisodesReadable, Readable, Dropped, VideoFrame
<1>2. R(intact', metas', videos', Table')
  <2> HIDE DEF R
  <2> QED BY <1>1
<1> QED BY <1>2, Zenon DEF EpisodesReadable, Readable, Dropped, VideoFrame

(* What no step touches that leaves the files and their metadata alone. *)
LEMMA FilesQuiet ==
    ASSUME Reading, UNCHANGED <<info, metas, data, videos, fileVars>>,
           UNCHANGED <<spoiled, intact>>,
           stage' = "video" <=> stage = "video", stage = "video" => UNCHANGED buffer
    PROVE  Reading'
<1> USE DEF fileVars
<1>1. Table' = Table BY DEF Table
<1>2. Fresh'
  <2>1. stage = "video" => EpisodeRows' = EpisodeRows BY DEF EpisodeRows
  <2> QED BY <1>1, <2>1 DEF Reading, Fresh
<1>3. InFiles' BY DEF Reading, InFiles
<1>4. VideoOrder' BY DEF Reading, VideoOrder
<1>5. EpisodesReadable'
  <2> QED BY <1>1, ReadAlike DEF Reading
<1> QED BY <1>2, <1>3, <1>4, <1>5 DEF Reading

(* Rows are written. *)
LEMMA RowsReading ==
    ASSUME Inv, Reading, SaveRows
    PROVE  Reading'
<1> USE DEF diskVars, fileVars, bufferVars, historyVars
<1>1. Sound /\ stage = "rows" /\ Ranges /\ Contiguous /\ Counts /\ Files
  BY DEF Inv, Sound, SaveRows
<1>2. PICK full \in BOOLEAN : data' = DataFiles(full) /\ latestFile' = DataFile(full)
  BY DEF SaveRows
<1>3. /\ UNCHANGED <<info, metas, videos, loaded, latestMeta, buffer, spoiled, intact>>
      /\ stage' = "video"
  BY DEF SaveRows
<1>4. Table' = FlattenSeq(DataFiles(full)) BY <1>2 DEF Table
<1>5. intact <= Len(metas) /\ intact \in Nat /\ Len(metas) \in Nat
  BY <1>1 DEF Contiguous, Counts, Ranges
<1>6. Fresh'
  <2>1. SUFFICES ASSUME ~spoiled PROVE Fresh' BY <1>3 DEF Fresh
  <2>2. /\ Table' = Table \o EpisodeRows /\ Table \in Seq(Row) /\ latestFile' = Len(data')
    BY <1>1, <1>2, <1>4, <2>1, RowsFollow DEF Reading
  <2>3. /\ EpisodeRows \in Seq(Row) /\ Len(EpisodeRows) = Len(buffer) /\ EpisodeRows' = EpisodeRows
    BY <1>1, <1>3, RowsNumbered DEF EpisodeRows
  <2>4. Len(Table) = info.frames /\ info.frames \in Nat /\ Len(buffer) \in Nat
    BY <1>1, <2>1 DEF Reading, Fresh, Ranges
  <2>5. /\ Len(Table') = Len(Table) + Len(EpisodeRows)
        /\ \A r \in 1..Len(Table) + Len(EpisodeRows) :
            Table'[r] = IF r <= Len(Table) THEN Table[r] ELSE EpisodeRows[r - Len(Table)]
    BY <2>2, <2>3, ConcatProperties
  <2>6. ASSUME NEW i \in 1..Len(buffer) PROVE Table'[info.frames + i] = EpisodeRows[i]
    <3> DEFINE k == info.frames + i
    <3>1. k \in 1..Len(Table) + Len(EpisodeRows) /\ ~(k <= Len(Table)) /\ k - Len(Table) = i
      BY <2>3, <2>4
    <3> HIDE DEF k
    <3>2. Table'[k] = EpisodeRows[k - Len(Table)] BY <2>5, <3>1
    <3>3. Table'[k] = EpisodeRows[i] BY <3>1, <3>2
    <3> QED BY <3>3 DEF k
  <2>7. Len(Table') = info.frames + Len(buffer) BY <2>3, <2>4, <2>5
  <2>8. /\ intact = Len(metas)
        /\ latestMeta => metas[Len(metas)].videoTo = Len(videos[metas[Len(metas)].video])
    BY <2>1 DEF Reading, Fresh
  <2> QED BY <1>3, <2>2, <2>3, <2>6, <2>7, <2>8 DEF Fresh
<1>7. InFiles'
  <2>1. ASSUME NEW e \in 1..intact PROVE metas[e].to <= Len(Before(data', metas[e].file))
    <3>1. e \in 1..Len(metas) BY <1>5
    <3>2. /\ Len(Before(data, metas[e].file)) <= Len(Before(data', metas[e].file))
          /\ Len(Before(data, metas[e].file)) \in Nat
          /\ Len(Before(data', metas[e].file)) \in Nat
      BY <1>1, <1>2, <3>1, EpisodesStillRead
    <3>3. metas[e].to \in Nat BY <1>1, <3>1, MetaTyped
    <3>4. metas[e].to <= Len(Before(data, metas[e].file)) BY DEF Reading, InFiles
    <3> QED BY <3>2, <3>3, <3>4
  <2> QED BY <1>3, <2>1 DEF InFiles
<1>8. VideoOrder' BY <1>3 DEF Reading, VideoOrder
<1>9. EpisodesReadable'
  <2>1. ASSUME NEW e \in 1..intact
        PROVE  /\ metas[e].to <= Len(Table')
               /\ \A i \in metas[e].from .. metas[e].to - 1 : Table'[i + 1] = Table[i + 1]
    <3>1. e \in 1..Len(metas) BY <1>5
    <3> DEFINE n == Len(Before(data, metas[e].file))
    <3>2. /\ n <= Len(Table') /\ n \in Nat /\ Len(Table') \in Nat
          /\ \A r \in 1..n : Table'[r] = Table[r]
      BY <1>1, <1>2, <1>4, <3>1, EpisodesStillRead
    <3>3. metas[e].to \in Nat /\ metas[e].from \in Nat BY <1>1, <3>1, MetaTyped
    <3>4. metas[e].to <= n BY DEF Reading, InFiles
    <3> HIDE DEF n
    <3> QED BY <3>2, <3>3, <3>4
  <2>2. EpisodesReadable BY DEF Reading
  <2>3. ASSUME NEW e \in 1..intact
        PROVE  /\ metas[e].to <= Len(Table')
               /\ \A i \in metas[e].from .. metas[e].to - 1 :
                    /\ Table'[i + 1].episode = e - 1
                    /\ Table'[i + 1].index = i
               /\ ~Dropped(e) => \A i \in metas[e].from .. metas[e].to - 1 :
                    /\ metas[e].videoFrom + i - metas[e].from < Len(videos[metas[e].video])
                    /\ VideoFrame(e, i) = Table'[i + 1].frame
    <3>1. /\ \A i \in metas[e].from .. metas[e].to - 1 :
                    /\ Table[i + 1].episode = e - 1
                    /\ Table[i + 1].index = i
          /\ ~Dropped(e) => \A i \in metas[e].from .. metas[e].to - 1 :
                    /\ metas[e].videoFrom + i - metas[e].from < Len(videos[metas[e].video])
                    /\ VideoFrame(e, i) = Table[i + 1].frame
      BY <2>2 DEF EpisodesReadable, Readable
    <3> QED BY <2>1, <3>1
  <2> QED BY <1>3, <2>3, Zenon DEF EpisodesReadable, Readable, Dropped, VideoFrame
<1> QED BY <1>6, <1>7, <1>8, <1>9 DEF Reading

(* A video is put behind the ones before it, or in a file behind all files   *)
(* of an episode: nothing of theirs is overwritten.                          *)
LEMMA VideosKept ==
    ASSUME Sound, VideoOrder, NEW full \in BOOLEAN
    PROVE  /\ VideoFiles(full) \in Seq(Seq(Nat)) /\ VideoFile(full) \in 1..Len(VideoFiles(full))
           /\ \A e \in 1..Len(metas) :
                /\ metas[e].video <= VideoFile(full)
                /\ Len(videos[metas[e].video]) <= Len(VideoFiles(full)[metas[e].video])
                /\ \A r \in 1..Len(videos[metas[e].video]) :
                    VideoFiles(full)[metas[e].video][r] = videos[metas[e].video][r]
           /\ latestMeta /\ ~full =>
                /\ VideoFile(full) = metas[Len(metas)].video /\ metas # <<>>
                /\ VideoFiles(full)[VideoFile(full)] = videos[VideoFile(full)] \o images
                /\ VideoStart(full) = metas[Len(metas)].videoTo
           /\ ~(latestMeta /\ ~full) =>
                VideoFiles(full)[VideoFile(full)] = images /\ VideoStart(full) = 0
<1>1. /\ videos \in Seq(Seq(Nat)) /\ images \in Seq(Nat) /\ metas \in Seq(Meta)
      /\ Len(videos) \in Nat /\ Len(metas) \in Nat /\ loaded \in 0..Len(metas)
  BY DEF Sound, Ranges, Counts
<1>2. \A e \in 1..Len(metas) :
        metas[e].video \in 1..Len(videos) /\ metas[e].video <= metas[Len(metas)].video
  BY DEF Sound, Files, VideoOrder
<1>3. latestMeta => Last(metas) = metas[Len(metas)] /\ Len(metas) \in 1..Len(metas) /\ metas # <<>>
  BY <1>1 DEF Sound, Files, Last
<1>4. ~latestMeta => loaded = Len(metas) BY DEF VideoOrder
<1> DEFINE file == VideoFile(full)
           new == IF latestMeta /\ ~full THEN videos[file] \o images ELSE images
           v == VideoFiles(full)
<1>5. /\ file \in 1..Len(videos) + 1
      /\ \A e \in 1..Len(metas) : metas[e].video <= file
      /\ latestMeta /\ ~full => file = metas[Len(metas)].video /\ file \in 1..Len(videos)
      /\ ~(latestMeta /\ ~full) => \A e \in 1..Len(metas) : metas[e].video < file
  <2>1. CASE latestMeta
    <3>1. file = metas[Len(metas)].video + (IF full THEN 1 ELSE 0) BY <1>3, <2>1 DEF VideoFile
    <3>2. metas[Len(metas)].video \in 1..Len(videos) BY <1>2, <1>3, <2>1
    <3> HIDE DEF file
    <3> QED BY <1>1, <1>2, <2>1, <3>1, <3>2
  <2>2. CASE ~latestMeta /\ loaded = 0
    <3>1. file = 1 /\ Len(metas) = 0 BY <1>4, <2>2 DEF VideoFile
    <3> HIDE DEF file
    <3> QED BY <1>1, <2>2, <3>1
  <2>3. CASE ~latestMeta /\ loaded # 0
    <3>1. file = metas[Len(metas)].video + 1 /\ Len(metas) \in 1..Len(metas)
      BY <1>1, <1>4, <2>3 DEF VideoFile
    <3>2. metas[Len(metas)].video \in 1..Len(videos) BY <1>2, <3>1
    <3> HIDE DEF file
    <3> QED BY <1>1, <1>2, <2>3, <3>1, <3>2
  <2> QED BY <2>1, <2>2, <2>3
<1>6. new \in Seq(Nat)
  <2>1. latestMeta /\ ~full => videos[file] \in Seq(Nat) BY <1>1, <1>5
  <2> HIDE DEF file
  <2> QED BY <1>1, <2>1, ConcatProperties
<1>7. v = Put(videos, file, new) BY DEF VideoFiles
<1> HIDE DEF file, v
<1>8. /\ v \in Seq(Seq(Nat)) /\ file <= Len(v) /\ v[file] = new
      /\ \A j \in 1..Len(videos) : j # file => v[j] = videos[j]
  <2> HIDE DEF new
  <2> QED BY <1>1, <1>5, <1>6, <1>7, PutFile
<1>9. file \in 1..Len(v)
  <2>1. Len(v) \in Nat BY <1>8
  <2> QED BY <1>1, <1>5, <1>8, <2>1
<1>10. ASSUME NEW e \in 1..Len(metas)
       PROVE  /\ Len(videos[metas[e].video]) <= Len(v[metas[e].video])
              /\ \A r \in 1..Len(videos[metas[e].video]) :
                    v[metas[e].video][r] = videos[metas[e].video][r]
  <2>1. metas[e].video \in 1..Len(videos) /\ videos[metas[e].video] \in Seq(Nat)
        /\ Len(videos[metas[e].video]) \in Nat
    BY <1>1, <1>2
  <2>2. CASE metas[e].video # file
    <3>1. v[metas[e].video] = videos[metas[e].video] BY <1>8, <2>1, <2>2
    <3> QED BY <2>1, <3>1
  <2>3. CASE metas[e].video = file
    <3>1. latestMeta /\ ~full
      <4>1. file \in Nat /\ ~(metas[e].video < file) BY <1>1, <1>5, <2>3
      <4> QED BY <1>5, <4>1
    <3>2. v[file] = videos[file] \o images BY <1>8, <3>1
    <3>3. /\ Len(v[file]) = Len(videos[file]) + Len(images) /\ Len(images) \in Nat
          /\ \A r \in 1..Len(videos[file]) + Len(images) :
                v[file][r] = IF r <= Len(videos[file]) THEN videos[file][r]
                             ELSE images[r - Len(videos[file])]
      BY <1>1, <2>1, <2>3, <3>2, ConcatProperties
    <3> QED BY <2>1, <2>3, <3>3
  <2> QED BY <2>2, <2>3
<1>11. /\ latestMeta /\ ~full => VideoStart(full) = metas[Len(metas)].videoTo
       /\ ~(latestMeta /\ ~full) => VideoStart(full) = 0
  BY <1>3 DEF VideoStart
<1>12. /\ latestMeta /\ ~full => v[file] = videos[file] \o images
       /\ ~(latestMeta /\ ~full) => v[file] = images
  BY <1>8
<1> QED BY <1>3, <1>5, <1>8, <1>9, <1>10, <1>11, <1>12 DEF file, v

(* What an episode shows stays when its video file only grows. *)
LEMMA StillShown ==
    ASSUME Inv, Reading, NEW e \in 1..intact, NEW v, Len(v) \in Nat,
           Len(videos[metas[e].video]) <= Len(v),
           \A r \in 1..Len(videos[metas[e].video]) : v[r] = videos[metas[e].video][r]
    PROVE  /\ metas[e].videoTo <= Len(v)
           /\ ~Dropped(e) => \A i \in metas[e].from .. metas[e].to - 1 :
                /\ metas[e].videoFrom + i - metas[e].from < Len(v)
                /\ v[metas[e].videoFrom + i - metas[e].from + 1] = Table[i + 1].frame
<1> DEFINE old == videos[metas[e].video]
<1>1. e \in 1..Len(metas) /\ Ranges /\ Files
  BY DEF Inv, Sound, Contiguous, Counts, Ranges
<1>2. /\ metas[e].from \in Nat /\ metas[e].to \in Nat
      /\ metas[e].videoFrom \in Nat /\ metas[e].videoTo \in Nat
  BY <1>1, MetaTyped
<1>3. Len(old) \in Nat
  <2>1. metas[e].video \in 1..Len(videos) BY <1>1 DEF Files
  <2>2. old \in Seq(Nat) BY <1>1, <2>1 DEF Ranges
  <2> QED BY <2>2
<1>4. metas[e].videoTo <= Len(old) BY DEF Reading, VideoOrder
<1>5. ~Dropped(e) => \A i \in metas[e].from .. metas[e].to - 1 :
        /\ metas[e].videoFrom + i - metas[e].from < Len(old)
        /\ old[metas[e].videoFrom + i - metas[e].from + 1] = Table[i + 1].frame
  <2>1. EpisodesReadable BY DEF Reading
  <2> QED BY <2>1, Zenon DEF EpisodesReadable, VideoFrame
<1> HIDE DEF old
<1>6. metas[e].videoTo <= Len(v) BY <1>2, <1>3, <1>4 DEF old
<1>7. ASSUME ~Dropped(e), NEW i \in metas[e].from .. metas[e].to - 1
      PROVE  /\ metas[e].videoFrom + i - metas[e].from < Len(v)
             /\ v[metas[e].videoFrom + i - metas[e].from + 1] = Table[i + 1].frame
  <2> DEFINE k == metas[e].videoFrom + i - metas[e].from + 1
  <2>1. metas[e].videoFrom + i - metas[e].from < Len(old) /\ old[k] = Table[i + 1].frame
    BY <1>5, <1>7
  <2>2. k \in 1..Len(old) BY <1>2, <1>3, <2>1
  <2>3. v[k] = old[k] BY <2>2 DEF old
  <2>4. metas[e].videoFrom + i - metas[e].from < Len(v)
    <3>1. Len(old) <= Len(v) BY DEF old
    <3> QED BY <1>2, <1>3, <2>1, <3>1
  <2> QED BY <2>1, <2>3, <2>4
<1> QED BY <1>6, <1>7

(* A video that fails may leave its frames, in nobody's way.                 *)
LEMMA VideoFailsReading ==
    ASSUME Inv, Reading, VideoFails
    PROVE  Reading'
<1> USE DEF diskVars, fileVars, bufferVars, historyVars
<1>1. Sound /\ Ranges /\ VideoOrder BY DEF Inv, Sound, Reading
<1>2. /\ UNCHANGED <<metas, data, loaded, latestMeta, intact, Table>> /\ spoiled' = TRUE
  BY DEF VideoFails, Table
<1>3. ASSUME NEW e \in 1..Len(metas)
      PROVE  /\ Len(videos'[metas[e].video]) \in Nat
             /\ Len(videos[metas[e].video]) <= Len(videos'[metas[e].video])
             /\ \A r \in 1..Len(videos[metas[e].video]) :
                    videos'[metas[e].video][r] = videos[metas[e].video][r]
  <2>1. metas[e].video \in 1..Len(videos) /\ videos[metas[e].video] \in Seq(Nat)
        /\ Len(videos[metas[e].video]) \in Nat
    <3>1. metas[e].video \in 1..Len(videos) BY <1>1 DEF Sound, Files
    <3> QED BY <1>1, <3>1 DEF Ranges
  <2>2. CASE videos' = videos BY <2>1, <2>2
  <2>3. CASE \E full \in BOOLEAN : videos' = VideoFiles(full)
    <3>1. PICK full \in BOOLEAN : videos' = VideoFiles(full) BY <2>3
    <3>2. /\ Len(videos) <= Len(videos') /\ videos' \in Seq(Seq(Nat))
          /\ Len(videos) \in Nat /\ Len(videos') \in Nat
      BY <1>1, <3>1, VideoAdded DEF Ranges
    <3>3. metas[e].video \in 1..Len(videos') BY <2>1, <3>2
    <3>4. Len(videos'[metas[e].video]) \in Nat BY <3>2, <3>3
    <3> QED BY <1>1, <3>1, <3>4, VideosKept
  <2> QED BY <2>2, <2>3 DEF VideoFails
<1>4. intact \in Nat /\ 1..intact \subseteq 1..Len(metas)
  BY DEF Inv, Sound, Contiguous, Counts, Ranges
<1>5. ASSUME NEW e \in 1..intact
      PROVE  /\ metas[e].videoTo <= Len(videos'[metas[e].video])
             /\ ~Dropped(e) => \A i \in metas[e].from .. metas[e].to - 1 :
                /\ metas[e].videoFrom + i - metas[e].from < Len(videos'[metas[e].video])
                /\ videos'[metas[e].video][metas[e].videoFrom + i - metas[e].from + 1]
                        = Table[i + 1].frame
  <2>1. e \in 1..Len(metas) BY <1>4
  <2>2. /\ Len(videos'[metas[e].video]) \in Nat
        /\ Len(videos[metas[e].video]) <= Len(videos'[metas[e].video])
        /\ \A r \in 1..Len(videos[metas[e].video]) :
                    videos'[metas[e].video][r] = videos[metas[e].video][r]
    BY <1>3, <2>1
  <2> QED BY <2>2, StillShown
<1>6. VideoOrder' BY <1>2, <1>5 DEF Reading, VideoOrder
<1>7. EpisodesReadable'
  <2>1. \A e \in 1..intact : Readable(e)
    BY DEF Reading, EpisodesReadable
  <2>2. \A e \in 1..intact : Readable(e)' BY <1>2, <2>1 DEF Readable
  <2> QED BY <1>2, <1>5, <2>2, Zenon DEF EpisodesReadable, Dropped, VideoFrame
<1>8. Fresh' /\ InFiles' BY <1>2 DEF Reading, Fresh, InFiles
<1> QED BY <1>6, <1>7, <1>8 DEF Reading

(* The frames that were recorded, if the encoder lost none. *)
LEMMA ImagesShown ==
    ASSUME Inv, Images, stage = "video", VideoReady, Len(buffer) <= Len(images)
    PROVE  \A j \in 1..Len(buffer) : images[j] = buffer[j]
<1>1. images \in Seq(Nat) /\ buffer \in Seq(Nat) BY DEF Inv, Sound, Ranges
<1>2. CASE streaming
  <2>1. frameQueue = <<>> /\ ~ragged BY <1>2 DEF VideoReady, Flushed, Images
  <2>2. Waiting = images BY <1>1, <2>1, ConcatEmptySeq DEF Waiting
  <2>3. Len(images) <= Len(buffer) BY <1>2, <2>1, <2>2 DEF Images
  <2>4. Len(images) = Len(buffer) BY <1>1, <2>3
  <2> QED BY <1>2, <2>1, <2>2, <2>4 DEF Images
<1>3. CASE ~streaming BY <1>3 DEF Images
<1> QED BY <1>2, <1>3

(* An episode is saved: it is read as it was recorded.                       *)
LEMMA FinishReading ==
    ASSUME Inv, Reading, Images, FinishSave
    PROVE  Reading'
<1>1. /\ Sound /\ Ranges /\ Counts /\ Files /\ Contiguous /\ VideoOrder
      /\ stage = "video" /\ VideoReady /\ spoiled \in BOOLEAN
  BY DEF Inv, Sound, FinishSave, Reading, Flags
<1>2. PICK full \in BOOLEAN :
          videos' = VideoFiles(full) /\ metas' = Append(metas, EpisodeMeta(full))
  BY DEF FinishSave
<1>3. /\ UNCHANGED <<data, loaded, latestFile, spoiled, Table>>
      /\ stage' = "idle" /\ latestMeta' = TRUE
      /\ intact' = IF spoiled THEN intact ELSE intact + 1
      /\ info' = [episodes |-> info.episodes + 1, frames |-> info.frames + Len(buffer)]
  BY DEF FinishSave, CountEpisode, Table
<1> DEFINE m == EpisodeMeta(full)
           n == Len(metas)
<1>4. /\ n \in Nat /\ n = info.episodes /\ info.frames \in Nat /\ Len(buffer) \in Nat
      /\ metas \in Seq(Meta) /\ Len(images) \in Nat /\ images \in Seq(Nat)
      /\ latestFile \in 1..Len(data) /\ Len(data) \in Nat /\ data \in Seq(Seq(Row))
      /\ intact \in 0..n
  <2>1. /\ metas \in Seq(Meta) /\ images \in Seq(Nat) /\ buffer \in Seq(Nat)
        /\ data \in Seq(Seq(Row)) /\ info.frames \in Nat /\ latestFile \in Nat /\ intact \in Nat
    BY <1>1 DEF Ranges
  <2>2. /\ latestFile # 0 /\ latestFile <= Len(data)
        /\ n = info.episodes /\ intact <= info.episodes
    BY <1>1 DEF Files, Counts, Contiguous
  <2> QED BY <2>1, <2>2
<1>5. /\ videos' \in Seq(Seq(Nat)) /\ VideoFile(full) \in 1..Len(videos')
      /\ VideoStart(full) \in Nat
      /\ \A e \in 1..n :
            /\ metas[e].video <= VideoFile(full)
            /\ Len(videos[metas[e].video]) <= Len(videos'[metas[e].video])
            /\ \A r \in 1..Len(videos[metas[e].video]) :
                    videos'[metas[e].video][r] = videos[metas[e].video][r]
  <2>1. VideoStart(full) \in Nat BY <1>1, VideoAdded
  <2> QED BY <1>1, <1>2, <2>1, VideosKept
<1>6. /\ m.file = latestFile /\ m.from = info.frames /\ m.to = info.frames + Len(buffer)
      /\ m.video = VideoFile(full) /\ m.videoFrom = VideoStart(full)
      /\ m.videoTo = VideoStart(full) + Len(images) /\ m \in Meta
  <2>1. (IF metas = <<>> THEN 0 ELSE Last(metas).to) = info.frames
    BY <1>1, <1>4 DEF Contiguous, Last
  <2>2. VideoFile(full) \in Nat /\ latestFile \in Nat /\ VideoStart(full) + Len(images) \in Nat
    BY <1>4, <1>5
  <2>3. m = [file |-> latestFile, from |-> info.frames, to |-> info.frames + Len(buffer),
             video |-> VideoFile(full), videoFrom |-> VideoStart(full),
             videoTo |-> VideoStart(full) + Len(images)]
    BY <2>1 DEF EpisodeMeta
  <2>4. info.frames + Len(buffer) \in Nat BY <1>4
  <2> QED BY <1>4, <1>5, <2>2, <2>3, <2>4 DEF Meta
<1> HIDE DEF m
<1>7. /\ metas' \in Seq(Meta) /\ Len(metas') = n + 1 /\ metas'[n + 1] = m /\ metas' # <<>>
      /\ \A e \in 1..n : metas'[e] = metas[e]
  <2>1. metas' = Append(metas, m) BY <1>2 DEF m
  <2>2. /\ metas' \in Seq(Meta) /\ Len(metas') = n + 1 /\ metas'[n + 1] = m
        /\ \A e \in 1..n : metas'[e] = metas[e]
    BY <1>4, <1>6, <2>1
  <2>3. metas' # <<>> BY <1>4, <2>2
  <2> QED BY <2>2, <2>3
<1>8. ASSUME ~spoiled
      PROVE  /\ intact = n /\ latestFile = Len(data)
             /\ Len(Table) = info.frames + Len(buffer)
             /\ \A j \in 1..Len(buffer) : Table[info.frames + j] = EpisodeRows[j]
             /\ latestMeta => metas[n].videoTo = Len(videos[metas[n].video])
  BY <1>1, <1>4, <1>8 DEF Reading, Fresh
\* The video of the new episode: its file ends with the images.
<1>9. ASSUME ~spoiled
      PROVE  /\ Len(videos'[m.video]) = m.videoTo
             /\ \A j \in 1..Len(images) : videos'[m.video][m.videoFrom + j] = images[j]
  <2>1. CASE latestMeta /\ ~full
    <3> DEFINE old == videos[metas[n].video]
    <3>1. /\ videos'[m.video] = old \o images /\ m.videoFrom = metas[n].videoTo /\ metas # <<>>
      BY <1>1, <1>2, <1>6, <2>1, VideosKept
    <3>2. old \in Seq(Nat) /\ m.videoFrom = Len(old)
      <4>1. n \in 1..n BY <1>4, <3>1
      <4>2. metas[n].video \in 1..Len(videos) BY <1>1, <4>1 DEF Files
      <4> QED BY <1>1, <1>8, <1>9, <2>1, <3>1, <4>2 DEF Ranges
    <3> HIDE DEF old
    <3>3. /\ Len(old \o images) = Len(old) + Len(images) /\ Len(old) \in Nat
          /\ \A k \in 1..Len(old) + Len(images) :
                (old \o images)[k] = IF k <= Len(old) THEN old[k] ELSE images[k - Len(old)]
      BY <1>4, <3>2, ConcatProperties
    <3>4. m.videoTo = Len(old) + Len(images) BY <1>6, <3>2
    <3>5. ASSUME NEW j \in 1..Len(images) PROVE videos'[m.video][m.videoFrom + j] = images[j]
      <4> DEFINE k == Len(old) + j
      <4>1. k \in 1..Len(old) + Len(images) /\ ~(k <= Len(old)) /\ k - Len(old) = j
        BY <1>4, <3>3
      <4> HIDE DEF k
      <4>2. (old \o images)[k] = images[k - Len(old)] BY <3>3, <4>1
      <4>3. (old \o images)[k] = images[j] BY <4>1, <4>2
      <4> QED BY <3>1, <3>2, <4>3 DEF k
    <3> QED BY <3>1, <3>3, <3>4, <3>5
  <2>2. CASE ~(latestMeta /\ ~full)
    <3>1. videos'[m.video] = images /\ m.videoFrom = 0 BY <1>1, <1>2, <1>6, <2>2, VideosKept
    <3> QED BY <1>4, <1>6, <3>1
  <2> QED BY <2>1, <2>2
<1>10. Fresh'
  <2>1. ASSUME ~spoiled
        PROVE  /\ intact' = Len(metas') /\ latestFile' = Len(data')
               /\ Len(data') = metas'[Len(metas')].file /\ Len(Table') = info'.frames
               /\ metas'[Len(metas')].videoTo = Len(videos'[metas'[Len(metas')].video])
    BY <1>3, <1>4, <1>6, <1>7, <1>8, <1>9, <2>1
  <2>2. info'.frames \in Nat /\ info'.frames = info'.frames + 0 BY <1>3, <1>4
  <2> QED BY <1>3, <1>7, <2>1, <2>2 DEF Fresh
<1>11. ASSUME NEW e \in 1..intact'
       PROVE  \/ e \in 1..intact /\ e \in 1..n /\ metas'[e] = metas[e]
              \/ ~spoiled /\ e = n + 1 /\ metas'[e] = m
  <2>1. CASE spoiled
    <3>1. e \in 1..intact /\ e \in 1..n BY <1>3, <1>4, <2>1
    <3> QED BY <1>7, <3>1
  <2>2. CASE ~spoiled
    <3>1. (e \in 1..intact /\ e \in 1..n) \/ e = n + 1 BY <1>3, <1>4, <1>8, <2>2
    <3> QED BY <1>7, <2>2, <3>1
  <2> QED BY <1>1, <2>1, <2>2
<1>12. InFiles'
  <2>1. ASSUME NEW e \in 1..intact' PROVE metas'[e].to <= Len(Before(data, metas'[e].file))
    <3>1. CASE e \in 1..intact /\ metas'[e] = metas[e]
      BY <3>1 DEF Reading, InFiles
    <3>2. CASE ~spoiled /\ metas'[e] = m
      <4>1. Before(data, Len(data)) = Table BY <1>4, BeforeFirst DEF Table
      <4>2. metas'[e].to = Len(Before(data, metas'[e].file)) BY <1>6, <1>8, <3>2, <4>1
      <4> QED BY <1>4, <1>6, <3>2, <4>2
    <3> QED BY <1>11, <3>1, <3>2
  <2> QED BY <1>3, <2>1 DEF InFiles
<1>13. ASSUME NEW e \in 1..intact', e \in 1..intact, e \in 1..n, metas'[e] = metas[e]
       PROVE  /\ metas'[e].videoTo <= Len(videos'[metas'[e].video])
              /\ metas'[e].videoFrom <= metas'[e].videoTo
              /\ metas'[e].to <= Len(Table)
              /\ \A i \in metas'[e].from .. metas'[e].to - 1 :
                    /\ Table[i + 1].episode = e - 1
                    /\ Table[i + 1].index = i
              /\ ~(metas'[e].videoTo - metas'[e].videoFrom < metas'[e].to - metas'[e].from) =>
                 \A i \in metas'[e].from .. metas'[e].to - 1 :
                    /\ metas'[e].videoFrom + i - metas'[e].from < Len(videos'[metas'[e].video])
                    /\ videos'[metas'[e].video][metas'[e].videoFrom + i - metas'[e].from + 1]
                            = Table[i + 1].frame
  <2>1. /\ metas[e].videoFrom <= metas[e].videoTo /\ metas[e].to <= Len(Table)
        /\ \A i \in metas[e].from .. metas[e].to - 1 :
              /\ Table[i + 1].episode = e - 1
              /\ Table[i + 1].index = i
    BY <1>13 DEF Reading, VideoOrder, EpisodesReadable, Readable
  <2>2. Len(videos'[metas[e].video]) \in Nat
    <3>1. metas[e].video \in Nat /\ metas[e].video >= 1 /\ metas[e].video <= VideoFile(full)
      BY <1>1, <1>5, <1>13 DEF Files
    <3>2. metas[e].video \in 1..Len(videos') BY <1>5, <3>1
    <3> QED BY <1>5, <3>2
  <2>3. /\ metas[e].videoTo <= Len(videos'[metas[e].video])
        /\ ~Dropped(e) => \A i \in metas[e].from .. metas[e].to - 1 :
            /\ metas[e].videoFrom + i - metas[e].from < Len(videos'[metas[e].video])
            /\ videos'[metas[e].video][metas[e].videoFrom + i - metas[e].from + 1]
                    = Table[i + 1].frame
    BY <1>5, <1>13, <2>2, StillShown
  <2> QED BY <1>13, <2>1, <2>3, Zenon DEF Dropped
<1>14. ASSUME NEW e \in 1..intact', ~spoiled, e = n + 1, metas'[e] = m
       PROVE  /\ metas'[e].videoTo <= Len(videos'[metas'[e].video])
              /\ metas'[e].videoFrom <= metas'[e].videoTo
              /\ metas'[e].to <= Len(Table)
              /\ \A i \in metas'[e].from .. metas'[e].to - 1 :
                    /\ Table[i + 1].episode = e - 1
                    /\ Table[i + 1].index = i
              /\ ~(metas'[e].videoTo - metas'[e].videoFrom < metas'[e].to - metas'[e].from) =>
                 \A i \in metas'[e].from .. metas'[e].to - 1 :
                    /\ metas'[e].videoFrom + i - metas'[e].from < Len(videos'[metas'[e].video])
                    /\ videos'[metas'[e].video][metas'[e].videoFrom + i - metas'[e].from + 1]
                            = Table[i + 1].frame
  <2>1. /\ m.videoTo = Len(videos'[m.video]) /\ m.videoFrom <= m.videoTo
        /\ m.to = Len(Table) /\ m.videoTo \in Nat /\ m.to \in Nat /\ m.videoFrom \in Nat
    <3>1. m.videoTo = Len(videos'[m.video]) BY <1>9, <1>14
    <3>2. m.to = Len(Table)
      <4>1. m.to = info.frames + Len(buffer) BY <1>6, Zenon
      <4> QED BY <1>8, <1>14, <4>1
    <3>3. m.to \in Nat /\ m.videoTo \in Nat /\ m.videoFrom \in Nat BY <1>6 DEF Meta
    <3>4. m.videoFrom <= m.videoTo
      <4>1. m.videoFrom = VideoStart(full) /\ m.videoTo = VideoStart(full) + Len(images)
        BY <1>6, Zenon
      <4>2. Len(images) \in Nat BY <1>4
      <4> QED BY <3>3, <4>1, <4>2
    <3> QED BY <3>1, <3>2, <3>3, <3>4
  <2> DEFINE Rows == info.frames .. info.frames + Len(buffer) - 1
  <2>2. info.frames \in Nat /\ Len(buffer) \in Nat BY <1>4
  <2>3. m.from .. m.to - 1 = Rows
    <3>1. m.from = info.frames /\ m.to = info.frames + Len(buffer) BY <1>6, Zenon
    <3> QED BY <2>2, <3>1
  <2>4. ASSUME NEW i \in Rows
        PROVE  /\ Table[i + 1].episode = e - 1 /\ Table[i + 1].index = i
               /\ Table[i + 1].frame = buffer[i - info.frames + 1]
               /\ i - info.frames + 1 \in 1..Len(buffer)
    <3> DEFINE j == i - info.frames + 1
    <3>1. j \in 1..Len(buffer) /\ info.frames + j = i + 1 /\ info.frames + j - 1 = i
      BY <2>2
    <3>2. EpisodeRows[j] = [episode |-> info.episodes, index |-> info.frames + j - 1,
                            frame |-> buffer[j]]
      BY <3>1 DEF EpisodeRows
    <3>3. Table[info.frames + j] = EpisodeRows[j] BY <1>8, <1>14, <3>1
    <3>4. e - 1 = info.episodes BY <1>4, <1>14
    <3> HIDE DEF j
    <3>5. Table[i + 1] = [episode |-> e - 1, index |-> i, frame |-> buffer[j]]
      BY <3>1, <3>2, <3>3, <3>4
    <3> QED BY <3>1, <3>5 DEF j
  <2>5. ASSUME ~(m.videoTo - m.videoFrom < m.to - m.from), NEW i \in Rows
        PROVE  /\ m.videoFrom + i - m.from < Len(videos'[m.video])
               /\ videos'[m.video][m.videoFrom + i - m.from + 1] = Table[i + 1].frame
    <3> DEFINE j == i - info.frames + 1
    <3>1. Len(buffer) <= Len(images)
      <4>1. /\ m.from = info.frames /\ m.to = info.frames + Len(buffer)
            /\ m.videoTo = m.videoFrom + Len(images) /\ Len(images) \in Nat
        BY <1>4, <1>6, Zenon
      <4> QED BY <2>1, <2>5, <2>2, <4>1
    <3>2. j \in 1..Len(buffer) /\ Table[i + 1].frame = buffer[j] BY <2>4
    <3>3. images[j] = buffer[j] BY <1>1, <3>1, <3>2, ImagesShown
    <3>4. j \in 1..Len(images) BY <1>4, <3>1, <3>2
    <3>5. videos'[m.video][m.videoFrom + j] = images[j] BY <1>9, <1>14, <3>4
    <3>6. /\ m.videoFrom + i - m.from + 1 = m.videoFrom + j
          /\ m.videoFrom + i - m.from < m.videoTo
      <4>1. i \in Int /\ m.videoFrom \in Nat /\ m.from = info.frames
            /\ m.videoTo = m.videoFrom + Len(images)
        BY <1>4, <1>5, <1>6, <2>1
      <4>2. Len(images) \in Nat BY <1>4
      <4> QED BY <2>2, <3>4, <4>1, <4>2
    <3> QED BY <2>1, <3>2, <3>3, <3>5, <3>6
  <2>6. m.to <= Len(Table) /\ m.videoTo <= Len(videos'[m.video]) BY <2>1
  <2> QED BY <1>14, <2>1, <2>4, <2>5, <2>6, <2>3
<1>15. VideoOrder'
  <2>1. ASSUME NEW e \in 1..Len(metas') PROVE metas'[e].video <= metas'[Len(metas')].video
    <3>1. CASE e \in 1..n BY <1>5, <1>6, <1>7, <3>1
    <3>2. CASE e = n + 1
      <4>1. m.video \in Nat BY <1>5, <1>6
      <4> QED BY <1>7, <3>2, <4>1
    <3> QED BY <1>4, <1>7, <3>1, <3>2
  <2>2. \A e \in 1..intact' : /\ metas'[e].videoTo <= Len(videos'[metas'[e].video])
                              /\ metas'[e].videoFrom <= metas'[e].videoTo
    BY <1>11, <1>13, <1>14
  <2> QED BY <1>3, <2>1, <2>2 DEF VideoOrder
<1>16. EpisodesReadable'
  <2>1. ASSUME NEW e \in 1..intact'
        PROVE  /\ metas'[e].to <= Len(Table)
               /\ \A i \in metas'[e].from .. metas'[e].to - 1 :
                    /\ Table[i + 1].episode = e - 1
                    /\ Table[i + 1].index = i
               /\ ~(metas'[e].videoTo - metas'[e].videoFrom < metas'[e].to - metas'[e].from) =>
                 \A i \in metas'[e].from .. metas'[e].to - 1 :
                    /\ metas'[e].videoFrom + i - metas'[e].from < Len(videos'[metas'[e].video])
                    /\ videos'[metas'[e].video][metas'[e].videoFrom + i - metas'[e].from + 1]
                            = Table[i + 1].frame
    BY <1>11, <1>13, <1>14
  <2> QED BY <1>3, <2>1, Zenon DEF EpisodesReadable, Readable, Dropped, VideoFrame
<1> QED BY <1>10, <1>12, <1>15, <1>16 DEF Reading

(* A resumed session reads what the one before it left. *)
LEMMA ResumeReading ==
    ASSUME Inv, Reading, Resume
    PROVE  Reading'
<1> USE DEF diskVars, fileVars, bufferVars, historyVars
<1>1. /\ UNCHANGED <<info, metas, data, videos, spoiled, intact, Table>>
      /\ loaded' = Len(metas) /\ latestFile' = 0 /\ latestMeta' = FALSE
      /\ stage = "closed" /\ stage' = "idle"
  BY DEF Resume, Table
<1>2. Fresh' BY <1>1 DEF Reading, Fresh
<1>3. InFiles' BY <1>1 DEF Reading, InFiles
<1>4. VideoOrder' BY <1>1 DEF Reading, VideoOrder
<1>5. EpisodesReadable'
  <2> QED BY <1>1, ReadAlike DEF Reading
<1> QED BY <1>2, <1>3, <1>4, <1>5 DEF Reading

(* Every step keeps what can be read. *)
LEMMA ReadingStep ==
    ASSUME Inv, Reading, Images, [Next]_vars
    PROVE  Reading'
<1> USE DEF diskVars, fileVars, bufferVars, historyVars
<1>1. CASE AddFrame
  <2>1. /\ UNCHANGED <<info, metas, data, videos, fileVars>> /\ UNCHANGED <<spoiled, intact>>
        /\ stage' = stage /\ stage # "video"
    BY <1>1 DEF AddFrame
  <2> QED BY <2>1, FilesQuiet
<1>2. CASE AddFrameFails
  <2>1. /\ UNCHANGED <<info, metas, data, videos, fileVars>> /\ UNCHANGED <<spoiled, intact>>
        /\ stage' = stage /\ buffer' = buffer
    BY <1>2 DEF AddFrameFails
  <2> QED BY <2>1, FilesQuiet
<1>3. CASE BeginSave \/ StackFails
  <2>1. /\ UNCHANGED <<info, metas, data, videos, fileVars>> /\ UNCHANGED <<spoiled, intact>>
        /\ stage # "video" /\ stage' # "video"
    BY <1>3 DEF BeginSave, StackFails
  <2> QED BY <2>1, FilesQuiet
<1>4. CASE SaveRows BY <1>4, RowsReading
<1>5. CASE VideoFails BY <1>5, VideoFailsReading
<1>6. CASE FinishSave BY <1>6, FinishReading
<1>7. CASE ClearBuffer
  <2>1. /\ UNCHANGED <<info, metas, data, videos, fileVars>> /\ UNCHANGED <<spoiled, intact>>
        /\ stage' = stage /\ stage # "video"
    BY <1>7 DEF ClearBuffer
  <2> QED BY <2>1, FilesQuiet
<1>8. CASE Encoder
  <2>1. /\ UNCHANGED <<info, metas, data, videos, fileVars>> /\ UNCHANGED <<spoiled, intact>>
        /\ stage' = stage /\ buffer' = buffer
    BY <1>8 DEF Encoder, EncodeFrame, FrameEncoded, EncoderFails
  <2> QED BY <2>1, FilesQuiet
<1>9. CASE Finalize
  <2>1. /\ UNCHANGED <<info, metas, data, videos, loaded, latestFile, latestMeta>>
        /\ UNCHANGED <<spoiled, intact, Table>>
        /\ stage # "video" /\ stage' # "video"
    BY <1>9 DEF Finalize, Table
  <2>2. Fresh' /\ InFiles' /\ VideoOrder' BY <2>1 DEF Reading, Fresh, InFiles, VideoOrder
  <2>3. EpisodesReadable'
    BY <2>1, ReadAlike DEF Reading
  <2> QED BY <2>2, <2>3 DEF Reading
<1>10. CASE Resume BY <1>10, ResumeReading
<1>11. CASE UNCHANGED vars
  <2>1. /\ UNCHANGED <<info, metas, data, videos, fileVars>> /\ UNCHANGED <<spoiled, intact>>
        /\ stage' = stage /\ buffer' = buffer
    BY <1>11 DEF vars
  <2> QED BY <2>1, FilesQuiet
<1> QED BY <1>1, <1>2, <1>3, <1>4, <1>5, <1>6, <1>7, <1>8, <1>9, <1>10, <1>11
        DEF Next, SaveEpisode, Terminated
-----------------------------------------------------------------------------
(* A frame that is added is the next in the encoder's line, or none of it.   *)
LEMMA AddImages ==
    ASSUME Inv, Images, AddFrame
    PROVE  Images'
<1> USE DEF diskVars, fileVars, bufferVars, historyVars
<1> DEFINE f == frames + 1
<1>1. /\ images \in Seq(Nat) /\ frameQueue \in Seq(Nat) /\ buffer \in Seq(Nat) /\ f \in Nat
      /\ Waiting \in Seq(Nat)
  BY DEF Inv, Sound, Ranges, FrameQueue, Waiting
<1>2. /\ buffer' = Append(buffer, f) /\ stage = "idle" /\ ~taken /\ AddImage(f)
      /\ UNCHANGED <<streaming, ragged, taken, stage>>
  BY DEF AddFrame
<1> HIDE DEF f
<1>3. /\ Len(buffer') = Len(buffer) + 1 /\ Len(buffer) \in Nat /\ buffer' \in Seq(Nat)
      /\ buffer'[Len(buffer) + 1] = f /\ \A i \in 1..Len(buffer) : buffer'[i] = buffer[i]
  BY <1>1, <1>2
<1>4. ASSUME streaming, ~ragged
      PROVE  /\ Len(Waiting') <= Len(buffer')
             /\ Len(Waiting') = Len(buffer') => Waiting' = buffer'
  <2>1. CASE buffer = <<>> /\ StartEncoder(<<f>>)
    <3>1. Waiting' = <<>> \o <<f>> BY <2>1 DEF StartEncoder, Waiting
    <3>2. <<f>> \in Seq(Nat) BY <1>1
    <3>3. Waiting' = <<f>> BY <3>1, <3>2, ConcatEmptySeq
    <3>4. buffer' = <<f>> BY <1>2, <2>1
    <3> QED BY <3>3, <3>4
  <2>2. CASE buffer # <<>> /\ FeedFrame(f)
    <3>1. images' = images /\ (frameQueue' = frameQueue \/ frameQueue' = Append(frameQueue, f))
      BY <2>2 DEF FeedFrame
    <3>2. CASE frameQueue' = frameQueue
      <4>1. Waiting' = Waiting BY <3>1, <3>2 DEF Waiting
      <4> QED BY <1>1, <1>3, <1>4, <4>1 DEF Images
    <3>3. CASE frameQueue' = Append(frameQueue, f)
      <4>1. Waiting' = Append(Waiting, f)
        <5>1. images \o Append(frameQueue, f) = Append(images \o frameQueue, f) BY <1>1
        <5> QED BY <3>1, <3>3, <5>1 DEF Waiting
      <4>2. Len(Waiting') = Len(Waiting) + 1 /\ Len(Waiting) \in Nat BY <1>1, <4>1
      <4> QED BY <1>2, <1>3, <1>4, <4>1, <4>2 DEF Images
    <3> QED BY <3>1, <3>2, <3>3
  <2> QED BY <1>2, <1>4, <2>1, <2>2 DEF AddImage
<1>5. ASSUME ~streaming
      PROVE  /\ Len(buffer') <= Len(images')
             /\ \A i \in 1..Len(buffer') : images'[i] = buffer'[i]
  <2>1. /\ Len(buffer) <= Len(images) /\ Len(images) \in Nat
        /\ \A i \in 1..Len(buffer) : images[i] = buffer[i]
    BY <1>1, <1>2, <1>5 DEF Images
  <2>2. images' = Put(images, Len(buffer) + 1, f) BY <1>2, <1>5 DEF AddImage
  <2>3. Len(buffer) + 1 \in 1..Len(images) + 1 BY <1>3, <2>1
  <2>4. /\ images' \in Seq(Nat) /\ Len(buffer) + 1 <= Len(images')
        /\ images'[Len(buffer) + 1] = f
        /\ \A j \in 1..Len(images) : j # Len(buffer) + 1 => images'[j] = images[j]
    <3> DEFINE k == Len(buffer) + 1
    <3>1. k \in 1..Len(images) + 1 /\ images' = Put(images, k, f) BY <2>2, <2>3
    <3> HIDE DEF k
    <3>2. /\ images' \in Seq(Nat) /\ k <= Len(images') /\ images'[k] = f
          /\ \A j \in 1..Len(images) : j # k => images'[j] = images[j]
      <4> DEFINE S == Nat
      <4>1. images \in Seq(S) /\ f \in S BY <1>1
      <4> HIDE DEF S
      <4>2. /\ images' \in Seq(S) /\ k <= Len(images') /\ images'[k] = f
            /\ \A j \in 1..Len(images) : j # k => images'[j] = images[j]
        BY <3>1, <4>1, PutFile
      <4> QED BY <4>2 DEF S
    <3> QED BY <3>2 DEF k
  <2>5. ASSUME NEW i \in 1..Len(buffer') PROVE images'[i] = buffer'[i]
    <3>1. CASE i = Len(buffer) + 1 BY <1>3, <2>4, <3>1
    <3>2. CASE i # Len(buffer) + 1
      <4>1. i \in 1..Len(buffer) /\ i \in 1..Len(images) BY <1>3, <2>1, <3>2
      <4> QED BY <1>3, <2>1, <2>4, <3>2, <4>1
    <3> QED BY <3>1, <3>2
  <2> QED BY <1>3, <2>4, <2>5
<1> QED BY <1>2, <1>4, <1>5 DEF Images

(* A frame that failed leaves its image behind those of the buffer. *)
LEMMA FailedImages ==
    ASSUME Inv, Images, AddFrameFails
    PROVE  Images'
<1> USE DEF diskVars, fileVars, bufferVars, historyVars
<1>1. /\ images \in Seq(Nat) /\ buffer \in Seq(Nat) /\ frames + 1 \in Nat
      /\ Len(buffer) \in Nat /\ Len(images) \in Nat
  BY DEF Inv, Sound, Ranges
<1>2. /\ ragged' = TRUE /\ stage = "idle" /\ ~taken
      /\ UNCHANGED <<streaming, buffer, taken, stage>>
  BY DEF AddFrameFails
<1>3. ASSUME ~streaming
      PROVE  /\ Len(buffer) <= Len(images')
             /\ \A i \in 1..Len(buffer) : images'[i] = buffer[i]
  <2>1. /\ Len(buffer) <= Len(images) /\ \A i \in 1..Len(buffer) : images[i] = buffer[i]
    BY <1>2, <1>3 DEF Images
  <2>2. CASE images' = images BY <2>1, <2>2
  <2>3. CASE images' = Put(images, Len(buffer) + 1, frames + 1)
    <3>1. Len(buffer) + 1 \in 1..Len(images) + 1 BY <1>1, <2>1
    <3>2. /\ images' \in Seq(Nat) /\ Len(images) <= Len(images')
          /\ \A j \in 1..Len(images) : j # Len(buffer) + 1 => images'[j] = images[j]
      <4> DEFINE k == Len(buffer) + 1
                 f == frames + 1
      <4>1. k \in 1..Len(images) + 1 /\ images' = Put(images, k, f) /\ f \in Nat
        BY <1>1, <2>3, <3>1
      <4> HIDE DEF k, f
      <4> DEFINE S == Nat
      <4>2. images \in Seq(S) /\ f \in S BY <1>1, <4>1
      <4> HIDE DEF S
      <4>3. /\ images' \in Seq(S) /\ Len(images) <= Len(images')
            /\ \A j \in 1..Len(images) : j # k => images'[j] = images[j]
        BY <4>1, <4>2, PutFile
      <4> QED BY <4>3 DEF S, k
    <3>3. Len(images') \in Nat BY <3>2
    <3>4. \A i \in 1..Len(buffer) : i \in 1..Len(images) /\ i # Len(buffer) + 1 BY <1>1, <2>1
    <3> QED BY <1>1, <2>1, <3>2, <3>3, <3>4
  <2> QED BY <1>3, <2>2, <2>3 DEF AddFrameFails, AddImage
<1> QED BY <1>2, <1>3 DEF Images

(* The encoder takes the frames in their order. *)
LEMMA EncoderImages ==
    ASSUME Inv, Images, Encoder
    PROVE  Images'
<1> USE DEF diskVars, fileVars, bufferVars, historyVars
<1>1. UNCHANGED <<streaming, buffer, ragged, taken, stage>>
  BY DEF Encoder, EncodeFrame, FrameEncoded, EncoderFails
<1>2. images \in Seq(Nat) /\ frameQueue \in Seq(Nat)
  BY DEF Inv, Sound, Ranges, FrameQueue
<1>3. CASE UNCHANGED <<images, frameQueue>> BY <1>1, <1>3 DEF Images, Waiting
<1>4. CASE EncodeFrame
  <2>1. /\ frameQueue # <<>> /\ images' = Append(images, Head(frameQueue))
        /\ frameQueue' = Tail(frameQueue) /\ encoder = "wait"
    BY <1>4 DEF EncodeFrame
  <2>2. Append(images, Head(frameQueue)) \o Tail(frameQueue) = images \o frameQueue
    BY <1>2, <2>1
  <2>3. Waiting' = Waiting BY <2>1, <2>2 DEF Waiting
  <2>4. ~(streaming /\ stage = "closed") BY <2>1 DEF Images
  <2>5. ~streaming => \A i \in 1..Len(images) : images'[i] = images[i]
    BY <1>2, <2>1
  <2>6. Len(images') = Len(images) + 1 /\ Len(images) \in Nat BY <1>2, <2>1
  <2>7. Len(buffer) \in Nat BY DEF Inv, Sound, Ranges
  <2>8. Len(buffer) <= Len(images) => \A i \in 1..Len(buffer) : i \in 1..Len(images)
    BY <2>6, <2>7
  <2>9. Len(buffer) <= Len(images) => Len(buffer) <= Len(images') BY <2>6, <2>7
  <2> QED BY <1>1, <2>3, <2>4, <2>5, <2>8, <2>9 DEF Images
<1> QED BY <1>3, <1>4 DEF Encoder, FrameEncoded, EncoderFails

(* A save is begun with all that the encoder has, and ends without any. *)
LEMMA SaveImages ==
    ASSUME Inv, Images, BeginSave \/ StackFails \/ SaveRows \/ VideoFails \/ FinishSave
    PROVE  Images'
<1> USE DEF diskVars, fileVars, bufferVars, historyVars
<1>1. /\ images \in Seq(Nat) /\ frameQueue \in Seq(Nat) /\ buffer \in Seq(Nat)
      /\ Len(buffer) \in Nat /\ Waiting \in Seq(Nat)
      /\ stage \in {"idle", "rows", "video", "closed"}
  BY DEF Inv, Sound, Ranges, FrameQueue, Waiting, Flags
<1>2. CASE BeginSave \/ StackFails \/ SaveRows
  <2>1. UNCHANGED <<streaming, buffer, ragged, images, frameQueue, Waiting>>
    BY <1>2 DEF BeginSave, StackFails, SaveRows, Waiting
  <2>2. /\ stage' # "closed" /\ ((stage = "idle" /\ ~taken) \/ stage = "rows")
        /\ (stage' = "video" => ~ragged)
        /\ (stage' = "idle" => taken' = taken) /\ (stage' \in {"rows", "video"} => taken')
    BY <1>2 DEF Images, BeginSave, StackFails, SaveRows
  <2> QED BY <2>1, <2>2 DEF Images
<1>3. CASE VideoFails
  <2>1. /\ UNCHANGED <<streaming, buffer, ragged, taken>> /\ stage' = "idle" /\ stage = "video"
        /\ taken
    BY <1>3 DEF VideoFails, Images
  <2>2. ASSUME streaming
        PROVE  Waiting' = Waiting \/ Waiting' = <<>>
    <3>1. CASE UNCHANGED <<images, frameQueue>> BY <3>1 DEF Waiting
    <3>2. CASE /\ VideoReady /\ EncoderOff
               /\ UNCHANGED <<videos, images>> \/ images' = <<>>
      <4>1. frameQueue = <<>> /\ frameQueue' = <<>> /\ images' \in {images, <<>>}
        BY <2>2, <3>2 DEF VideoReady, Flushed, EncoderOff
      <4>2. <<>> \o <<>> = <<>> BY ConcatEmptySeq
      <4> QED BY <4>1, <4>2 DEF Waiting
    <3> QED BY <1>3, <3>1, <3>2 DEF VideoFails
  <2>3. ASSUME streaming, ~ragged
        PROVE  /\ Len(Waiting') <= Len(buffer)
               /\ Len(Waiting') = Len(buffer) => Waiting' = buffer
    <3>1. CASE Waiting' = Waiting BY <2>3, <3>1 DEF Images
    <3>2. CASE Waiting' = <<>> BY <1>1, <3>2
    <3> QED BY <2>2, <2>3, <3>1, <3>2
  <2> QED BY <2>1, <2>3 DEF Images
<1>4. CASE FinishSave
  <2>1. /\ streaming' = streaming /\ buffer' = <<>> /\ images' = <<>> /\ frameQueue' = <<>>
        /\ stage' = "idle"
    BY <1>4 DEF FinishSave, EncoderOff
  <2>2. Waiting' = <<>> BY <2>1, ConcatEmptySeq DEF Waiting
  <2> QED BY <2>1, <2>2 DEF Images
<1> QED BY <1>2, <1>3, <1>4

(* A discarded attempt leaves nothing to the encoder. *)
LEMMA OtherImages ==
    ASSUME Inv, Images, ClearBuffer \/ Finalize \/ Resume \/ UNCHANGED vars
    PROVE  Images'
<1> USE DEF diskVars, fileVars, bufferVars, historyVars
<1>1. <<>> \o <<>> = <<>> BY ConcatEmptySeq
<1>2. buffer \in Seq(Nat) /\ images \in Seq(Nat) BY DEF Inv, Sound, Ranges
<1>3. CASE ClearBuffer
  <2>1. /\ streaming' = streaming /\ buffer' = <<>> /\ frameQueue' = <<>> /\ stage' = "idle"
        /\ images' = (IF streaming THEN <<>> ELSE images)
    BY <1>3 DEF ClearBuffer, EncoderOff
  <2>2. streaming => Waiting' = <<>> BY <1>1, <2>1 DEF Waiting
  <2>3. Len(images') \in Nat BY <1>2, <2>1
  <2> QED BY <2>1, <2>2, <2>3 DEF Images
<1>4. CASE Finalize
  <2>1. /\ UNCHANGED <<streaming, buffer>> /\ frameQueue' = <<>> /\ stage' = "closed"
        /\ (streaming => images' = <<>>)
    BY <1>4 DEF Finalize, EncoderOff
  <2>2. streaming => Waiting' = <<>> BY <1>1, <2>1 DEF Waiting
  <2>3. Len(buffer) \in Nat /\ (Len(buffer) = 0 => buffer = <<>>) BY <1>2
  <2> QED BY <2>1, <2>2, <2>3 DEF Images
<1>5. CASE Resume
  <2>1. /\ UNCHANGED <<streaming, images, frameQueue>> /\ buffer' = <<>>
        /\ stage = "closed" /\ stage' = "idle"
    BY <1>5 DEF Resume
  <2>2. streaming => Waiting' = <<>> BY <1>1, <2>1 DEF Waiting, Images
  <2>3. Len(images') \in Nat BY <1>2, <2>1
  <2> QED BY <2>1, <2>2, <2>3 DEF Images
<1>6. CASE UNCHANGED vars
  <2>1. UNCHANGED <<streaming, buffer, ragged, taken, images, frameQueue, stage, Waiting>>
    BY <1>6 DEF vars, Waiting
  <2> QED BY <2>1 DEF Images
<1> QED BY <1>3, <1>4, <1>5, <1>6

(* Every step keeps what is said of the images. *)
LEMMA ImagesStep ==
    ASSUME Inv, Images, [Next]_vars
    PROVE  Images'
BY AddImages, FailedImages, EncoderImages, SaveImages, OtherImages
   DEF Next, SaveEpisode, Terminated

-----------------------------------------------------------------------------
(* A dataset that was created has nothing to read. *)
LEMMA ReadingInitially ==
    ASSUME Init
    PROVE  Reading /\ Images
<1>1. Table = <<>> /\ FlattenSeq(data) = <<>> BY DEF Init, Table, FlattenSeq
<1>2. Fresh BY <1>1 DEF Init, Fresh
<1>3. InFiles /\ VideoOrder /\ EpisodesReadable BY DEF Init, InFiles, VideoOrder, EpisodesReadable
<1>4. Waiting = <<>>
  <2>1. <<>> \o <<>> = <<>> BY ConcatEmptySeq
  <2> QED BY <2>1 DEF Init, Waiting
<1>5. Images BY <1>4 DEF Init, Images
<1> QED BY <1>2, <1>3, <1>5 DEF Reading

(* What can be read, and what is recorded, in every state. *)
THEOREM ReadingInvariance == Spec => [](Reading /\ Images)
<1>1. Init => Reading /\ Images BY ReadingInitially
<1>2. Inv /\ Reading /\ Images /\ [Next]_vars => (Reading /\ Images)'
  BY ReadingStep, ImagesStep
<1> QED BY <1>1, <1>2, Invariance, PTL DEF Spec

(* Every episode saved before the first save that failed after its rows is   *)
(* read where its metadata says, row by row, and shows the frames of its own *)
(* video: over any number of files, sessions, failures and discarded         *)
(* attempts (DatasetReader over what DatasetWriter.save_episode wrote).      *)
THEOREM EpisodesRead == Spec => []EpisodesReadable
<1>1. Reading /\ Images => EpisodesReadable BY DEF Reading
<1> QED BY <1>1, ReadingInvariance, PTL
-----------------------------------------------------------------------------
(* The frames that wait are frames that were added. *)
Numbered == buffer \in Seq(1..MaxFrames)

(* The log: what is read of the episodes. *)
Logged ==
    [e \in 1..intact |->
        [i \in 1..(metas[e].to - metas[e].from) |-> Table[metas[e].from + i].frame]]

(* Every step keeps the frames that wait, adds one or drops all.             *)
LEMMA BufferSteps ==
    ASSUME Inv, Numbered, [Next]_vars
    PROVE  /\ Numbered'
           /\ \/ AddFrame /\ \E f \in 1..MaxFrames : buffer' = Append(buffer, f)
              \/ ~AddFrame /\ (buffer' = <<>> \/ buffer' = buffer)
<1> USE DEF diskVars, fileVars, bufferVars, historyVars
<1>1. frames \in 0..MaxFrames /\ MaxFrames \in Nat BY WriterAssumption DEF Inv, Sound, Ranges
<1>2. CASE AddFrame
  <2>1. frames + 1 \in 1..MaxFrames /\ buffer' = Append(buffer, frames + 1)
    BY <1>1, <1>2 DEF AddFrame
  <2> QED BY <1>2, <2>1 DEF Numbered
<1>3. CASE ~AddFrame
  <2>1. buffer' = <<>> \/ buffer' = buffer
    BY <1>3 DEF Next, SaveEpisode, Terminated, Encoder, AddFrameFails, BeginSave, StackFails,
                SaveRows, VideoFails, FinishSave, ClearBuffer, EncodeFrame, FrameEncoded,
                EncoderFails, Finalize, Resume, vars
  <2>2. <<>> \in Seq(1..MaxFrames) OBVIOUS
  <2>3. Numbered' BY <2>1, <2>2 DEF Numbered
  <2> QED BY <1>3, <2>1, <2>3, Zenon
<1> QED BY <1>2, <1>3

(* The log is the same if the rows it names are. *)
LEMMA LogKept ==
    ASSUME Inv, intact' = intact,
           \A e \in 1..intact :
                /\ metas'[e] = metas[e]
                /\ \A i \in metas[e].from .. metas[e].to - 1 : Table'[i + 1] = Table[i + 1]
    PROVE  Logged' = Logged
<1>1. ASSUME NEW e \in 1..intact
      PROVE  [i \in 1..(metas'[e].to - metas'[e].from) |-> Table'[metas'[e].from + i].frame]
               = [i \in 1..(metas[e].to - metas[e].from) |-> Table[metas[e].from + i].frame]
  <2>1. metas'[e] = metas[e] OBVIOUS
  <2>2. metas[e].from \in Nat /\ metas[e].to \in Nat
    <3>1. e \in 1..Len(metas) BY DEF Inv, Sound, Contiguous, Counts, Ranges
    <3> QED BY <3>1, MetaTyped DEF Inv, Sound
  <2>3. ASSUME NEW i \in 1..(metas[e].to - metas[e].from)
        PROVE  Table'[metas[e].from + i] = Table[metas[e].from + i]
    <3> DEFINE k == metas[e].from + i - 1
    <3>1. k \in metas[e].from .. metas[e].to - 1 /\ k + 1 = metas[e].from + i BY <2>2
    <3> HIDE DEF k
    <3>2. Table'[k + 1] = Table[k + 1] BY <3>1
    <3> QED BY <3>1, <3>2
  <2> QED BY <2>1, <2>3, Zenon
<1> QED BY <1>1, Zenon DEF Logged

(* Every step leaves the log alone, or adds the episode that was collected.  *)
LEMMA LogStep ==
    ASSUME Inv, Reading, Images, Numbered, [Next]_vars
    PROVE  \/ Logged' = Logged /\ \E f \in 1..MaxFrames : buffer' = Append(buffer, f)
           \/ Logged' = Logged /\ buffer' = <<>>
           \/ Logged' = Logged /\ buffer' = buffer
           \/ buffer # <<>> /\ Logged' = Append(Logged, buffer) /\ buffer' = <<>>
<1> USE DEF diskVars, fileVars, bufferVars, historyVars
<1>1. CASE SaveRows
  <2>1. PICK full \in BOOLEAN : data' = DataFiles(full) BY <1>1 DEF SaveRows
  <2>2. Sound /\ stage = "rows" /\ UNCHANGED <<metas, intact, buffer>>
    BY <1>1 DEF Inv, SaveRows
  <2>3. ASSUME NEW e \in 1..intact
        PROVE  \A i \in metas[e].from .. metas[e].to - 1 : Table'[i + 1] = Table[i + 1]
    <3>1. e \in 1..Len(metas) BY <2>2 DEF Sound, Contiguous, Counts, Ranges
    <3> DEFINE n == Len(Before(data, metas[e].file))
    <3>2. n \in Nat /\ \A r \in 1..n : Table'[r] = Table[r]
      BY <2>1, <2>2, <3>1, EpisodesStillRead DEF Table
    <3>3. metas[e].to \in Nat /\ metas[e].from \in Nat BY <2>2, <3>1, MetaTyped DEF Sound
    <3>4. metas[e].to <= n BY DEF Reading, InFiles
    <3> HIDE DEF n
    <3> QED BY <3>2, <3>3, <3>4
  <2>4. Logged' = Logged BY <2>2, <2>3, LogKept
  <2> QED BY <2>2, <2>4
<1>2. CASE FinishSave
  <2>1. /\ Sound /\ Ranges /\ stage = "video" /\ Table' = Table /\ buffer' = <<>>
        /\ spoiled \in BOOLEAN /\ buffer # <<>> /\ buffer \in Seq(Nat) /\ metas \in Seq(Meta)
        /\ intact \in Nat /\ intact <= Len(metas) /\ Len(metas) \in Nat
    BY <1>2 DEF Inv, Sound, FinishSave, Table, Flags, Counts, Contiguous, Ranges
  <2>2. PICK full \in BOOLEAN : metas' = Append(metas, EpisodeMeta(full)) BY <1>2 DEF FinishSave
  <2>3. \A e \in 1..Len(metas) : metas'[e] = metas[e]
    BY <2>1, <2>2
  <2>4. CASE spoiled
    <3>1. intact' = intact BY <1>2, <2>4 DEF FinishSave
    <3>2. \A e \in 1..intact : metas'[e] = metas[e] BY <2>1, <2>3
    <3>3. Logged' = Logged BY <2>1, <3>1, <3>2, LogKept
    <3> QED BY <2>1, <3>3
  <2>5. CASE ~spoiled
    <3> DEFINE n == Len(metas)
               m == EpisodeMeta(full)
               Read(e) == [i \in 1..(metas[e].to - metas[e].from) |->
                              Table[metas[e].from + i].frame]
               ReadNew(e) == [i \in 1..(metas'[e].to - metas'[e].from) |->
                                 Table[metas'[e].from + i].frame]
    <3>1. /\ intact = n /\ intact' = n + 1
          /\ \A i \in 1..Len(buffer) : Table[info.frames + i] = EpisodeRows[i]
      BY <1>2, <2>1, <2>5 DEF FinishSave, Reading, Fresh
    <3>2. metas'[n + 1] = m BY <2>1, <2>2
    <3>3. m.from = info.frames /\ m.to = info.frames + Len(buffer)
      <4>1. (IF metas = <<>> THEN 0 ELSE Last(metas).to) = info.frames
        BY <2>1 DEF Sound, Contiguous, Last
      <4> QED BY <4>1 DEF EpisodeMeta
    <3>4. info.frames \in Nat /\ Len(buffer) \in Nat BY <2>1 DEF Ranges
    <3>5. ReadNew(n + 1) = buffer
      <4>1. metas'[n + 1].to - metas'[n + 1].from = Len(buffer) /\ metas'[n + 1].from = info.frames
        <5>1. metas'[n + 1].from = info.frames /\ metas'[n + 1].to = info.frames + Len(buffer)
          BY <3>2, <3>3, Zenon
        <5> QED BY <3>4, <5>1
      <4>2. ReadNew(n + 1) = [i \in 1..Len(buffer) |-> Table[info.frames + i].frame]
        BY <4>1, Zenon
      <4>3. ASSUME NEW i \in 1..Len(buffer) PROVE Table[info.frames + i].frame = buffer[i]
        <5>1. EpisodeRows[i] = [episode |-> info.episodes, index |-> info.frames + i - 1,
                                frame |-> buffer[i]]
          BY DEF EpisodeRows
        <5>2. EpisodeRows[i].frame = buffer[i] BY <5>1
        <5> QED BY <3>1, <5>2, Zenon
      <4>4. buffer = [i \in 1..Len(buffer) |-> buffer[i]] BY <2>1
      <4> QED BY <4>2, <4>3, <4>4, Zenon
    <3>6. \A e \in 1..n : ReadNew(e) = Read(e) BY <2>3, Zenon
    <3>7. Logged = [e \in 1..n |-> Read(e)] BY <3>1, Zenon DEF Logged
    <3>8. Logged' = [e \in 1..n + 1 |-> ReadNew(e)] BY <2>1, <3>1, Zenon DEF Logged
    <3> HIDE DEF Read, ReadNew
    <3>9. Append([e \in 1..n |-> Read(e)], buffer) = [e \in 1..n + 1 |-> ReadNew(e)]
      <4> DEFINE s == [e \in 1..n |-> Read(e)]
                 t == [e \in 1..n + 1 |-> ReadNew(e)]
      <4>1. Len(s) = n BY <2>1
      <4>2. Append(s, buffer) = [e \in 1..n + 1 |-> IF e <= n THEN s[e] ELSE buffer]
        BY <2>1, <4>1
      <4>3. ASSUME NEW e \in 1..n + 1
            PROVE  (IF e <= n THEN s[e] ELSE buffer) = ReadNew(e)
        <5>1. CASE e <= n
          <6>1. e \in 1..n BY <2>1, <5>1
          <6> QED BY <3>6, <5>1, <6>1
        <5>2. CASE ~(e <= n)
          <6>1. e = n + 1 BY <2>1, <5>2
          <6> QED BY <3>5, <5>2, <6>1
        <5> QED BY <5>1, <5>2
      <4> HIDE DEF s
      <4>4. Append(s, buffer) = t BY <4>2, <4>3, Zenon
      <4> QED BY <4>4, Zenon DEF s
    <3>10. Logged' = Append(Logged, buffer) BY <3>7, <3>8, <3>9, Zenon
    <3> QED BY <2>1, <3>10
  <2> QED BY <2>1, <2>4, <2>5
<1>3. CASE ~SaveRows /\ ~FinishSave
  <2>1. UNCHANGED <<metas, data, intact>>
    BY <1>3 DEF Next, SaveEpisode, Terminated, Encoder, AddFrame, AddFrameFails, BeginSave,
                StackFails, VideoFails, ClearBuffer, EncodeFrame, FrameEncoded,
                EncoderFails, Finalize, Resume, vars
  <2>2. Logged' = Logged BY <2>1 DEF Logged, Table
  <2> QED BY <2>2, BufferSteps
<1> QED BY <1>1, <1>2, <1>3

(* The writer implements the log of EpisodeLog: what is read of the episodes *)
(* only grows, an episode at a time, by the frames that were collected for   *)
(* it, and a failed save or a discarded attempt adds nothing.                *)
THEOREM LogImplemented == Spec => LogSpec
<1>1. Init => Log!Init
  <2>1. SUFFICES ASSUME Init PROVE Log!Init OBVIOUS
  <2>2. Logged = <<>> BY <2>1 DEF Init, Logged
  <2> QED BY <2>1, <2>2 DEF Init, Logged, Log!Init
<1>2. Init => Numbered BY DEF Init, Numbered
<1>3. Inv /\ Numbered /\ [Next]_vars => Numbered' BY BufferSteps
<1>4. Inv /\ Reading /\ Images /\ Numbered /\ [Next]_vars => [Log!Next]_Log!vars
  <2>1. SUFFICES ASSUME Inv, Reading, Images, Numbered, [Next]_vars
                 PROVE  [Log!Next]_Log!vars
    OBVIOUS
  <2>2. CASE Logged' = Logged /\ \E f \in 1..MaxFrames : buffer' = Append(buffer, f)
    BY <2>2 DEF Log!Next, Log!Collect, Logged
  <2>3. CASE Logged' = Logged /\ buffer' = <<>>
    BY <2>3 DEF Log!Next, Log!Drop, Logged
  <2>4. CASE Logged' = Logged /\ buffer' = buffer
    BY <2>4 DEF Log!vars, Logged
  <2>5. CASE buffer # <<>> /\ Logged' = Append(Logged, buffer) /\ buffer' = <<>>
    BY <2>5, Zenon DEF Log!Next, Log!Record, Logged
  <2> QED BY <2>1, <2>2, <2>3, <2>4, <2>5, LogStep
<1> QED BY <1>1, <1>2, <1>3, <1>4, Invariance, ReadingInvariance, PTL
        DEF Spec, LogSpec, Log!Spec
=============================================================================
