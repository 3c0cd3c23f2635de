---------------------------- MODULE SpoolProofs ----------------------------
(***************************************************************************)
(* Proofs about Spool, for any segments, captures, limits and faults.      *)
(*                                                                         *)
(* Each file keeps what its descriptors tell of it (FileOK), in the cache  *)
(* and on the disk, so that any mixture of the two that a loss of power    *)
(* leaves is one that Spool::open accepts.  Memory agrees with the disk    *)
(* about every segment but the one at work, and no longer after an error,  *)
(* which stops the writer (Agree).  For the segment at work, the effects   *)
(* left say how far it has come (AtWork).                                  *)
(*                                                                         *)
(* For the quota, the last part adds up all segments, those included whose *)
(* removal a loss of power may undo: there is room for what the group      *)
(* about to be written is reckoned at (QuotaInv).                          *)
(***************************************************************************)
EXTENDS Spool, FiniteSetTheorems, SequenceTheorems, WellFoundedInduction, TLAPS

Sealed == {"Local", "Pending", "Published"}
Live == Sealed \cup {"Open"}
States == Live \cup {"None", "Deleting"}
Metas == [state : States, references : SUBSET Keys, upload : BOOLEAN, records : Nat]
Files == [data : Seq(Captures), synced : Nat, lines : Seq(Nat), linesSynced : Nat,
          entry : {"none", "new", "kept", "gone"}, meta : Metas, old : Metas]

Empty(f) == f.data = <<>> /\ f.lines = <<>>

(* A line is written once the bytes that it counts were synced. *)
Journaled(f) ==
  /\ f.synced <= Len(f.data) /\ f.linesSynced <= Len(f.lines)
  /\ \A i \in 1 .. Len(f.lines) : 0 < f.lines[i] /\ f.lines[i] <= f.synced
  /\ \A i, j \in 1 .. Len(f.lines) : i <= j => f.lines[i] <= f.lines[j]

(* All of it is on the disk and committed. *)
Whole(f) ==
  /\ f.entry = "kept"
  /\ f.synced = Len(f.data) /\ f.linesSynced = Len(f.lines) /\ LastLine(f) = Len(f.data)

(* What descriptor m tells of the file. *)
Tells(m, f) ==
  /\ m.state = "None" => m = NoMeta /\ Empty(f)
  /\ m.state = "Open" => f.entry = "kept"
  /\ m.state \in Sealed => Whole(f) /\ m.records = Len(f.data)
  /\ m.state = "Deleting" => m.references = {}

FileOK(f) ==
  /\ Journaled(f) /\ Tells(f.meta, f) /\ Tells(f.old, f)
  /\ f.entry = "none" => Empty(f)
  /\ f.entry = "new" => f.meta = NoMeta /\ f.old = NoMeta

(* Durable, of a file. *)
Secure(f) ==
  IF f.entry # "kept" \/ {f.meta.state, f.old.state} \cap {"None", "Deleting"} # {}
     \/ f.linesSynced = 0 THEN {}
  ELSE ToSet(SubSeq(f.data, 1, f.lines[f.linesSynced]))

(* The file once a directory is synced. *)
Synced(f) ==
  IF f.entry = "gone" THEN [Absent EXCEPT !.meta = f.meta, !.old = f.meta]
  ELSE [f EXCEPT !.entry = IF @ = "new" THEN "kept" ELSE @, !.old = f.meta]

(* g is what may be left of f once the cache is written or lost. *)
Settles(f, g) ==
  /\ g \in Files /\ FileOK(g)
  /\ g.meta \in {f.meta, f.old} /\ g.old = g.meta
  /\ g.entry \in {"none", "kept"} /\ (f.entry = "none" => g.entry = "none")
  /\ g.entry # "none" /\ f.synced = Len(f.data) => g.data = f.data /\ g.synced = Len(g.data)
  /\ ToSet(g.data) \subseteq ToSet(f.data)
  /\ Secure(f) \subseteq Secure(g)
  /\ Whole(f) => Whole(g) /\ g.data = f.data
-----------------------------------------------------------------------------
(* Sequences and files *)

LEMMA ToSetIn ==
  ASSUME NEW S, NEW f \in Seq(S)
  PROVE  ToSet(f) \subseteq S /\ ToSet(f) = {f[i] : i \in 1 .. Len(f)}
  BY DEF ToSet

LEMMA ToSetHas ==
  ASSUME NEW S, NEW f \in Seq(S), NEW i \in 1 .. Len(f)
  PROVE  f[i] \in ToSet(f)
  BY DEF ToSet

LEMMA ToSetOf ==
  ASSUME NEW S, NEW f \in Seq(S), NEW n \in Nat, n <= Len(f)
  PROVE  /\ SubSeq(f, 1, n) \in Seq(S) /\ Len(SubSeq(f, 1, n)) = n
         /\ ToSet(SubSeq(f, 1, n)) = {f[i] : i \in 1 .. n}
<1>1. SubSeq(f, 1, n) \in Seq(S) /\ Len(SubSeq(f, 1, n)) = n
  OBVIOUS
<1>2. \A i \in 1 .. n : SubSeq(f, 1, n)[i] = f[i]
  OBVIOUS
<1>3. ToSet(SubSeq(f, 1, n)) = {SubSeq(f, 1, n)[i] : i \in 1 .. n}
  BY <1>1, ToSetIn
<1>4. {SubSeq(f, 1, n)[i] : i \in 1 .. n} = {f[i] : i \in 1 .. n}
  BY <1>2
<1> QED BY <1>1, <1>3, <1>4

LEMMA ToSetNone == ToSet(<<>>) = {}
  BY DEF ToSet

LEMMA ToSetJoin ==
  ASSUME NEW S, NEW f \in Seq(S), NEW g \in Seq(S)
  PROVE  ToSet(f \o g) = ToSet(f) \cup ToSet(g)
<1>1. f \o g \in Seq(S) /\ Len(f \o g) = Len(f) + Len(g)
  OBVIOUS
<1>2. ASSUME NEW x \in ToSet(f \o g) PROVE x \in ToSet(f) \cup ToSet(g)
  <2>1. PICK i \in 1 .. Len(f \o g) : x = (f \o g)[i]
    BY <1>1, <1>2, ToSetIn
  <2>2. CASE i <= Len(f)
    <3>1. x = f[i] /\ i \in 1 .. Len(f)
      BY <2>1, <2>2, <1>1
    <3> QED BY <3>1, ToSetIn
  <2>3. CASE ~ (i <= Len(f))
    <3>1. x = g[i - Len(f)] /\ i - Len(f) \in 1 .. Len(g)
      BY <2>1, <2>3, <1>1
    <3> QED BY <3>1, ToSetIn
  <2> QED BY <2>2, <2>3
<1>3. ASSUME NEW x \in ToSet(f) PROVE x \in ToSet(f \o g)
  <2>1. PICK i \in 1 .. Len(f) : x = f[i]
    BY <1>3, ToSetIn
  <2>2. i \in 1 .. Len(f \o g) /\ (f \o g)[i] = x
    BY <2>1, <1>1
  <2> QED BY <2>2, <1>1, ToSetHas
<1>4. ASSUME NEW x \in ToSet(g) PROVE x \in ToSet(f \o g)
  <2>1. PICK i \in 1 .. Len(g) : x = g[i]
    BY <1>4, ToSetIn
  <2>2. i + Len(f) \in 1 .. Len(f \o g) /\ (f \o g)[i + Len(f)] = x
    BY <2>1, <1>1
  <2> QED BY <2>2, <1>1, ToSetHas
<1> QED BY <1>2, <1>3, <1>4

LEMMA DurableIs ==
  ASSUME NEW s
  PROVE  Durable(s) = Secure(disk[s])
  BY DEF Durable, Secure

LEMMA SyncIs ==
  ASSUME NEW d
  PROVE  Sync(d) = [s \in Segments |-> Synced(d[s])]
  BY DEF Sync, Synced

LEMMA NoMetaIs ==
  /\ NoMeta \in Metas /\ NoMeta.state = "None" /\ NoMeta.references = {}
  /\ NewMeta \in Metas /\ NewMeta.state = "Open" /\ NewMeta.records = 0
  BY DEF NoMeta, NewMeta, Metas, States, Live, Keys, Archived

LEMMA AbsentIs ==
  /\ Absent \in Files /\ Absent.meta = NoMeta /\ Absent.old = NoMeta
  /\ Absent.data = <<>> /\ Absent.lines = <<>> /\ Absent.entry = "none"
  /\ Absent.synced = 0 /\ Absent.linesSynced = 0
  BY NoMetaIs DEF Absent, Files

LEMMA LastLineIs ==
  ASSUME NEW f \in Files, FileOK(f)
  PROVE  /\ LastLine(f) \in Nat /\ LastLine(f) <= f.synced
         /\ f.lines # <<>> => LastLine(f) = f.lines[Len(f.lines)] /\ LastLine(f) > 0 /\ Len(f.lines) > 0
         /\ f.lines = <<>> => LastLine(f) = 0
<1>1. CASE f.lines = <<>>
  BY <1>1 DEF LastLine, Files
<1>2. CASE f.lines # <<>>
  <2>1. Len(f.lines) \in Nat /\ Len(f.lines) > 0
    BY <1>2 DEF Files
  <2>2. f.lines[Len(f.lines)] \in Nat /\ 0 < f.lines[Len(f.lines)] /\ f.lines[Len(f.lines)] <= f.synced
    BY <2>1 DEF FileOK, Journaled, Files
  <2>3. LastLine(f) = f.lines[Len(f.lines)]
    BY <1>2 DEF LastLine, Last
  <2> QED BY <2>1, <2>2, <2>3, <1>2
<1> QED BY <1>1, <1>2

(* What a journal has, the data has. *)
LEMMA SecureIn ==
  ASSUME NEW f \in Files, FileOK(f)
  PROVE  Secure(f) \subseteq ToSet(f.data)
<1>1. CASE f.linesSynced = 0
  BY <1>1 DEF Secure
<1>2. CASE f.linesSynced # 0
  <2>1. f.linesSynced \in 1 .. Len(f.lines) /\ f.lines \in Seq(Nat)
    BY <1>2 DEF FileOK, Journaled, Files
  <2>2. f.lines[f.linesSynced] \in Nat /\ f.lines[f.linesSynced] <= f.synced
    BY <2>1 DEF FileOK, Journaled, Files
  <2>3. f.data \in Seq(Captures) /\ f.synced <= Len(f.data) /\ f.synced \in Nat
    BY DEF FileOK, Journaled, Files
  <2>4. f.lines[f.linesSynced] <= Len(f.data)
    BY <2>2, <2>3
  <2>5. ToSet(SubSeq(f.data, 1, f.lines[f.linesSynced])) \subseteq ToSet(f.data)
    BY <2>2, <2>3, <2>4, ToSetOf, ToSetIn
  <2> QED BY <2>5 DEF Secure
<1> QED BY <1>1, <1>2

(* What is on the disk of the journal is not taken back by what comes      *)
(* after it.                                                               *)
Prolongs(f, g) ==
  /\ f.entry = "kept" => g.entry = "kept"
  /\ {f.meta.state, f.old.state} \cap {"None", "Deleting"} = {} =>
       {g.meta.state, g.old.state} \cap {"None", "Deleting"} = {}
  /\ f.linesSynced <= g.linesSynced
  /\ \A i \in 1 .. f.linesSynced : g.lines[i] = f.lines[i]
  /\ \A i \in 1 .. f.synced : i <= Len(g.data) /\ g.data[i] = f.data[i]

LEMMA SecureGrows ==
  ASSUME NEW f \in Files, NEW g \in Files, FileOK(f), FileOK(g), Prolongs(f, g)
  PROVE  Secure(f) \subseteq Secure(g)
<1>1. CASE f.entry # "kept" \/ {f.meta.state, f.old.state} \cap {"None", "Deleting"} # {} \/ f.linesSynced = 0
  BY <1>1 DEF Secure
<1>2. CASE f.entry = "kept" /\ {f.meta.state, f.old.state} \cap {"None", "Deleting"} = {} /\ f.linesSynced # 0
  <2> DEFINE i == f.linesSynced
             j == g.linesSynced
             n == f.lines[i]
             k == g.lines[j]
  <2>1. i \in 1 .. Len(f.lines) /\ j \in 1 .. Len(g.lines) /\ i <= j /\ i \in 1 .. Len(g.lines)
    BY <1>2 DEF FileOK, Journaled, Files, Prolongs
  <2>2. n \in Nat /\ n <= f.synced /\ f.synced <= Len(f.data) /\ f.synced \in Nat
    BY <2>1 DEF FileOK, Journaled, Files
  <2>3. k \in Nat /\ k <= g.synced /\ g.synced <= Len(g.data)
    BY <2>1 DEF FileOK, Journaled, Files
  <2>4. n = g.lines[i]
    BY <2>1, <1>2 DEF Prolongs, Files
  <2>5. n <= k
    BY <2>1, <2>4 DEF FileOK, Journaled
  <2>6. f.data \in Seq(Captures) /\ g.data \in Seq(Captures)
    BY DEF Files
  <2>7. n <= Len(f.data) /\ k <= Len(g.data)
    BY <2>2, <2>3, <2>6, LenProperties DEF Files
  <2>8. Secure(f) = {f.data[x] : x \in 1 .. n}
    <3>1. Secure(f) = ToSet(SubSeq(f.data, 1, n))
      BY <1>2 DEF Secure
    <3> QED BY <3>1, <2>2, <2>6, <2>7, ToSetOf
  <2>9. Secure(g) = {g.data[x] : x \in 1 .. k}
    <3>1. Secure(g) = ToSet(SubSeq(g.data, 1, k))
      BY <1>2, <2>1 DEF Secure, Prolongs, Files
    <3> QED BY <3>1, <2>3, <2>6, <2>7, ToSetOf
  <2>10. \A x \in 1 .. n : x \in 1 .. k /\ g.data[x] = f.data[x]
    BY <2>2, <2>3, <2>5 DEF Prolongs
  <2> HIDE DEF n, k
  <2> QED BY <2>8, <2>9, <2>10
<1> QED BY <1>1, <1>2

(* All of a file that is whole is secure, if it is described. *)
LEMMA WholeSecure ==
  ASSUME NEW f \in Files, FileOK(f), Whole(f), f.meta.state \in Live, f.old.state \in Live
  PROVE  Secure(f) = ToSet(f.data)
<1>1. CASE f.lines = <<>>
  <2>1. LastLine(f) = 0 /\ Len(f.data) = 0
    BY <1>1, LastLineIs DEF Whole
  <2>2. ToSet(f.data) = {}
    BY <2>1, ToSetNone DEF Files
  <2>3. f.linesSynced = 0
    BY <1>1 DEF Whole
  <2> QED BY <2>2, <2>3 DEF Secure
<1>2. CASE f.lines # <<>>
  <2>1. f.linesSynced = Len(f.lines) /\ Len(f.lines) > 0 /\ f.lines[f.linesSynced] = Len(f.data)
    BY <1>2, LastLineIs DEF Whole
  <2>2. Len(f.data) \in Nat /\ SubSeq(f.data, 1, Len(f.data)) = f.data
    BY DEF Files
  <2>3. {f.meta.state, f.old.state} \cap {"None", "Deleting"} = {} /\ f.entry = "kept" /\ f.linesSynced # 0
    BY <2>1 DEF Whole, Live, Sealed, Files
  <2>4. Secure(f) = ToSet(SubSeq(f.data, 1, f.lines[f.linesSynced]))
    BY <2>3 DEF Secure
  <2> QED BY <2>1, <2>2, <2>4
<1> QED BY <1>1, <1>2

LEMMA MetaSplit ==
  ASSUME NEW m \in Metas
  PROVE  \/ m.state = "None" \/ m.state = "Open" \/ m.state \in Sealed \/ m.state = "Deleting"
  BY DEF Metas, States, Live

(* A file with other descriptors. *)
LEMMA RetoldOK ==
  ASSUME NEW f \in Files, Journaled(f), NEW m \in Metas, NEW o \in Metas,
         f.entry \in {"none", "kept", "gone"}, f.entry = "none" => Empty(f),
         Tells(m, f), Tells(o, f), NEW g, g = [f EXCEPT !.meta = m, !.old = o]
  PROVE  g \in Files /\ FileOK(g)
<1>1. g \in Files /\ g.meta = m /\ g.old = o /\ g.data = f.data /\ g.synced = f.synced
      /\ g.lines = f.lines /\ g.linesSynced = f.linesSynced /\ g.entry = f.entry
  BY DEF Files
<1>2. Journaled(g)
  BY <1>1 DEF Journaled
<1>3. LastLine(g) = LastLine(f)
  BY <1>1 DEF LastLine
<1>4. Tells(m, g) /\ Tells(o, g)
  BY <1>1, <1>3 DEF Tells, Whole, Empty
<1> QED BY <1>1, <1>2, <1>4 DEF FileOK, Empty

LEMMA SyncSettles ==
  ASSUME NEW f \in Files, FileOK(f)
  PROVE  Settles(f, Synced(f)) /\ Synced(f).meta = f.meta
<1> DEFINE g == Synced(f)
<1>0. f.meta \in Metas /\ f.old \in Metas /\ f.data \in Seq(Captures) /\ f.lines \in Seq(Nat)
      /\ f.synced \in Nat /\ f.linesSynced \in Nat /\ f.entry \in {"none", "new", "kept", "gone"}
  BY DEF Files
<1>1. CASE f.entry = "gone"
  <2>1. g = [Absent EXCEPT !.meta = f.meta, !.old = f.meta]
    BY <1>1 DEF Synced
  <2>2. Journaled(Absent) /\ Empty(Absent) /\ Absent.entry \in {"none", "kept", "gone"}
    BY AbsentIs DEF Journaled, Empty
  <2>3. Tells(f.meta, Absent)
    BY <1>1, <2>2 DEF FileOK, Tells, Whole
  <2>4. g \in Files /\ FileOK(g)
    BY <1>0, <2>1, <2>2, <2>3, AbsentIs, RetoldOK
  <2>5. g.meta = f.meta /\ g.old = f.meta /\ g.entry = "none" /\ g.data = <<>>
    BY <2>1, AbsentIs DEF Files
  <2>6. Secure(f) = {} /\ ~ Whole(f)
    BY <1>1 DEF Secure, Whole
  <2> QED BY <2>4, <2>5, <2>6, ToSetNone DEF Settles
<1>2. CASE f.entry # "gone"
  <2>1. g = [f EXCEPT !.entry = IF f.entry = "new" THEN "kept" ELSE f.entry, !.old = f.meta]
    BY <1>2 DEF Synced
  <2>2. g \in Files /\ g.meta = f.meta /\ g.old = f.meta /\ g.data = f.data /\ g.synced = f.synced
        /\ g.lines = f.lines /\ g.linesSynced = f.linesSynced
        /\ g.entry = IF f.entry = "new" THEN "kept" ELSE f.entry
    BY <2>1, <1>0 DEF Files
  <2>3. LastLine(g) = LastLine(f)
    BY <2>2 DEF LastLine
  <2>4. Journaled(g)
    BY <2>2 DEF FileOK, Journaled
  <2>5. Tells(g.meta, g)
    <3>1. Tells(f.meta, f)
      BY DEF FileOK
    <3> QED BY <2>2, <2>3, <3>1 DEF Tells, Whole, Empty
  <2>6. FileOK(g)
    BY <2>2, <2>4, <2>5 DEF FileOK, Empty
  <2>7. g.entry \in {"none", "kept"}
    BY <2>2, <1>0, <1>2
  <2>8. Prolongs(f, g)
    BY <2>2, <1>0 DEF Prolongs, FileOK, Journaled
  <2>9. Secure(f) \subseteq Secure(g)
    BY <2>2, <2>6, <2>8, SecureGrows
  <2>10. Whole(f) => Whole(g)
    BY <2>2, <2>3 DEF Whole
  <2> QED BY <2>2, <2>6, <2>7, <2>9, <2>10 DEF Settles
<1> QED BY <1>1, <1>2

(* What is left of a file after a loss of power. *)
LEMMA RemainsIs ==
  ASSUME NEW f \in Files, NEW g \in Remains(f)
  PROVE  \E m \in {f.meta, f.old}, d \in f.synced .. Len(f.data), l \in f.linesSynced .. Len(f.lines) :
           \/ /\ f.entry # "kept"
              /\ g = [Absent EXCEPT !.meta = m, !.old = m]
           \/ /\ f.entry \in {"new", "kept", "gone"}
              /\ g = [f EXCEPT !.entry = "kept", !.meta = m, !.old = m,
                               !.data = SubSeq(f.data, 1, d), !.synced = d,
                               !.lines = SubSeq(f.lines, 1, l), !.linesSynced = l]
<1>1. PICK e \in Entries(f), m \in {f.meta, f.old}, d \in f.synced .. Len(f.data),
           l \in f.linesSynced .. Len(f.lines) : g = Left(f, e, m, d, l)
  BY DEF Remains
<1>2. f.entry \in {"none", "new", "kept", "gone"}
  BY DEF Files
<1>3. CASE e = "none"
  <2>1. f.entry # "kept" /\ g = [Absent EXCEPT !.meta = m, !.old = m]
    BY <1>1, <1>3 DEF Left, Entries
  <2> QED BY <2>1, <1>1
<1>4. CASE e # "none"
  <2>1. e = "kept" /\ f.entry \in {"new", "kept", "gone"}
    BY <1>1, <1>2, <1>4 DEF Entries
  <2> QED BY <2>1, <1>1 DEF Left
<1> QED BY <1>3, <1>4

LEMMA RemainsSettle ==
  ASSUME NEW f \in Files, FileOK(f), NEW g \in Remains(f)
  PROVE  Settles(f, g)
<1>0. f.meta \in Metas /\ f.old \in Metas /\ f.data \in Seq(Captures) /\ f.lines \in Seq(Nat)
      /\ f.synced \in Nat /\ f.linesSynced \in Nat /\ f.entry \in {"none", "new", "kept", "gone"}
  BY DEF Files
<1>1. PICK m \in {f.meta, f.old}, d \in f.synced .. Len(f.data), l \in f.linesSynced .. Len(f.lines) :
           \/ /\ f.entry # "kept"
              /\ g = [Absent EXCEPT !.meta = m, !.old = m]
           \/ /\ f.entry \in {"new", "kept", "gone"}
              /\ g = [f EXCEPT !.entry = "kept", !.meta = m, !.old = m,
                               !.data = SubSeq(f.data, 1, d), !.synced = d,
                               !.lines = SubSeq(f.lines, 1, l), !.linesSynced = l]
  BY RemainsIs
<1>2. m \in Metas /\ Tells(m, f)
  BY <1>0 DEF FileOK
<1>3. ASSUME f.entry # "kept", g = [Absent EXCEPT !.meta = m, !.old = m]
      PROVE  Settles(f, g)
  <2>2. Journaled(Absent) /\ Empty(Absent) /\ Absent.entry \in {"none", "kept", "gone"}
    BY AbsentIs DEF Journaled, Empty
  <2>3. Tells(m, Absent)
    BY <1>2, <1>3, <2>2 DEF Tells, Whole
  <2>4. g \in Files /\ FileOK(g)
    BY <1>2, <1>3, <2>2, <2>3, AbsentIs, RetoldOK
  <2>5. g.meta = m /\ g.old = m /\ g.entry = "none" /\ g.data = <<>>
    BY <1>3, AbsentIs DEF Files
  <2>6. Secure(f) = {} /\ ~ Whole(f)
    BY <1>3 DEF Secure, Whole
  <2> QED BY <2>4, <2>5, <2>6, ToSetNone DEF Settles
<1>4. ASSUME f.entry \in {"new", "kept", "gone"},
             g = [f EXCEPT !.entry = "kept", !.meta = m, !.old = m,
                           !.data = SubSeq(f.data, 1, d), !.synced = d,
                           !.lines = SubSeq(f.lines, 1, l), !.linesSynced = l]
      PROVE  Settles(f, g)
  <2>1. d \in Nat /\ d <= Len(f.data) /\ f.synced <= d /\ l \in Nat /\ l <= Len(f.lines) /\ f.linesSynced <= l
    BY <1>0
  <2>2. SubSeq(f.data, 1, d) \in Seq(Captures) /\ Len(SubSeq(f.data, 1, d)) = d
        /\ \A i \in 1 .. d : SubSeq(f.data, 1, d)[i] = f.data[i]
    BY <1>0, <2>1
  <2>3. SubSeq(f.lines, 1, l) \in Seq(Nat) /\ Len(SubSeq(f.lines, 1, l)) = l
        /\ \A i \in 1 .. l : SubSeq(f.lines, 1, l)[i] = f.lines[i]
    BY <1>0, <2>1
  <2>4. g \in Files
    BY <1>2, <1>4, <2>1, <2>2, <2>3, <1>0 DEF Files
  <2>5. g.meta = m /\ g.old = m /\ g.entry = "kept" /\ g.data = SubSeq(f.data, 1, d) /\ g.synced = d
        /\ g.lines = SubSeq(f.lines, 1, l) /\ g.linesSynced = l
    BY <1>4, <1>0 DEF Files
  <2>6. Journaled(g)
    <3>1. \A i \in 1 .. l : 0 < f.lines[i] /\ f.lines[i] <= f.synced /\ f.lines[i] \in Nat
      BY <1>0, <2>1 DEF FileOK, Journaled
    <3>2. ASSUME NEW i \in 1 .. l, NEW j \in 1 .. l, i <= j PROVE f.lines[i] <= f.lines[j]
      <4>1. i \in 1 .. Len(f.lines) /\ j \in 1 .. Len(f.lines)
        BY <1>0, <2>1
      <4> QED BY <3>2, <4>1 DEF FileOK, Journaled
    <3> QED BY <1>0, <2>1, <2>2, <2>3, <2>5, <3>1, <3>2 DEF Journaled
  <2>7. d = Len(f.data) => g.data = f.data
    BY <2>5, <1>0
  <2>8. Whole(f) => g.data = f.data /\ g.lines = f.lines /\ g.synced = f.synced /\ g.linesSynced = f.linesSynced
    BY <2>1, <2>5, <1>0 DEF Whole
  <2>9. Whole(f) => Whole(g)
    <3>1. ASSUME Whole(f) PROVE Whole(g)
      <4>1. LastLine(g) = LastLine(f)
        BY <2>8, <3>1 DEF LastLine
      <4> QED BY <2>8, <3>1, <4>1, <2>5 DEF Whole
    <3> QED BY <3>1
  <2>10. Tells(m, g)
    <3>1. Empty(f) => Empty(g)
      BY <2>1, <2>5, <1>0 DEF Empty
    <3> QED BY <1>2, <2>5, <2>8, <2>9, <3>1 DEF Tells
  <2>11. FileOK(g)
    BY <2>5, <2>6, <2>10 DEF FileOK
  <2>12. ToSet(g.data) \subseteq ToSet(f.data)
    <3>1. ToSet(f.data) = {f.data[i] : i \in 1 .. Len(f.data)}
      BY <1>0, ToSetIn
    <3>2. ToSet(g.data) = {f.data[i] : i \in 1 .. d}
      BY <1>0, <2>1, <2>5, ToSetOf
    <3> QED BY <3>1, <3>2, <2>1, <1>0
  <2>13. Secure(f) \subseteq Secure(g)
    <3>1. Prolongs(f, g)
      BY <2>1, <2>2, <2>3, <2>5, <1>0 DEF Prolongs
    <3> QED BY <3>1, <2>4, <2>11, SecureGrows
  <2>14. f.synced = Len(f.data) => g.data = f.data /\ g.synced = Len(g.data)
    BY <2>1, <2>5, <2>7, <1>0
  <2> QED BY <1>4, <2>4, <2>5, <2>8, <2>9, <2>11, <2>12, <2>13, <2>14 DEF Settles
<1> QED BY <1>1, <1>3, <1>4
-----------------------------------------------------------------------------
(* The invariant: what is on the disk *)

DiskTypes ==
  /\ disk \in [Segments -> Files] /\ objects \in [Segments -> Seq(Captures)]
  /\ sent \subseteq Captures /\ acked \subseteq Captures \X Segments
  /\ released \subseteq Segments \X Keys

(* Segments with a descriptor, in the cache or on the disk. *)
Noted == {s \in Segments : disk[s].meta.state # "None" \/ disk[s].old.state # "None"}
NotedOK == IsFiniteSet(Noted) /\ Cardinality(Noted) <= MaxSegments

(* A capture is in one segment at most. *)
CapturesOK ==
  /\ \A s \in Segments : ToSet(disk[s].data) \subseteq sent
  /\ \A s, t \in Segments : s # t => ToSet(disk[s].data) \cap ToSet(disk[t].data) = {}

(* The object store has segment s as it is in file f. *)
ObjectOK(s, f) ==
  /\ objects[s] # <<>> =>
       /\ f.meta.state # "Open" /\ f.old.state # "Open" /\ f.entry # "new"
       /\ f.entry # "none" => f.data = objects[s] /\ f.synced = Len(f.data)
  /\ f.meta.state = "Published" \/ f.old.state = "Published" => objects[s] # <<>>
ObjectsOK == \A s \in Segments : ObjectOK(s, disk[s]) /\ ToSet(objects[s]) \subseteq sent

(* What was acknowledged is secure, or archived. *)
AckedOK ==
  /\ \A r \in acked : r[1] \in sent /\ (r[1] \in Secure(disk[r[2]]) \/ r[1] \in ToSet(objects[r[2]]))
  /\ \A r \in acked : Cites[r[1]] # NoCapture => \E q \in acked : q[1] = Cites[r[1]]

DiskInv ==
  /\ DiskTypes /\ (\A s \in Segments : FileOK(disk[s])) /\ NotedOK /\ CapturesOK
  /\ ObjectsOK /\ AckedOK

(* The references that acknowledged captures need, while they are needed.  *)
Needed(s, key) ==
  \E r \in acked :
    \/ key = Catalog /\ r[2] = s /\ Cites[r[1]] = NoCapture
    \/ key = Confirmed /\ Cites[r[1]] # NoCapture /\ <<Cites[r[1]], s>> \in acked
Kept(s, key) ==
  \/ <<s, key>> \in released
  \/ /\ key \in disk[s].meta.references /\ key \in disk[s].old.references
     /\ up => key \in mem[s].references
PinsOK == \A s \in Segments, key \in Keys : Needed(s, key) => Kept(s, key)
-----------------------------------------------------------------------------
(* The invariant: memory and disk *)

Kinds == {"idle", "open", "cite", "append", "pin", "tick", "finish", "publish", "remember", "release"}
Places == {"idle", "head", "confirm", "abort", "send", "initiated", "parts"}

OpTypes ==
  /\ mem \in [Segments -> Metas] /\ active \in Segments \cup {NoSegment}
  /\ up \in BOOLEAN /\ target \in BOOLEAN /\ health \in {"ok", "poisoned", "failed"}
  /\ op = [kind |-> op.kind, todo |-> op.todo, batch |-> op.batch, rest |-> op.rest, pins |-> op.pins]
  /\ op.kind \in Kinds /\ op.batch \in Seq(Captures) /\ op.rest \in Seq(Captures)
  /\ op.pins \subseteq Segments
  /\ pub \in [segment : Segments \cup {NoSegment}, upload : BOOLEAN, at : Places]
  /\ pub.at # "idle" => pub.segment \in Segments
  /\ op.kind = "idle" => op.todo = <<>>
  /\ op.kind \in {"cite", "append", "pin", "tick"} => health # "failed"

Opening == up /\ op.kind = "open"
Serving == up /\ op.kind # "open"
Writing == op.kind \in {"cite", "append", "pin"}
Works(s) == op.todo # <<>> /\ Head(op.todo).seg = s

DownOK ==
  ~up => /\ mem = [s \in Segments |-> NoMeta] /\ active = NoSegment /\ op = Idle
         /\ health = "ok" /\ pub = NoUpload

ActiveOK == active # NoSegment => mem[active].state = "Open"

(* What holds in memory even after an error. *)
Basic(s) ==
  LET m == mem[s]
      f == disk[s] IN
  /\ m.state = "Open" => s = active /\ objects[s] = <<>>
  /\ m.state = "Published" => objects[s] # <<>>
  /\ m.state \in Sealed =>
       /\ Whole(f) /\ m.records = Len(f.data)
       /\ \/ f.meta.state \in Sealed /\ f.old.state \in Sealed
          \/ /\ m.state = "Published" /\ m.references = {}
             /\ f.meta.state = "Deleting" /\ f.old.state \in Sealed \cup {"Deleting"}

(* What holds of a segment that is at rest, before any error. *)
SameRefs(s) ==
  /\ disk[s].meta.references = mem[s].references
  /\ disk[s].old.references = mem[s].references
Agree(s) ==
  LET m == mem[s]
      f == disk[s] IN
  \/ m.state = "None" /\ f.meta = NoMeta /\ f.old = NoMeta
  \/ /\ m.state = "Open" /\ f.meta.state = "Open" /\ f.old.state = "Open"
     /\ Whole(f) /\ m.records = Len(f.data) /\ SameRefs(s)
  \/ /\ m.state \in Sealed /\ f.meta.state \in Sealed /\ f.old.state \in Sealed
     /\ SameRefs(s)

ServingOK ==
  Serving =>
    /\ \A s \in Segments : Basic(s)
    /\ health # "failed" => \A s \in Segments : ~Works(s) => Agree(s)

(* Before the first sync of Spool::open, the cache may be ahead. *)
First == <<Effect("sync", NoSegment, 0)>>
Told(s) == mem[s] = disk[s].meta /\ (op.todo # First => disk[s].old = disk[s].meta)
OpeningOK ==
  Opening =>
    /\ active = NoSegment /\ health = "ok" /\ pub = NoUpload
    /\ \A s \in Segments : ~Works(s) => Told(s)

PubOK == pub.at # "idle" => mem[pub.segment].state = "Pending"
-----------------------------------------------------------------------------
(* The invariant: the batch *)

Distinct(b) == \A i, j \in 1 .. Len(b) : b[i] = b[j] => i = j

(* Captures that the operation is about to make durable. *)
InFlight ==
  IF op.todo = <<>> THEN {}
  ELSE IF Head(op.todo).do = "write" THEN ToSet(Head(op.todo).arg)
  ELSE IF Head(op.todo).do \in {"sync_data", "line", "count"} THEN ToSet(disk[Head(op.todo).seg].data)
  ELSE {}

(* No capture of the batch was acknowledged, and none is lost: it is still *)
(* to be written, or durable, or about to be.                              *)
BatchOK ==
  Writing =>
    /\ ToSet(op.batch) \subseteq sent
    /\ \A r \in acked : r[1] \notin ToSet(op.batch)
    /\ \A c \in ToSet(op.batch) : Cites[c] # NoCapture => \E q \in acked : q[1] = Cites[c]
    /\ ToSet(op.rest) \subseteq ToSet(op.batch) /\ Distinct(op.rest)
    /\ \A s \in Segments : ToSet(disk[s].data) \cap ToSet(op.rest) = {}
    /\ \A c \in ToSet(op.batch) :
         c \in ToSet(op.rest) \/ c \in InFlight \/ \E s \in Segments : c \in Secure(disk[s])
    /\ op.kind = "pin" => op.rest = <<>> /\ \A s \in op.pins : disk[s].data # <<>>
    /\ op.kind = "cite" => op.rest = op.batch

(* The segment has the reference, or is being given it. *)
Given(s, key) ==
  \/ Kept(s, key)
  \/ /\ Works(s) /\ Head(op.todo).do \in {"describe", "remember"}
     /\ key \in Head(op.todo).arg.references

CitesOK ==
  Writing => \A c \in ToSet(op.batch) : Cites[c] # NoCapture =>
    \A s \in Segments : <<Cites[c], s>> \in acked =>
      (op.kind = "cite" /\ s \in op.pins) \/ Given(s, Confirmed)

CatalogOK ==
  op.kind = "pin" => \A c \in ToSet(op.batch) : Cites[c] = NoCapture =>
    \A s \in Segments : c \in ToSet(disk[s].data) => s \in op.pins \/ Given(s, Catalog)
-----------------------------------------------------------------------------
(* The invariant: how far the operation has come *)

(* No capture needs a reference to the segment any longer. *)
Loose(s) == \A key \in Keys : Needed(s, key) => <<s, key>> \in released

(* Descriptor m replaces that of a segment in use. *)
AlterOK(s, m) ==
  LET n == mem[s]
      f == disk[s] IN
  /\ op.kind \in Kinds \ {"open", "idle"} /\ s \in Segments
  /\ m.state \in Live /\ m \in Metas /\ n.state \in Live /\ Whole(f)
  /\ n.records = Len(f.data) /\ m.records = Len(f.data)
  /\ f.meta.state \in Live /\ f.old.state \in Live
  /\ \/ m.state = n.state
     \/ n.state = "Open" /\ m.state \in {"Local", "Pending"}
     \/ n.state = "Pending" /\ m.state = "Published" /\ pub = NoUpload /\ objects[s] # <<>>
  /\ op.kind \in {"publish", "remember"} => n.state = "Pending" /\ m.references = n.references
  /\ op.kind # "release" => n.references \subseteq m.references
  /\ \A key \in Keys : Needed(s, key) => <<s, key>> \in released \/ key \in m.references
  /\ n.state \in Sealed => f.meta.state \in Sealed /\ f.old.state \in Sealed
  /\ n.state = "Open" => f.old.state = "Open"
  /\ health # "failed" => f.old.references = n.references

Alter(s, m) ==
  \/ op.todo = Save(s, m) /\ AlterOK(s, m) /\ (health # "failed" => Agree(s))
  \/ op.todo = <<Effect("remember", s, m)>> /\ AlterOK(s, m) /\ disk[s].meta = m

(* Files that nothing was written to. *)
Bare(e, m) == [Absent EXCEPT !.entry = e, !.meta = m]

CreateOK(s) ==
  /\ op.kind = "append" /\ s \in Segments /\ active = NoSegment /\ mem[s].state = "None"
  /\ objects[s] = <<>> /\ \A r \in acked : r[2] # s
Create(s) ==
  \/ /\ op.todo = CreateSegment(s) /\ CreateOK(s) /\ disk[s] = Absent
     /\ Cardinality(Noted) < MaxSegments
  \/ /\ op.todo = <<Effect("sync", s, 0)>> \o Save(s, NewMeta) /\ CreateOK(s)
     /\ disk[s] = Bare("new", NoMeta) /\ Cardinality(Noted) < MaxSegments
  \/ /\ op.todo = Save(s, NewMeta) /\ CreateOK(s)
     /\ disk[s] = Bare("kept", NoMeta) /\ Cardinality(Noted) < MaxSegments
  \/ /\ op.todo = <<Effect("remember", s, NewMeta)>> /\ CreateOK(s)
     /\ disk[s] = Bare("kept", NewMeta)

WriteOK(s) ==
  /\ op.kind = "append" /\ s \in Segments /\ s = active
  /\ disk[s].meta.state = "Open" /\ disk[s].old.state = "Open" /\ SameRefs(s)
Write(s, cs) ==
  LET f == disk[s] IN
  \/ /\ op.todo = Commit(s, cs) /\ WriteOK(s) /\ Whole(f) /\ cs \in Seq(Captures) /\ cs # <<>>
     /\ ToSet(cs) \subseteq ToSet(op.batch) /\ ToSet(cs) \cap ToSet(op.rest) = {}
     /\ \A t \in Segments : ToSet(disk[t].data) \cap ToSet(cs) = {}
  \/ /\ op.todo = <<Effect("sync_data", s, 0), Effect("line", s, 0), Effect("count", s, 0)>>
     /\ WriteOK(s) /\ f.data # <<>>
  \/ /\ op.todo = <<Effect("line", s, 0), Effect("count", s, 0)>>
     /\ WriteOK(s) /\ f.data # <<>> /\ f.synced = Len(f.data)
  \/ /\ op.todo = <<Effect("count", s, 0)>>
     /\ WriteOK(s) /\ f.data # <<>> /\ f.synced = Len(f.data)
     /\ f.lines # <<>> /\ LastLine(f) = Len(f.data)

(* Collection, and the deletions of Spool::open. *)
EraseOK(s) == op.kind \in {"tick", "open"} /\ s \in Segments /\ Loose(s)
Condemned(s, m) ==
  /\ op.kind = "tick" /\ mem[s].state = "Published" /\ mem[s].references = {}
  /\ m.state = "Deleting" /\ m.references = {} /\ m \in Metas
Doomed(s) ==
  /\ op.kind = "tick" => mem[s].state = "Deleting"
  /\ disk[s].meta.state = "Deleting" /\ disk[s].old.state = "Deleting"
Erase(s, m) ==
  LET f == disk[s] IN
  \/ op.todo = Save(s, m) \o DeleteFiles(s) /\ EraseOK(s) /\ Condemned(s, m) /\ Agree(s)
  \/ /\ op.todo = <<Effect("remember", s, m)>> \o DeleteFiles(s) /\ EraseOK(s) /\ Condemned(s, m)
     /\ f.meta = m
  \/ op.todo = DeleteFiles(s) /\ EraseOK(s) /\ Doomed(s)
  \/ /\ op.todo = <<Effect("sync", s, 0)>> \o Save(s, NoMeta) /\ EraseOK(s) /\ Doomed(s)
     /\ f.entry \in {"none", "gone"}
  \/ op.todo = Save(s, NoMeta) /\ EraseOK(s) /\ Doomed(s) /\ f.entry = "none"
  \/ /\ op.todo = <<Effect("remember", s, NoMeta)>> /\ EraseOK(s)
     /\ (op.kind = "tick" => mem[s].state = "Deleting")
     /\ f.meta = NoMeta /\ f.entry = "none"

(* The rest of the recovery of one segment. *)
SalvageOK(s) == op.kind = "open" /\ s \in Segments
Unused(s) == disk[s].meta.state = "Open" /\ disk[s].lines = <<>> /\ Loose(s)
Regained(s, m) ==
  /\ disk[s].meta.state = "Open" /\ disk[s].old = disk[s].meta /\ mem[s] = disk[s].meta
  /\ disk[s].lines # <<>> /\ m = Recovered(disk[s].meta, LastLine(disk[s]))
Grave(m) == m.state = "Deleting" /\ m.references = {} /\ m \in Metas
Later == IF Len(op.todo) > 1 THEN op.todo[2].arg ELSE 0
Salvage(s, m) ==
  LET f == disk[s] IN
  \/ op.todo = <<Effect("unlink", s, 0)>> /\ SalvageOK(s) /\ Told(s) /\ f.meta = NoMeta
  \/ /\ op.todo = <<Effect("trim", s, 0)>> \o (Store(s, Later) \o DeleteFiles(s))
     /\ SalvageOK(s) /\ Grave(Later) /\ Unused(s)
  \/ op.todo = Store(s, m) \o DeleteFiles(s) /\ SalvageOK(s) /\ Grave(m) /\ Unused(s)
  \/ op.todo = <<Effect("sync", s, 0)>> \o DeleteFiles(s) /\ SalvageOK(s)
     /\ f.meta.state = "Deleting" /\ Loose(s)
  \/ op.todo = <<Effect("trim", s, 0)>> \o Save(s, Later) /\ SalvageOK(s) /\ Regained(s, Later)
  \/ op.todo = Save(s, m) /\ SalvageOK(s) /\ Regained(s, m) /\ Whole(f)
  \/ /\ op.todo = <<Effect("remember", s, m)>> /\ SalvageOK(s)
     /\ m.state \in {"Local", "Pending"} /\ m \in Metas
     /\ f.meta = m /\ f.old.state = "Open" /\ mem[s].references = m.references

AtWork ==
  op.todo # <<>> =>
    LET s == Head(op.todo).seg
        x == Head(op.todo).arg IN
    \/ op.todo = First /\ op.kind = "open"
    \/ Alter(s, x) \/ Create(s) \/ Write(s, x) \/ Erase(s, x) \/ Salvage(s, x)

IInv ==
  /\ DiskInv /\ PinsOK /\ OpTypes /\ DownOK /\ ActiveOK /\ ServingOK /\ OpeningOK
  /\ PubOK /\ BatchOK /\ CitesOK /\ CatalogOK /\ AtWork
-----------------------------------------------------------------------------
(* Changes of the disk *)

LEMMA DiskAt ==
  ASSUME DiskInv, NEW s \in Segments
  PROVE  disk[s] \in Files /\ FileOK(disk[s]) /\ ObjectOK(s, disk[s]) /\ objects[s] \in Seq(Captures)
  BY DEF DiskInv, DiskTypes, ObjectsOK

(* The object store still has what it has, whatever settles. *)
LEMMA SettledObject ==
  ASSUME NEW s, NEW f \in Files, NEW g, ObjectOK(s, f), Settles(f, g)
  PROVE  ObjectOK(s, g)
  BY DEF ObjectOK, Settles

LEMMA FewerNoted ==
  ASSUME NotedOK, NEW N, N \subseteq Noted
  PROVE  IsFiniteSet(N) /\ Cardinality(N) <= MaxSegments
<1>1. IsFiniteSet(N) /\ Cardinality(N) <= Cardinality(Noted) /\ Cardinality(N) \in Nat
      /\ Cardinality(Noted) \in Nat
  BY FS_Subset, FS_CardinalityType DEF NotedOK
<1> QED BY <1>1, SpoolAssumptions DEF NotedOK

(* Every file is what a sync or a loss of power has left of it. *)
LEMMA AllSettle ==
  ASSUME DiskInv, disk' \in [Segments -> Files], \A t \in Segments : Settles(disk[t], disk'[t]),
         UNCHANGED <<objects, sent, acked, released>>
  PROVE  DiskInv'
<1>1. DiskTypes'
  BY DEF DiskInv, DiskTypes
<1>2. \A t \in Segments : FileOK(disk'[t])
  BY DEF Settles
<1>3. NotedOK'
  <2>1. Noted' \subseteq Noted
    BY DEF Noted, Settles
  <2>2. IsFiniteSet(Noted') /\ Cardinality(Noted') <= MaxSegments
    BY <2>1, FewerNoted DEF DiskInv
  <2> QED BY <2>2 DEF NotedOK
<1>4. CapturesOK'
  <2>1. \A t \in Segments : ToSet(disk'[t].data) \subseteq ToSet(disk[t].data)
    BY DEF Settles
  <2> QED BY <2>1 DEF DiskInv, CapturesOK
<1>5. ObjectsOK'
  <2>1. ASSUME NEW t \in Segments PROVE ObjectOK(t, disk[t])'
    <3>1. ObjectOK(t, disk'[t])
      BY DiskAt, SettledObject
    <3> QED BY <3>1 DEF ObjectOK
  <2>2. \A t \in Segments : ToSet(objects'[t]) \subseteq sent'
    BY DEF DiskInv, ObjectsOK
  <2> QED BY <2>1, <2>2 DEF ObjectsOK
<1>6. AckedOK'
  <2>1. \A r \in acked : r[2] \in Segments
    BY DEF DiskInv, DiskTypes
  <2>2. \A t \in Segments : Secure(disk[t]) \subseteq Secure(disk'[t])
    BY DEF Settles
  <2> QED BY <2>1, <2>2 DEF DiskInv, AckedOK
<1> QED BY <1>1, <1>2, <1>3, <1>4, <1>5, <1>6 DEF DiskInv

(* What file g may be put for that of segment s. *)
Fitting(s, g) ==
  /\ g \in Files /\ FileOK(g) /\ ObjectOK(s, g)
  /\ Secure(disk[s]) \subseteq Secure(g) \cup ToSet(objects[s])

LEMMA OneFile ==
  ASSUME DiskInv, NEW s \in Segments, NEW g, disk' = [disk EXCEPT ![s] = g], Fitting(s, g),
         UNCHANGED <<objects, sent, acked, released>>, NotedOK', CapturesOK'
  PROVE  DiskInv'
<1>0. disk' \in [Segments -> Files] /\ disk'[s] = g /\ \A t \in Segments : t # s => disk'[t] = disk[t]
  BY DEF DiskInv, DiskTypes, Fitting
<1>1. DiskTypes'
  BY <1>0 DEF DiskInv, DiskTypes
<1>2. \A t \in Segments : FileOK(disk'[t])
  BY <1>0 DEF DiskInv, Fitting
<1>3. ObjectsOK'
  <2>1. ASSUME NEW t \in Segments PROVE ObjectOK(t, disk[t])'
    <3>1. ObjectOK(t, disk'[t])
      BY <1>0, DiskAt DEF Fitting
    <3> QED BY <3>1 DEF ObjectOK
  <2>2. \A t \in Segments : ToSet(objects'[t]) \subseteq sent'
    BY DEF DiskInv, ObjectsOK
  <2> QED BY <2>1, <2>2 DEF ObjectsOK
<1>4. AckedOK'
  <2>1. ASSUME NEW r \in acked
        PROVE  r[1] \in Secure(disk'[r[2]]) \/ r[1] \in ToSet(objects[r[2]])
    <3>1. r[2] \in Segments /\ (r[1] \in Secure(disk[r[2]]) \/ r[1] \in ToSet(objects[r[2]]))
      BY DEF DiskInv, DiskTypes, AckedOK
    <3>2. CASE r[2] = s
      BY <3>1, <3>2, <1>0 DEF Fitting
    <3>3. CASE r[2] # s
      BY <3>1, <3>3, <1>0
    <3> QED BY <3>2, <3>3
  <2>2. \A r \in acked' : r[1] \in sent'
    BY DEF DiskInv, AckedOK
  <2>3. \A r \in acked' : Cites[r[1]] # NoCapture => \E q \in acked' : q[1] = Cites[r[1]]
    BY DEF DiskInv, AckedOK
  <2> QED BY <2>1, <2>2, <2>3 DEF AckedOK
<1> QED BY <1>1, <1>2, <1>3, <1>4 DEF DiskInv

(* The same file with no more captures, and no new descriptor. *)
LEMMA SameCaptures ==
  ASSUME DiskInv, NEW s \in Segments, NEW g, disk' = [disk EXCEPT ![s] = g], sent' = sent,
         ToSet(g.data) \subseteq ToSet(disk[s].data)
  PROVE  CapturesOK'
<1>0. disk'[s] = g /\ \A t \in Segments : t # s => disk'[t] = disk[t]
  BY DEF DiskInv, DiskTypes
<1>1. \A t \in Segments : ToSet(disk'[t].data) \subseteq ToSet(disk[t].data)
  BY <1>0
<1> QED BY <1>1 DEF DiskInv, CapturesOK

LEMMA SameNoted ==
  ASSUME DiskInv, NEW s \in Segments, NEW g, disk' = [disk EXCEPT ![s] = g],
         s \in Noted \/ (g.meta.state = "None" /\ g.old.state = "None")
  PROVE  NotedOK'
<1>0. disk'[s] = g /\ \A t \in Segments : t # s => disk'[t] = disk[t]
  BY DEF DiskInv, DiskTypes
<1>1. Noted' \subseteq Noted
  BY <1>0 DEF Noted
<1>2. IsFiniteSet(Noted') /\ Cardinality(Noted') <= MaxSegments
  BY <1>1, FewerNoted DEF DiskInv
<1> QED BY <1>2 DEF NotedOK

LEMMA SyncDisk ==
  ASSUME DiskInv, disk' = Sync(disk)
  PROVE  /\ disk' \in [Segments -> Files]
         /\ \A t \in Segments : Settles(disk[t], disk'[t]) /\ disk'[t] = Synced(disk[t])
                                /\ disk'[t].meta = disk[t].meta /\ disk'[t].old = disk[t].meta
<1>1. \A t \in Segments : Settles(disk[t], Synced(disk[t])) /\ Synced(disk[t]).meta = disk[t].meta
  BY DiskAt, SyncSettles
<1>2. disk' = [s \in Segments |-> Synced(disk[s])]
  BY SyncIs
<1>3. \A t \in Segments : Synced(disk[t]) \in Files /\ Synced(disk[t]).old = disk[t].meta
  BY <1>1 DEF Settles
<1> QED BY <1>1, <1>2, <1>3
-----------------------------------------------------------------------------
(* One effect *)

(* What a step of an operation leaves alone. *)
Goes ==
  /\ op'.todo = Tail(op.todo)
  /\ op'.kind = op.kind /\ op'.batch = op.batch /\ op'.rest = op.rest /\ op'.pins = op.pins
  /\ op' = [kind |-> op'.kind, todo |-> op'.todo, batch |-> op'.batch, rest |-> op'.rest, pins |-> op'.pins]
  /\ UNCHANGED <<health, up, target, pub, objects, sent, acked, released>>

LEMMA StepGoes ==
  ASSUME Step, OpTypes
  PROVE  /\ op.todo # <<>> /\ Goes
         /\ disk' = OnDisk(Head(op.todo)) /\ mem' = InMemory(Head(op.todo))
         /\ active' = Opened(Head(op.todo))
<1>1. op.todo # <<>> /\ disk' = OnDisk(Head(op.todo)) /\ mem' = InMemory(Head(op.todo))
      /\ active' = Opened(Head(op.todo)) /\ op' = [op EXCEPT !.todo = Tail(op.todo)]
      /\ UNCHANGED <<health, up, target, pub, objects, sent, acked, released>>
  BY DEF Step
<1>2. op = [kind |-> op.kind, todo |-> op.todo, batch |-> op.batch, rest |-> op.rest, pins |-> op.pins]
  BY DEF OpTypes
<1> QED BY <1>1, <1>2 DEF Goes

LEMMA EffectIs ==
  ASSUME NEW do, NEW s, NEW x
  PROVE  Effect(do, s, x).do = do /\ Effect(do, s, x).seg = s /\ Effect(do, s, x).arg = x
  BY DEF Effect

LEMMA DidFiles ==
  ASSUME NEW e, e.do = "files"
  PROVE  /\ OnDisk(e) = [disk EXCEPT ![e.seg].entry = "new"]
         /\ InMemory(e) = mem /\ Opened(e) = active
<1>1. OnDisk(e) = [disk EXCEPT ![e.seg].entry = "new"]
  BY Zenon DEF OnDisk
<1>2. InMemory(e) = mem
  BY DEF InMemory
<1> QED BY <1>1, <1>2 DEF Opened

LEMMA DidDescribe ==
  ASSUME NEW e, e.do = "describe"
  PROVE  /\ OnDisk(e) = [disk EXCEPT ![e.seg].meta = e.arg]
         /\ InMemory(e) = mem /\ Opened(e) = active
  BY DEF OnDisk, InMemory, Opened

LEMMA DidSync ==
  ASSUME NEW e, e.do = "sync"
  PROVE  /\ OnDisk(e) = Sync(disk)
         /\ InMemory(e) = mem /\ Opened(e) = active
  BY DEF OnDisk, InMemory, Opened

LEMMA DidRemember ==
  ASSUME NEW e, e.do = "remember"
  PROVE  /\ OnDisk(e) = Sync(disk)
         /\ InMemory(e) = [mem EXCEPT ![e.seg] = e.arg]
         /\ Opened(e) = IF e.arg.state = "Open" THEN e.seg
                        ELSE IF e.seg = active THEN NoSegment ELSE active
  BY DEF OnDisk, InMemory, Opened

LEMMA DidWrite ==
  ASSUME NEW e, e.do = "write"
  PROVE  /\ OnDisk(e) = [disk EXCEPT ![e.seg].data = @ \o e.arg]
         /\ InMemory(e) = mem /\ Opened(e) = active
  BY DEF OnDisk, InMemory, Opened

LEMMA DidSyncData ==
  ASSUME NEW e, e.do = "sync_data"
  PROVE  /\ OnDisk(e) = [disk EXCEPT ![e.seg].synced = Len(disk[e.seg].data)]
         /\ InMemory(e) = mem /\ Opened(e) = active
  BY DEF OnDisk, InMemory, Opened

LEMMA DidLine ==
  ASSUME NEW e, e.do = "line"
  PROVE  /\ OnDisk(e) = [disk EXCEPT ![e.seg].lines = Append(@, Len(disk[e.seg].data))]
         /\ InMemory(e) = mem /\ Opened(e) = active
  BY DEF OnDisk, InMemory, Opened

LEMMA DidCount ==
  ASSUME NEW e, e.do = "count"
  PROVE  /\ OnDisk(e) = [disk EXCEPT ![e.seg].linesSynced = Len(disk[e.seg].lines)]
         /\ InMemory(e) = [mem EXCEPT ![e.seg].records = Len(disk[e.seg].data)]
         /\ Opened(e) = active
  BY DEF OnDisk, InMemory, Opened

LEMMA DidTrim ==
  ASSUME NEW e, e.do = "trim"
  PROVE  /\ OnDisk(e) = [disk EXCEPT ![e.seg].data = SubSeq(@, 1, LastLine(disk[e.seg])),
                                     ![e.seg].synced = LastLine(disk[e.seg]),
                                     ![e.seg].linesSynced = Len(disk[e.seg].lines)]
         /\ InMemory(e) = mem /\ Opened(e) = active
  BY DEF OnDisk, InMemory, Opened

LEMMA DidUnlink ==
  ASSUME NEW e, e.do = "unlink"
  PROVE  /\ OnDisk(e) = [disk EXCEPT ![e.seg].entry = IF @ = "none" THEN @ ELSE "gone"]
         /\ InMemory(e) = mem /\ Opened(e) = active
  BY DEF OnDisk, InMemory, Opened
-----------------------------------------------------------------------------
(* A step of the operation at segment s leaves the other segments alone,   *)
(* or syncs them too.                                                      *)
Others(s) ==
  \A t \in Segments \ {s} : mem'[t] = mem[t] /\ disk'[t] \in {disk[t], Synced(disk[t])}

LEMMA SyncedIs ==
  ASSUME NEW f \in Files, FileOK(f), NEW g \in {f, Synced(f)}
  PROVE  /\ g.meta = f.meta /\ g.old \in {f.old, f.meta} /\ (g = f \/ g.old = f.meta)
         /\ Secure(f) \subseteq Secure(g) /\ ToSet(g.data) \subseteq ToSet(f.data)
         /\ Whole(f) => Whole(g) /\ g.data = f.data
<1>1. CASE g = f
  BY <1>1
<1>2. CASE g = Synced(f)
  <2>1. Settles(f, g) /\ g.meta = f.meta
    BY <1>2, SyncSettles
  <2> QED BY <2>1 DEF Settles
<1> QED BY <1>1, <1>2

LEMMA Aside ==
  ASSUME DiskInv, Goes, NEW s \in Segments, Others(s), NEW t \in Segments, t # s
  PROVE  /\ \A key : Kept(t, key) => Kept(t, key)'
         /\ Secure(disk[t]) \subseteq Secure(disk'[t])
         /\ ToSet(disk'[t].data) \subseteq ToSet(disk[t].data)
         /\ Agree(t) => Agree(t)'
         /\ Basic(t) /\ (mem[t].state = "Open" => active' = t) => Basic(t)'
         /\ Told(t) /\ op.todo # First => Told(t)'
         /\ Agree(t) /\ disk[t].data # <<>> => disk'[t].data # <<>>
<1> DEFINE f == disk[t]
           g == disk'[t]
<1>1. f \in Files /\ FileOK(f) /\ g \in {f, Synced(f)} /\ mem'[t] = mem[t]
  BY DiskAt DEF Others
<1>2. /\ g.meta = f.meta /\ g.old \in {f.old, f.meta} /\ (g = f \/ g.old = f.meta)
      /\ Secure(f) \subseteq Secure(g) /\ ToSet(g.data) \subseteq ToSet(f.data)
      /\ Whole(f) => Whole(g) /\ g.data = f.data
  BY <1>1, SyncedIs
<1>3. UNCHANGED <<health, up, objects, released>>
  BY DEF Goes
<1>4. Tells(f.meta, f)
  BY <1>1 DEF FileOK
<1> HIDE DEF f, g
<1>5. \A key : Kept(t, key) => Kept(t, key)'
  BY <1>1, <1>2, <1>3 DEF Kept, f, g
<1>6. Agree(t) => Agree(t)'
  BY <1>1, <1>2 DEF Agree, SameRefs, f, g
<1>7. Basic(t) /\ (mem[t].state = "Open" => active' = t) => Basic(t)'
  BY <1>1, <1>2, <1>3 DEF Basic, f, g
<1>8. Told(t) /\ op.todo # First => Told(t)'
  BY <1>1, <1>2 DEF Told, f, g
<1>9. Agree(t) /\ f.data # <<>> => g.data # <<>>
  <2>1. ASSUME Agree(t), f.data # <<>> PROVE Whole(f)
    <3>1. f.meta # NoMeta
      BY <2>1, <1>4, NoMetaIs DEF Tells, Empty
    <3> QED BY <2>1, <3>1, <1>4 DEF Agree, Tells, f
  <2> QED BY <2>1, <1>2
<1> QED BY <1>2, <1>5, <1>6, <1>7, <1>8, <1>9 DEF f, g

(* What a step has to show of the segment that it works on. *)
Local(s) ==
  /\ \A key \in Keys : Needed(s, key) => Kept(s, key)'
  /\ mem' \in [Segments -> Metas] /\ active' \in Segments \cup {NoSegment} /\ ActiveOK'
  /\ Serving => /\ \A t \in Segments : t # s /\ mem[t].state = "Open" => active' = t
                /\ Basic(s)'
                /\ health # "failed" /\ ~Works(s)' => Agree(s)'
  /\ Opening => active' = NoSegment /\ op.todo # First /\ (~Works(s)' => Told(s)')
  /\ pub.at # "idle" /\ pub.segment = s => mem'[s].state = "Pending"
  /\ Writing => /\ ToSet(disk'[s].data) \cap ToSet(op.rest) = {}
                /\ Secure(disk[s]) \subseteq Secure(disk'[s])
                /\ InFlight \subseteq InFlight' \cup Secure(disk'[s])
                /\ \A key : Given(s, key) => Given(s, key)'
  /\ op.kind = "pin" => disk'[s].data = disk[s].data

LEMMA StepFrame ==
  ASSUME IInv, Goes, op.todo # <<>>, NEW s \in Segments, Head(op.todo).seg = s, Others(s),
         DiskInv', Local(s), AtWork'
  PROVE  IInv'
<1>0. /\ DiskInv /\ PinsOK /\ OpTypes /\ DownOK /\ ActiveOK /\ ServingOK /\ OpeningOK
      /\ PubOK /\ BatchOK /\ CitesOK /\ CatalogOK
  BY DEF IInv
<1>1. UNCHANGED <<health, up, target, pub, objects, sent, acked, released>>
      /\ op'.kind = op.kind /\ op'.batch = op.batch /\ op'.rest = op.rest /\ op'.pins = op.pins
  BY DEF Goes
<1>2. up /\ op.kind # "idle"
  <2>1. op # Idle
    BY DEF Idle
  <2> QED BY <2>1, <1>0 DEF DownOK, OpTypes
<1>3. \A t \in Segments : t # s => ~Works(t)
  BY DEF Works
<1>4. PinsOK'
  <2>1. ASSUME NEW t \in Segments, NEW key \in Keys, Needed(t, key)' PROVE Kept(t, key)'
    <3>1. Needed(t, key)
      BY <2>1, <1>1 DEF Needed
    <3>2. CASE t = s
      BY <3>1, <3>2 DEF Local
    <3>3. CASE t # s
      BY <3>1, <3>3, <1>0, Aside DEF PinsOK
    <3> QED BY <3>2, <3>3
  <2> QED BY <2>1 DEF PinsOK
<1>5. OpTypes'
  <2>1. mem' \in [Segments -> Metas] /\ active' \in Segments \cup {NoSegment}
    BY DEF Local
  <2>2. op' = [kind |-> op'.kind, todo |-> op'.todo, batch |-> op'.batch, rest |-> op'.rest,
               pins |-> op'.pins]
    BY DEF Goes
  <2> QED BY <2>1, <2>2, <1>0, <1>1, <1>2 DEF OpTypes
<1>6. DownOK' /\ ActiveOK'
  BY <1>1, <1>2 DEF DownOK, Local
<1>7. ServingOK'
  <2>1. SUFFICES ASSUME Serving' PROVE ServingOK'
    BY DEF ServingOK
  <2>2. Serving
    BY <2>1, <1>1 DEF Serving
  <2>3. ASSUME NEW t \in Segments PROVE Basic(t)'
    <3>1. CASE t = s
      BY <2>2, <3>1 DEF Local
    <3>2. CASE t # s
      <4>1. Basic(t) /\ (mem[t].state = "Open" => active' = t)
        BY <2>2, <3>2, <1>0 DEF Local, ServingOK
      <4> QED BY <4>1, <3>2, <1>0, Aside
    <3> QED BY <3>1, <3>2
  <2>4. ASSUME NEW t \in Segments, health' # "failed", ~Works(t)' PROVE Agree(t)'
    <3>1. CASE t = s
      BY <2>2, <2>4, <3>1, <1>1 DEF Local
    <3>2. CASE t # s
      <4>1. Agree(t)
        BY <2>2, <2>4, <3>2, <1>0, <1>1, <1>3 DEF ServingOK
      <4> QED BY <4>1, <3>2, <1>0, Aside
    <3> QED BY <3>1, <3>2
  <2> QED BY <2>3, <2>4 DEF ServingOK
<1>8. OpeningOK'
  <2>1. SUFFICES ASSUME Opening' PROVE OpeningOK'
    BY DEF OpeningOK
  <2>2. Opening
    BY <2>1, <1>1 DEF Opening
  <2>3. active' = NoSegment /\ op.todo # First
    BY <2>2 DEF Local
  <2>4. ASSUME NEW t \in Segments, ~Works(t)' PROVE Told(t)'
    <3>1. CASE t = s
      BY <2>2, <2>4, <3>1 DEF Local
    <3>2. CASE t # s
      <4>1. Told(t)
        BY <2>2, <3>2, <1>0, <1>3 DEF OpeningOK
      <4> QED BY <4>1, <2>3, <3>2, <1>0, Aside
    <3> QED BY <3>1, <3>2
  <2>5. health' = "ok" /\ pub' = NoUpload
    BY <2>2, <1>0, <1>1 DEF OpeningOK
  <2> QED BY <2>3, <2>4, <2>5 DEF OpeningOK
<1>9. PubOK'
  <2>1. ASSUME pub.at # "idle" PROVE mem'[pub.segment].state = "Pending"
    <3>1. CASE pub.segment = s
      BY <2>1, <3>1 DEF Local
    <3>2. CASE pub.segment # s
      <4>1. pub.segment \in Segments \ {s} /\ mem[pub.segment].state = "Pending"
        BY <2>1, <3>2, <1>0 DEF OpTypes, PubOK
      <4> QED BY <4>1 DEF Others
    <3> QED BY <3>1, <3>2
  <2> QED BY <2>1, <1>1 DEF PubOK
<1>10. BatchOK'
  <2>1. SUFFICES ASSUME Writing' PROVE BatchOK'
    BY DEF BatchOK
  <2>2. Writing /\ Serving /\ health # "failed"
    BY <2>1, <1>1, <1>2, <1>0 DEF Writing, Serving, OpTypes
  <2>3. ToSet(disk'[s].data) \cap ToSet(op.rest) = {} /\ Secure(disk[s]) \subseteq Secure(disk'[s])
        /\ InFlight \subseteq InFlight' \cup Secure(disk'[s])
    BY <2>2 DEF Local
  <2>4. \A t \in Segments : Secure(disk[t]) \subseteq Secure(disk'[t])
    BY <2>3, <1>0, Aside
  <2>5. \A t \in Segments : ToSet(disk'[t].data) \cap ToSet(op.rest) = {}
    <3>1. \A t \in Segments : ToSet(disk[t].data) \cap ToSet(op.rest) = {}
      BY <2>2, <1>0 DEF BatchOK
    <3>2. \A t \in Segments : t # s => ToSet(disk'[t].data) \subseteq ToSet(disk[t].data)
      BY <1>0, Aside
    <3> QED BY <3>1, <3>2, <2>3
  <2>6. ASSUME NEW c \in ToSet(op.batch)
        PROVE  c \in ToSet(op.rest) \/ c \in InFlight' \/ \E t \in Segments : c \in Secure(disk'[t])
    <3>1. c \in ToSet(op.rest) \/ c \in InFlight \/ \E t \in Segments : c \in Secure(disk[t])
      BY <2>2, <1>0 DEF BatchOK
    <3> QED BY <3>1, <2>3, <2>4
  <2>7. ASSUME op.kind = "pin", NEW t \in op.pins PROVE disk'[t].data # <<>>
    <3>1. t \in Segments /\ disk[t].data # <<>>
      BY <2>2, <2>7, <1>0 DEF BatchOK, OpTypes
    <3>2. CASE t = s
      BY <3>1, <3>2, <2>7 DEF Local
    <3>3. CASE t # s
      <4>1. Agree(t)
        BY <3>1, <3>3, <2>2, <1>0, <1>3 DEF ServingOK
      <4> QED BY <4>1, <3>1, <3>3, <1>0, Aside
    <3> QED BY <3>2, <3>3
  <2> HIDE DEF InFlight
  <2>8. /\ ToSet(op.batch) \subseteq sent
        /\ \A r \in acked : r[1] \notin ToSet(op.batch)
        /\ \A c \in ToSet(op.batch) : Cites[c] # NoCapture => \E q \in acked : q[1] = Cites[c]
        /\ ToSet(op.rest) \subseteq ToSet(op.batch) /\ Distinct(op.rest)
        /\ op.kind = "pin" => op.rest = <<>>
        /\ op.kind = "cite" => op.rest = op.batch
    BY <2>2, <1>0 DEF BatchOK
  <2> QED BY <2>5, <2>6, <2>7, <2>8, <1>1 DEF BatchOK
<1>11. CitesOK'
  <2>1. ASSUME Writing, NEW c \in ToSet(op.batch), Cites[c] # NoCapture, NEW t \in Segments,
               <<Cites[c], t>> \in acked
        PROVE  (op.kind = "cite" /\ t \in op.pins) \/ Given(t, Confirmed)'
    <3>1. (op.kind = "cite" /\ t \in op.pins) \/ Given(t, Confirmed)
      BY <2>1, <1>0 DEF CitesOK
    <3>2. CASE t = s
      BY <2>1, <3>1, <3>2 DEF Local
    <3>3. CASE t # s
      <4>1. (op.kind = "cite" /\ t \in op.pins) \/ Kept(t, Confirmed)
        BY <3>1, <3>3, <1>3 DEF Given
      <4>2. Kept(t, Confirmed) => Kept(t, Confirmed)'
        BY <3>3, <1>0, Aside
      <4> QED BY <4>1, <4>2 DEF Given
    <3> QED BY <3>2, <3>3
  <2> QED BY <2>1, <1>1 DEF CitesOK, Writing
<1>12. CatalogOK'
  <2>1. ASSUME op.kind = "pin", NEW c \in ToSet(op.batch), Cites[c] = NoCapture, NEW t \in Segments,
               c \in ToSet(disk'[t].data)
        PROVE  t \in op.pins \/ Given(t, Catalog)'
    <3>2. CASE t = s
      <4>1. t \in op.pins \/ Given(t, Catalog)
        BY <2>1, <3>2, <1>0 DEF CatalogOK, Local
      <4> QED BY <2>1, <3>2, <4>1 DEF Local, Writing
    <3>3. CASE t # s
      <4>0. c \in ToSet(disk[t].data)
        BY <2>1, <3>3, <1>0, Aside
      <4>1. t \in op.pins \/ Kept(t, Catalog)
        BY <2>1, <3>3, <4>0, <1>0, <1>3 DEF CatalogOK, Given
      <4>2. Kept(t, Catalog) => Kept(t, Catalog)'
        BY <3>3, <1>0, Aside
      <4> QED BY <4>1, <4>2 DEF Given
    <3> QED BY <3>2, <3>3
  <2> QED BY <2>1, <1>1 DEF CatalogOK
<1> QED
  BY <1>4, <1>5, <1>6, <1>7, <1>8, <1>9, <1>10, <1>11, <1>12 DEF IInv
-----------------------------------------------------------------------------
(* The lists of effects *)

LEMMA Joined ==
  ASSUME NEW a, NEW S, NEW q \in Seq(S)
  PROVE  /\ Head(<<a>> \o q) = a /\ Tail(<<a>> \o q) = q
         /\ <<a>> \o q # <<>> /\ Len(<<a>> \o q) = 1 + Len(q)
         /\ q # <<>> => (<<a>> \o q)[2] = Head(q)
<1> DEFINE T == S \cup {a}
           p == <<a>> \o q
<1>1. q \in Seq(T) /\ <<a>> \in Seq(T) /\ Len(<<a>>) = 1 /\ <<a>>[1] = a
  OBVIOUS
<1>2. p \in Seq(T) /\ Len(p) = 1 + Len(q) /\ p[1] = a /\ \A i \in 1 .. Len(q) : p[i + 1] = q[i]
  BY <1>1
<1> HIDE DEF p
<1>3. Len(q) \in Nat
  OBVIOUS
<1>4. Head(p) = a /\ p # <<>>
  BY <1>2, <1>3
<1>5. Tail(p) \in Seq(T) /\ Len(Tail(p)) = Len(q) /\ \A i \in 1 .. Len(q) : Tail(p)[i] = q[i]
  BY <1>2, <1>3
<1>6. Tail(p) = q
  BY <1>1, <1>5, SeqEqual
<1>7. q # <<>> => p[2] = Head(q)
  BY <1>2
<1> QED BY <1>2, <1>4, <1>6, <1>7 DEF p

LEMMA Two ==
  ASSUME NEW a, NEW b
  PROVE  /\ Head(<<a, b>>) = a /\ Tail(<<a, b>>) = <<b>> /\ <<a, b>> # <<>> /\ Len(<<a, b>>) = 2
         /\ Head(<<b>>) = b /\ Tail(<<b>>) = <<>> /\ <<b>> # <<>> /\ Len(<<b>>) = 1
  OBVIOUS

LEMMA TwoJoined ==
  ASSUME NEW a, NEW b, NEW S, NEW q \in Seq(S)
  PROVE  /\ Head(<<a, b>> \o q) = a /\ Tail(<<a, b>> \o q) = <<b>> \o q
         /\ <<a, b>> \o q # <<>> /\ Len(<<a, b>> \o q) = 2 + Len(q)
         /\ <<a, b>> \o q \in Seq(S \cup {a, b})
<1> DEFINE T == S \cup {a, b}
           p == <<a, b>> \o q
           r == <<b>> \o q
<1>1. q \in Seq(T) /\ <<a, b>> \in Seq(T) /\ Len(<<a, b>>) = 2 /\ <<a, b>>[1] = a /\ <<a, b>>[2] = b
      /\ <<b>> \in Seq(T) /\ Len(<<b>>) = 1 /\ <<b>>[1] = b
  OBVIOUS
<1>2. p \in Seq(T) /\ Len(p) = 2 + Len(q) /\ p[1] = a /\ p[2] = b /\ \A i \in 1 .. Len(q) : p[i + 2] = q[i]
  BY <1>1
<1>3. r \in Seq(T) /\ Len(r) = 1 + Len(q) /\ r[1] = b /\ \A i \in 1 .. Len(q) : r[i + 1] = q[i]
  BY <1>1
<1> HIDE DEF p, r
<1>4. Len(q) \in Nat
  OBVIOUS
<1>5. Head(p) = a /\ p # <<>>
  BY <1>2, <1>4
<1>6. Tail(p) \in Seq(T) /\ Len(Tail(p)) = 1 + Len(q) /\ \A i \in 1 .. 1 + Len(q) : Tail(p)[i] = p[i + 1]
  BY <1>2, <1>4
<1>7. \A i \in 1 .. 1 + Len(q) : p[i + 1] = r[i]
  <2>1. TAKE i \in 1 .. 1 + Len(q)
  <2>2. CASE i = 1
    BY <2>2, <1>2, <1>3
  <2>3. CASE i # 1
    <3>1. i - 1 \in 1 .. Len(q)
      BY <2>3, <1>4
    <3>2. p[(i - 1) + 2] = q[i - 1] /\ r[(i - 1) + 1] = q[i - 1]
      BY <3>1, <1>2, <1>3
    <3> QED BY <3>1, <3>2, <1>4
  <2> QED BY <2>2, <2>3
<1>8. Tail(p) = r
  BY <1>3, <1>6, <1>7, SeqEqual
<1> QED BY <1>2, <1>5, <1>8 DEF p, r

LEMMA FourJoined ==
  ASSUME NEW a, NEW b, NEW c, NEW d
  PROVE  /\ Head(<<a, b>> \o <<c, d>>) = a /\ Tail(<<a, b>> \o <<c, d>>) = <<b>> \o <<c, d>>
         /\ <<a, b>> \o <<c, d>> # <<>> /\ Len(<<a, b>> \o <<c, d>>) = 4
         /\ <<a, b>> \o <<c, d>> \in Seq({a, b, c, d})
         /\ Head(<<b>> \o <<c, d>>) = b /\ Tail(<<b>> \o <<c, d>>) = <<c, d>>
         /\ <<b>> \o <<c, d>> # <<>> /\ Len(<<b>> \o <<c, d>>) = 3
         /\ (<<b>> \o <<c, d>>)[2] = c
<1>1. <<c, d>> \in Seq({a, b, c, d}) /\ Len(<<c, d>>) = 2 /\ <<c, d>> # <<>> /\ Head(<<c, d>>) = c
  OBVIOUS
<1> DEFINE S == {a, b, c, d}
           q == <<c, d>>
<1>2. S \cup {a, b} = S
  OBVIOUS
<1>3. q \in Seq(S) /\ Len(q) = 2 /\ q # <<>> /\ Head(q) = c
  BY <1>1
<1> HIDE DEF S, q
<1>4. /\ Head(<<a, b>> \o q) = a /\ Tail(<<a, b>> \o q) = <<b>> \o q
      /\ <<a, b>> \o q # <<>> /\ Len(<<a, b>> \o q) = 2 + Len(q)
      /\ <<a, b>> \o q \in Seq(S \cup {a, b})
  BY <1>3, TwoJoined
<1>5. /\ Head(<<b>> \o q) = b /\ Tail(<<b>> \o q) = q
      /\ <<b>> \o q # <<>> /\ Len(<<b>> \o q) = 1 + Len(q)
      /\ q # <<>> => (<<b>> \o q)[2] = Head(q)
  BY <1>3, Joined
<1>6. Len(<<a, b>> \o q) = 4 /\ Len(<<b>> \o q) = 3 /\ <<a, b>> \o q \in Seq(S)
      /\ (<<b>> \o q)[2] = c
  BY <1>2, <1>3, <1>4, <1>5
<1> QED BY <1>4, <1>5, <1>6 DEF S, q

LEMMA SaveIs ==
  ASSUME NEW s, NEW m
  PROVE  /\ Head(Save(s, m)) = Effect("describe", s, m) /\ Save(s, m) # <<>>
         /\ Tail(Save(s, m)) = <<Effect("remember", s, m)>> /\ Len(Save(s, m)) = 2
         /\ Save(s, m) \in Seq({Effect("describe", s, m), Effect("remember", s, m)})
  BY Two DEF Save

LEMMA CommitIs ==
  ASSUME NEW s, NEW cs
  PROVE  /\ Head(Commit(s, cs)) = Effect("write", s, cs) /\ Commit(s, cs) # <<>>
         /\ Tail(Commit(s, cs)) = <<Effect("sync_data", s, 0), Effect("line", s, 0), Effect("count", s, 0)>>
         /\ Len(Commit(s, cs)) = 4
  BY DEF Commit

LEMMA CreateIs ==
  ASSUME NEW s
  PROVE  /\ Head(CreateSegment(s)) = Effect("files", s, 0) /\ CreateSegment(s) # <<>>
         /\ Tail(CreateSegment(s)) = <<Effect("sync", s, 0)>> \o Save(s, NewMeta)
         /\ Head(<<Effect("sync", s, 0)>> \o Save(s, NewMeta)) = Effect("sync", s, 0)
         /\ Tail(<<Effect("sync", s, 0)>> \o Save(s, NewMeta)) = Save(s, NewMeta)
         /\ <<Effect("sync", s, 0)>> \o Save(s, NewMeta) # <<>>
  BY FourJoined DEF CreateSegment, Save

LEMMA DeleteIs ==
  ASSUME NEW s
  PROVE  /\ Head(DeleteFiles(s)) = Effect("unlink", s, 0) /\ DeleteFiles(s) # <<>>
         /\ Tail(DeleteFiles(s)) = <<Effect("sync", s, 0)>> \o Save(s, NoMeta)
         /\ Head(<<Effect("sync", s, 0)>> \o Save(s, NoMeta)) = Effect("sync", s, 0)
         /\ Tail(<<Effect("sync", s, 0)>> \o Save(s, NoMeta)) = Save(s, NoMeta)
         /\ <<Effect("sync", s, 0)>> \o Save(s, NoMeta) # <<>>
         /\ \E S : DeleteFiles(s) \in Seq(S)
         /\ Len(DeleteFiles(s)) = 4
<1> DEFINE a == Effect("unlink", s, 0)
           b == Effect("sync", s, 0)
           c == Effect("describe", s, NoMeta)
           d == Effect("remember", s, NoMeta)
<1>1. DeleteFiles(s) = <<a, b>> \o <<c, d>> /\ Save(s, NoMeta) = <<c, d>>
  BY DEF DeleteFiles, Save
<1> HIDE DEF a, b, c, d
<1>2. /\ Head(<<a, b>> \o <<c, d>>) = a /\ Tail(<<a, b>> \o <<c, d>>) = <<b>> \o <<c, d>>
      /\ <<a, b>> \o <<c, d>> # <<>> /\ Len(<<a, b>> \o <<c, d>>) = 4
      /\ Head(<<b>> \o <<c, d>>) = b /\ Tail(<<b>> \o <<c, d>>) = <<c, d>>
      /\ <<b>> \o <<c, d>> # <<>>
  BY FourJoined
<1>3. DeleteFiles(s) \in Seq({a, b, c, d})
  BY <1>1, FourJoined
<1>4. \E S : DeleteFiles(s) \in Seq(S)
  BY <1>3
<1> QED BY <1>1, <1>2, <1>4 DEF a, b

LEMMA CollectIs ==
  ASSUME NEW s, NEW m
  PROVE  /\ Head(Save(s, m) \o DeleteFiles(s)) = Effect("describe", s, m)
         /\ Save(s, m) \o DeleteFiles(s) # <<>>
         /\ Tail(Save(s, m) \o DeleteFiles(s)) = <<Effect("remember", s, m)>> \o DeleteFiles(s)
         /\ Head(<<Effect("remember", s, m)>> \o DeleteFiles(s)) = Effect("remember", s, m)
         /\ Tail(<<Effect("remember", s, m)>> \o DeleteFiles(s)) = DeleteFiles(s)
         /\ <<Effect("remember", s, m)>> \o DeleteFiles(s) # <<>>
<1>1. PICK S : DeleteFiles(s) \in Seq(S)
  BY DeleteIs
<1> DEFINE a == Effect("describe", s, m)
           b == Effect("remember", s, m)
           q == DeleteFiles(s)
<1>2. Save(s, m) = <<a, b>>
  BY DEF Save
<1>3. q \in Seq(S)
  BY <1>1
<1> HIDE DEF a, b, q
<1>4. /\ Head(<<a, b>> \o q) = a /\ Tail(<<a, b>> \o q) = <<b>> \o q /\ <<a, b>> \o q # <<>>
  BY <1>3, TwoJoined
<1>5. Head(<<b>> \o q) = b /\ Tail(<<b>> \o q) = q /\ <<b>> \o q # <<>>
  BY <1>3, Joined
<1> QED BY <1>2, <1>4, <1>5 DEF a, b, q

LEMMA BuryIs ==
  ASSUME NEW s, NEW m
  PROVE  /\ Head(Store(s, m) \o DeleteFiles(s)) = Effect("describe", s, m)
         /\ Store(s, m) \o DeleteFiles(s) # <<>>
         /\ Tail(Store(s, m) \o DeleteFiles(s)) = <<Effect("sync", s, 0)>> \o DeleteFiles(s)
         /\ Head(<<Effect("sync", s, 0)>> \o DeleteFiles(s)) = Effect("sync", s, 0)
         /\ Tail(<<Effect("sync", s, 0)>> \o DeleteFiles(s)) = DeleteFiles(s)
         /\ <<Effect("sync", s, 0)>> \o DeleteFiles(s) # <<>>
         /\ \E S : Store(s, m) \o DeleteFiles(s) \in Seq(S)
         /\ Len(Store(s, m) \o DeleteFiles(s)) = 6
<1>1. PICK S : DeleteFiles(s) \in Seq(S)
  BY DeleteIs
<1> DEFINE a == Effect("describe", s, m)
           b == Effect("sync", s, 0)
           q == DeleteFiles(s)
<1>2. Store(s, m) = <<a, b>> /\ Len(q) = 4
  BY DeleteIs DEF Store
<1>3. q \in Seq(S)
  BY <1>1
<1> HIDE DEF a, b, q
<1>4. /\ Head(<<a, b>> \o q) = a /\ Tail(<<a, b>> \o q) = <<b>> \o q /\ <<a, b>> \o q # <<>>
      /\ Len(<<a, b>> \o q) = 2 + Len(q) /\ <<a, b>> \o q \in Seq(S \cup {a, b})
  BY <1>3, TwoJoined
<1>5. Head(<<b>> \o q) = b /\ Tail(<<b>> \o q) = q /\ <<b>> \o q # <<>>
  BY <1>3, Joined
<1>6. Len(<<a, b>> \o q) = 6
  BY <1>2, <1>4
<1> QED BY <1>2, <1>4, <1>5, <1>6 DEF a, b, q

LEMMA TrimIs ==
  ASSUME NEW a, NEW s, NEW m
  PROVE  /\ Head(<<a>> \o Save(s, m)) = a /\ Tail(<<a>> \o Save(s, m)) = Save(s, m)
         /\ <<a>> \o Save(s, m) # <<>> /\ Len(<<a>> \o Save(s, m)) > 1
         /\ (<<a>> \o Save(s, m))[2].arg = m
         /\ Head(<<a>> \o (Store(s, m) \o DeleteFiles(s))) = a
         /\ Tail(<<a>> \o (Store(s, m) \o DeleteFiles(s))) = Store(s, m) \o DeleteFiles(s)
         /\ <<a>> \o (Store(s, m) \o DeleteFiles(s)) # <<>>
         /\ Len(<<a>> \o (Store(s, m) \o DeleteFiles(s))) > 1
         /\ (<<a>> \o (Store(s, m) \o DeleteFiles(s)))[2].arg = m
<1>1. PICK S : Store(s, m) \o DeleteFiles(s) \in Seq(S)
  BY BuryIs
<1> DEFINE q == Store(s, m) \o DeleteFiles(s)
<1>2. q \in Seq(S) /\ Len(q) = 6 /\ q # <<>> /\ Head(q) = Effect("describe", s, m)
  BY <1>1, BuryIs
<1> HIDE DEF q
<1>3. Head(<<a>> \o q) = a /\ Tail(<<a>> \o q) = q /\ <<a>> \o q # <<>> /\ Len(<<a>> \o q) = 1 + Len(q)
      /\ (<<a>> \o q)[2] = Effect("describe", s, m)
  BY <1>2, Joined
<1>4. Len(<<a>> \o q) > 1 /\ (<<a>> \o q)[2].arg = m
  BY <1>2, <1>3, EffectIs
<1> DEFINE r == Save(s, m)
           T == {Effect("describe", s, m), Effect("remember", s, m)}
<1>5. r \in Seq(T) /\ Len(r) = 2 /\ r # <<>> /\ Head(r) = Effect("describe", s, m)
  BY SaveIs
<1> HIDE DEF r, T
<1>6. Head(<<a>> \o r) = a /\ Tail(<<a>> \o r) = r /\ <<a>> \o r # <<>> /\ Len(<<a>> \o r) = 1 + Len(r)
      /\ (<<a>> \o r)[2] = Effect("describe", s, m)
  BY <1>5, Joined
<1>7. Len(<<a>> \o r) > 1 /\ (<<a>> \o r)[2].arg = m
  BY <1>5, <1>6, EffectIs
<1> QED BY <1>3, <1>4, <1>6, <1>7 DEF q, r
-----------------------------------------------------------------------------
(* The steps that replace the descriptor of a segment in use *)

Grows == \A t \in Segments : Secure(disk[t]) \subseteq Secure(disk'[t])

LEMMA AtStep ==
  ASSUME IInv, Step, NEW s \in Segments, NEW do, NEW x, Head(op.todo) = Effect(do, s, x)
  PROVE  /\ op.todo # <<>> /\ Goes /\ up /\ op.kind # "idle" /\ Head(op.todo).seg = s
         /\ disk[s] \in Files /\ FileOK(disk[s]) /\ ObjectOK(s, disk[s]) /\ objects[s] \in Seq(Captures)
         /\ disk \in [Segments -> Files] /\ mem \in [Segments -> Metas]
         /\ op.kind # "open" => Serving /\ Basic(s)
         /\ op.kind \in {"cite", "append", "pin", "tick"} => health # "failed"
<1>1. op.todo # <<>> /\ Goes
  BY StepGoes DEF IInv
<1>2. up /\ op.kind # "idle"
  <2>1. op # Idle
    BY <1>1 DEF Idle
  <2> QED BY <2>1, <1>1 DEF IInv, DownOK, OpTypes
<1>3. Head(op.todo).seg = s
  BY EffectIs
<1>4. op.kind # "open" => Serving /\ Basic(s)
  BY <1>2 DEF Serving, IInv, ServingOK
<1> QED BY <1>1, <1>2, <1>3, <1>4, DiskAt DEF IInv, DiskInv, DiskTypes, OpTypes

(* A file with a new descriptor in the cache. *)
LEMMA DescribedOK ==
  ASSUME NEW f \in Files, FileOK(f), NEW m \in Metas, Tells(m, f), f.entry # "new",
         NEW g, g = [f EXCEPT !.meta = m]
  PROVE  /\ g \in Files /\ FileOK(g)
         /\ g.meta = m /\ g.old = f.old /\ g.data = f.data /\ g.synced = f.synced
         /\ g.lines = f.lines /\ g.linesSynced = f.linesSynced /\ g.entry = f.entry
<1>1. /\ g \in Files /\ g.meta = m /\ g.old = f.old /\ g.data = f.data /\ g.synced = f.synced
      /\ g.lines = f.lines /\ g.linesSynced = f.linesSynced /\ g.entry = f.entry
  BY DEF Files
<1>2. f.old \in Metas /\ f.entry \in {"none", "kept", "gone"} /\ g = [f EXCEPT !.meta = m, !.old = f.old]
  BY DEF Files
<1>3. Journaled(f) /\ Tells(f.old, f) /\ (f.entry = "none" => Empty(f))
  BY DEF FileOK
<1>4. FileOK(g)
  BY <1>2, <1>3, RetoldOK
<1> QED BY <1>1, <1>4

LEMMA OthersOne ==
  ASSUME NEW s \in Segments, disk \in [Segments -> Files], NEW g, disk' = [disk EXCEPT ![s] = g],
         \A t \in Segments \ {s} : mem'[t] = mem[t]
  PROVE  Others(s)
  BY DEF Others

LEMMA GrowsOne ==
  ASSUME NEW s \in Segments, disk \in [Segments -> Files], NEW g, disk' = [disk EXCEPT ![s] = g],
         Secure(disk[s]) \subseteq Secure(g)
  PROVE  Grows
  BY DEF Grows

LEMMA AlterDescribes ==
  ASSUME IInv, Step, NEW s \in Segments, NEW m, op.todo = Save(s, m), AlterOK(s, m),
         health # "failed" => Agree(s)
  PROVE  IInv' /\ Grows
<1> DEFINE f == disk[s]
           g == [f EXCEPT !.meta = m]
           n == mem[s]
<1>0. Head(op.todo) = Effect("describe", s, m) /\ Tail(op.todo) = <<Effect("remember", s, m)>>
  BY SaveIs
<1>1. /\ op.todo # <<>> /\ Goes /\ up /\ op.kind # "idle" /\ Head(op.todo).seg = s
      /\ f \in Files /\ FileOK(f) /\ ObjectOK(s, f) /\ objects[s] \in Seq(Captures)
      /\ disk \in [Segments -> Files] /\ mem \in [Segments -> Metas]
      /\ op.kind # "open" => Serving /\ Basic(s)
      /\ op.kind \in {"cite", "append", "pin", "tick"} => health # "failed"
  BY <1>0, AtStep
<1>2. disk' = [disk EXCEPT ![s] = g] /\ mem' = mem /\ active' = active
  <2>1. disk' = OnDisk(Head(op.todo)) /\ mem' = InMemory(Head(op.todo)) /\ active' = Opened(Head(op.todo))
    BY StepGoes DEF IInv
  <2> QED BY <2>1, <1>0, EffectIs, DidDescribe
<1>3. op'.todo = <<Effect("remember", s, m)>> /\ op'.todo # <<>> /\ Head(op'.todo) = Effect("remember", s, m)
  BY <1>0, <1>1, Two DEF Goes
<1>4. Serving /\ Basic(s) /\ ~ Opening
  BY <1>1 DEF AlterOK, Opening
<1>5. /\ m \in Metas /\ m.state \in Live /\ n.state \in Live /\ Whole(f) /\ m.records = Len(f.data)
      /\ f.meta.state \in Live /\ f.old.state \in Live /\ n.records = Len(f.data)
  BY DEF AlterOK
<1>6. /\ g \in Files /\ FileOK(g)
      /\ g.meta = m /\ g.old = f.old /\ g.data = f.data /\ g.synced = f.synced
      /\ g.lines = f.lines /\ g.linesSynced = f.linesSynced /\ g.entry = f.entry
  <2>1. Tells(m, f) /\ f.entry # "new"
    BY <1>5 DEF Tells, Live, Sealed, Whole
  <2> QED BY <1>1, <1>5, <2>1, DescribedOK
<1>7. Whole(g)
  BY <1>5, <1>6 DEF Whole, LastLine
<1>8. FileOK(g)
  BY <1>6
<1>9. n.state \in Sealed => m.state \in Sealed /\ f.old.state \in Sealed
  BY DEF AlterOK, Sealed
<1>10. ObjectOK(s, g)
  <2>1. m.state = "Open" => objects[s] = <<>>
    BY <1>4 DEF AlterOK, Basic
  <2>2. m.state = "Published" => objects[s] # <<>>
    BY <1>4 DEF AlterOK, Basic
  <2> QED BY <2>1, <2>2, <1>1, <1>6 DEF ObjectOK
<1>11. Secure(f) \subseteq Secure(g)
  <2>1. Prolongs(f, g)
    BY <1>1, <1>5, <1>6 DEF Prolongs, Live, Sealed, FileOK, Journaled, Files
  <2> QED BY <2>1, <1>1, <1>6, <1>8, SecureGrows
<1> HIDE DEF g, f, n
<1>12. DiskInv'
  <2>1. Fitting(s, g)
    BY <1>6, <1>8, <1>10, <1>11 DEF Fitting, f
  <2>2. UNCHANGED <<objects, sent, acked, released>>
    BY <1>1 DEF Goes
  <2>3. NotedOK'
    <3>1. s \in Noted
      BY <1>5 DEF Noted, Live, Sealed, f
    <3> QED BY <3>1, <1>2, SameNoted DEF IInv
  <2>4. CapturesOK'
    BY <1>2, <1>6, <2>2, SameCaptures DEF IInv, f
  <2> QED BY <1>2, <2>1, <2>2, <2>3, <2>4, OneFile DEF IInv
<1>13. disk'[s] = g /\ mem'[s] = n
  BY <1>1, <1>2 DEF n
<1>14. UNCHANGED <<health, up, target, pub, objects, sent, acked, released>>
      /\ op'.kind = op.kind /\ op'.batch = op.batch /\ op'.rest = op.rest /\ op'.pins = op.pins
  BY <1>1 DEF Goes
<1>15. Local(s)
  <2>1. ASSUME NEW key \in Keys, Needed(s, key) PROVE Kept(s, key)'
    <3>1. Kept(s, key)
      BY <2>1 DEF IInv, PinsOK
    <3>2. <<s, key>> \in released \/ key \in m.references
      BY <2>1 DEF AlterOK
    <3> QED BY <3>1, <3>2, <1>6, <1>13, <1>14 DEF Kept, f, n
  <2>2. mem' \in [Segments -> Metas] /\ active' \in Segments \cup {NoSegment} /\ ActiveOK'
    BY <1>1, <1>2 DEF IInv, OpTypes, ActiveOK
  <2>3. \A t \in Segments : t # s /\ mem[t].state = "Open" => active' = t
    BY <1>2, <1>4 DEF IInv, ServingOK, Basic
  <2>4. Basic(s)'
    BY <1>2, <1>4, <1>5, <1>6, <1>7, <1>9, <1>13, <1>14 DEF Basic, Sealed, f, n
  <2>5. Works(s)'
    BY <1>3, EffectIs DEF Works
  <2>6. pub.at # "idle" /\ pub.segment = s => mem'[s].state = "Pending"
    BY <1>2 DEF IInv, PubOK
  <2>7. InFlight = {}
    BY <1>0, EffectIs DEF InFlight
  <2>8. Writing => ToSet(disk'[s].data) \cap ToSet(op.rest) = {}
    BY <1>6, <1>13 DEF IInv, BatchOK, f
  <2>9. ASSUME Writing, NEW key, Given(s, key) PROVE Given(s, key)'
    <3>1. op.kind # "release"
      BY <2>9 DEF Writing
    <3>2. <<s, key>> \in released \/ key \in m.references
      <4>1. CASE Kept(s, key)
        BY <4>1, <3>1, <1>1 DEF Kept, AlterOK
      <4>2. CASE ~ Kept(s, key)
        BY <4>2, <2>9, <1>0, EffectIs DEF Given
      <4> QED BY <4>1, <4>2
    <3>3. CASE <<s, key>> \in released
      BY <3>3, <1>14 DEF Given, Kept
    <3>4. CASE key \in m.references
      BY <3>4, <2>5, <1>3, EffectIs DEF Given
    <3> QED BY <3>2, <3>3, <3>4
  <2>10. Secure(disk[s]) \subseteq Secure(disk'[s]) /\ disk'[s].data = disk[s].data
    BY <1>6, <1>11, <1>13 DEF f
  <2> QED BY <1>4, <2>1, <2>2, <2>3, <2>4, <2>5, <2>6, <2>7, <2>8, <2>9, <2>10 DEF Local
<1>16. AtWork'
  <2>1. AlterOK(s, m)'
    <3>1. \A key \in Keys : Needed(s, key)' <=> Needed(s, key)
      BY <1>14 DEF Needed
    <3> QED BY <1>2, <1>5, <1>6, <1>7, <1>9, <1>13, <1>14, <3>1 DEF AlterOK, f, n
  <2>2. Alter(s, m)'
    BY <2>1, <1>3, <1>6, <1>13 DEF Alter
  <2> QED BY <2>2, <1>3, EffectIs DEF AtWork
<1>17. Others(s)
  BY <1>1, <1>2, OthersOne
<1>18. Grows
  BY <1>1, <1>2, <1>11, GrowsOne DEF f
<1> QED BY <1>1, <1>12, <1>15, <1>16, <1>17, <1>18, StepFrame

(* A step that syncs the directory. *)
LEMMA SyncStep ==
  ASSUME IInv, Goes, NEW s \in Segments, disk' = Sync(disk), \A t \in Segments \ {s} : mem'[t] = mem[t]
  PROVE  /\ DiskInv' /\ Others(s) /\ Grows /\ disk' \in [Segments -> Files]
         /\ Settles(disk[s], disk'[s]) /\ disk'[s] = Synced(disk[s])
         /\ disk'[s].meta = disk[s].meta /\ disk'[s].old = disk[s].meta
<1>1. DiskInv /\ UNCHANGED <<objects, sent, acked, released>>
  BY DEF IInv, Goes
<1>2. /\ disk' \in [Segments -> Files]
      /\ \A t \in Segments : Settles(disk[t], disk'[t]) /\ disk'[t] = Synced(disk[t])
                             /\ disk'[t].meta = disk[t].meta /\ disk'[t].old = disk[t].meta
  BY <1>1, SyncDisk
<1>3. DiskInv'
  BY <1>1, <1>2, AllSettle
<1>4. Grows
  BY <1>2 DEF Grows, Settles
<1>5. Others(s)
  BY <1>2 DEF Others
<1> QED BY <1>2, <1>3, <1>4, <1>5

LEMMA AlterRemembers ==
  ASSUME IInv, Step, NEW s \in Segments, NEW m, op.todo = <<Effect("remember", s, m)>>, AlterOK(s, m),
         disk[s].meta = m
  PROVE  IInv' /\ Grows
<1> DEFINE f == disk[s]
           g == disk'[s]
           n == mem[s]
<1>0. Head(op.todo) = Effect("remember", s, m) /\ Tail(op.todo) = <<>>
  BY Two
<1>1. /\ op.todo # <<>> /\ Goes /\ up /\ op.kind # "idle" /\ Head(op.todo).seg = s
      /\ f \in Files /\ FileOK(f) /\ ObjectOK(s, f) /\ objects[s] \in Seq(Captures)
      /\ disk \in [Segments -> Files] /\ mem \in [Segments -> Metas]
      /\ op.kind # "open" => Serving /\ Basic(s)
      /\ op.kind \in {"cite", "append", "pin", "tick"} => health # "failed"
  BY <1>0, AtStep
<1>2. /\ disk' = Sync(disk) /\ mem' = [mem EXCEPT ![s] = m]
      /\ active' = IF m.state = "Open" THEN s ELSE IF s = active THEN NoSegment ELSE active
  <2>1. disk' = OnDisk(Head(op.todo)) /\ mem' = InMemory(Head(op.todo)) /\ active' = Opened(Head(op.todo))
    BY StepGoes DEF IInv
  <2> QED BY <2>1, <1>0, EffectIs, DidRemember
<1>3. op'.todo = <<>>
  BY <1>0, <1>1 DEF Goes
<1>4. Serving /\ Basic(s) /\ ~ Opening
  BY <1>1 DEF AlterOK, Opening
<1>5. /\ m \in Metas /\ m.state \in Live /\ n.state \in Live /\ Whole(f) /\ m.records = Len(f.data)
      /\ f.meta = m /\ n.records = Len(f.data)
  BY DEF AlterOK
<1>6. mem'[s] = m /\ \A t \in Segments \ {s} : mem'[t] = mem[t]
  BY <1>1, <1>2
<1>7. /\ DiskInv' /\ Others(s) /\ Grows /\ Settles(f, g) /\ g.meta = m /\ g.old = m
  BY <1>1, <1>2, <1>5, <1>6, SyncStep
<1>8. Whole(g) /\ g.data = f.data /\ Secure(f) \subseteq Secure(g)
  BY <1>5, <1>7 DEF Settles
<1>9. UNCHANGED <<health, up, target, pub, objects, sent, acked, released>>
      /\ op'.kind = op.kind /\ op'.batch = op.batch /\ op'.rest = op.rest /\ op'.pins = op.pins
  BY <1>1 DEF Goes
<1> HIDE DEF f, g, n
<1>10. m.state = "Open" => n.state = "Open"
  BY DEF AlterOK, n
<1>11. m.state \in Sealed \cup {"Open"} /\ (m.state \in Sealed => m.state # "Open")
  BY <1>5 DEF Live, Sealed
<1>12. Local(s)
  <2>1. ASSUME NEW key, <<s, key>> \in released \/ key \in m.references PROVE Kept(s, key)'
    BY <2>1, <1>6, <1>7, <1>9 DEF Kept, g
  <2>2. \A key \in Keys : Needed(s, key) => Kept(s, key)'
    BY <2>1 DEF AlterOK
  <2>3. mem' \in [Segments -> Metas] /\ active' \in Segments \cup {NoSegment}
    BY <1>1, <1>2, <1>5 DEF IInv, OpTypes
  <2>4. ActiveOK'
    BY <1>2, <1>6 DEF IInv, OpTypes, ActiveOK
  <2>5. \A t \in Segments : t # s /\ mem[t].state = "Open" => active' = t
    <3>1. \A t \in Segments : mem[t].state = "Open" => t = active
      BY <1>4 DEF IInv, ServingOK, Basic
    <3> QED BY <3>1, <1>2, <1>10 DEF n
  <2>6. Basic(s)'
    <3>1. m.state = "Open" => s = active' /\ objects[s] = <<>>
      BY <1>2, <1>4, <1>10 DEF Basic, n
    <3>2. m.state = "Published" => objects[s] # <<>>
      BY <1>4 DEF Basic, AlterOK, n
    <3> QED BY <3>1, <3>2, <1>5, <1>6, <1>7, <1>8, <1>9 DEF Basic, g
  <2>7. Agree(s)'
    BY <1>5, <1>6, <1>7, <1>8, <1>11 DEF Agree, SameRefs, g
  <2>8. pub.at # "idle" /\ pub.segment = s => mem'[s].state = "Pending"
    <3>1. pub.at # "idle" /\ pub.segment = s => n.state = "Pending"
      BY DEF IInv, PubOK, n
    <3>2. n.state = "Pending" => m.state = "Pending" \/ pub = NoUpload
      BY DEF AlterOK, n
    <3> QED BY <3>1, <3>2, <1>6 DEF NoUpload
  <2>9. InFlight = {}
    BY <1>0, EffectIs DEF InFlight
  <2>10. Writing => ToSet(disk'[s].data) \cap ToSet(op.rest) = {}
    BY <1>8 DEF IInv, BatchOK, f, g
  <2>11. ASSUME Writing, NEW key, Given(s, key) PROVE Given(s, key)'
    <3>1. op.kind # "release"
      BY <2>11 DEF Writing
    <3>2. <<s, key>> \in released \/ key \in m.references
      <4>1. CASE Kept(s, key)
        BY <4>1, <3>1, <1>1 DEF Kept, AlterOK
      <4>2. CASE ~ Kept(s, key)
        BY <4>2, <2>11, <1>0, EffectIs DEF Given
      <4> QED BY <4>1, <4>2
    <3> QED BY <3>2, <2>1 DEF Given
  <2>12. Secure(disk[s]) \subseteq Secure(disk'[s]) /\ disk'[s].data = disk[s].data
    BY <1>8 DEF f, g
  <2> QED BY <1>4, <2>2, <2>3, <2>4, <2>5, <2>6, <2>7, <2>8, <2>9, <2>10, <2>11, <2>12 DEF Local
<1>13. AtWork'
  BY <1>3 DEF AtWork
<1> QED BY <1>1, <1>7, <1>12, <1>13, StepFrame
-----------------------------------------------------------------------------
(* The steps that create a segment *)

(* A step that changes neither memory nor what the operation works on. *)
LEMMA LocalQuiet ==
  ASSUME IInv, Goes, NEW s \in Segments, mem' = mem, active' = active, Works(s)', up,
         op.kind = "open" => op.todo # First,
         \A key \in Keys : Needed(s, key) =>
            \/ <<s, key>> \in released
            \/ key \in disk'[s].meta.references /\ key \in disk'[s].old.references,
         op.kind # "open" => Basic(s)',
         Writing => /\ ToSet(disk'[s].data) \cap ToSet(op.rest) = {}
                    /\ Secure(disk[s]) \subseteq Secure(disk'[s])
                    /\ InFlight \subseteq InFlight' \cup Secure(disk'[s])
                    /\ \A key : Given(s, key) => Given(s, key)',
         op.kind = "pin" => disk'[s].data = disk[s].data
  PROVE  Local(s)
<1>1. UNCHANGED <<health, up, target, pub, objects, sent, acked, released>>
  BY DEF Goes
<1>2. ASSUME NEW key \in Keys, Needed(s, key) PROVE Kept(s, key)'
  <2>1. Kept(s, key)
    BY <1>2 DEF IInv, PinsOK
  <2> QED BY <2>1, <1>1, <1>2 DEF Kept
<1>3. mem' \in [Segments -> Metas] /\ active' \in Segments \cup {NoSegment} /\ ActiveOK'
  BY DEF IInv, OpTypes, ActiveOK
<1>4. Serving => \A t \in Segments : t # s /\ mem[t].state = "Open" => active' = t
  BY DEF IInv, ServingOK, Basic
<1>5. Opening => active' = NoSegment
  BY DEF IInv, OpeningOK
<1>6. pub.at # "idle" /\ pub.segment = s => mem'[s].state = "Pending"
  BY DEF IInv, PubOK
<1> QED BY <1>2, <1>3, <1>4, <1>5, <1>6 DEF Local, Serving, Opening

(* What the first steps have in common: nothing was stored in s yet. *)
LEMMA CreateAt ==
  ASSUME IInv, Step, NEW s \in Segments, NEW do, NEW x, Head(op.todo) = Effect(do, s, x), CreateOK(s)
  PROVE  /\ op.todo # <<>> /\ Goes /\ up /\ Head(op.todo).seg = s
         /\ disk[s] \in Files /\ FileOK(disk[s]) /\ disk \in [Segments -> Files] /\ mem \in [Segments -> Metas]
         /\ Serving /\ Writing /\ health # "failed" /\ op.kind = "append"
         /\ \A key \in Keys : ~ Needed(s, key)
         /\ mem[s].state = "None" /\ objects[s] = <<>> /\ active = NoSegment
         /\ UNCHANGED <<health, up, target, pub, objects, sent, acked, released>>
         /\ mem' = mem /\ active' = active => CreateOK(s)'
<1>1. /\ op.todo # <<>> /\ Goes /\ up /\ op.kind # "idle" /\ Head(op.todo).seg = s
      /\ disk[s] \in Files /\ FileOK(disk[s]) /\ ObjectOK(s, disk[s]) /\ objects[s] \in Seq(Captures)
      /\ disk \in [Segments -> Files] /\ mem \in [Segments -> Metas]
      /\ op.kind # "open" => Serving /\ Basic(s)
      /\ op.kind \in {"cite", "append", "pin", "tick"} => health # "failed"
  BY AtStep
<1>2. op.kind = "append" /\ mem[s].state = "None" /\ objects[s] = <<>> /\ active = NoSegment
  BY DEF CreateOK
<1>3. \A key \in Keys : ~ Needed(s, key)
  BY DEF CreateOK, Needed
<1>4. UNCHANGED <<health, up, target, pub, objects, sent, acked, released>> /\ op'.kind = op.kind
  BY <1>1 DEF Goes
<1>5. mem' = mem /\ active' = active => CreateOK(s)'
  BY <1>4 DEF CreateOK
<1> QED BY <1>1, <1>2, <1>3, <1>4, <1>5 DEF Writing

LEMMA StillRoom ==
  ASSUME DiskInv, Noted' \subseteq Noted, Cardinality(Noted) < MaxSegments
  PROVE  Cardinality(Noted') < MaxSegments
<1>1. IsFiniteSet(Noted') /\ Cardinality(Noted') <= Cardinality(Noted) /\ Cardinality(Noted') \in Nat
      /\ Cardinality(Noted) \in Nat
  BY FS_Subset, FS_CardinalityType DEF DiskInv, NotedOK
<1> QED BY <1>1, SpoolAssumptions

LEMMA BareIs ==
  ASSUME NEW e \in {"new", "kept"}, NEW m \in Metas
  PROVE  /\ Bare(e, m) \in Files /\ Bare(e, m).entry = e /\ Bare(e, m).meta = m /\ Bare(e, m).old = NoMeta
         /\ Bare(e, m).data = <<>> /\ Bare(e, m).lines = <<>>
         /\ Bare(e, m).synced = 0 /\ Bare(e, m).linesSynced = 0
  BY AbsentIs DEF Files, Bare

LEMMA CreateFiles ==
  ASSUME IInv, Step, NEW s \in Segments, op.todo = CreateSegment(s), CreateOK(s), disk[s] = Absent,
         Cardinality(Noted) < MaxSegments
  PROVE  IInv' /\ Grows
<1> DEFINE g == Bare("new", NoMeta)
<1>0. Head(op.todo) = Effect("files", s, 0) /\ Tail(op.todo) = <<Effect("sync", s, 0)>> \o Save(s, NewMeta)
  BY CreateIs
<1>1. /\ op.todo # <<>> /\ Goes /\ up /\ Head(op.todo).seg = s
      /\ disk[s] \in Files /\ FileOK(disk[s]) /\ disk \in [Segments -> Files] /\ mem \in [Segments -> Metas]
      /\ Serving /\ Writing /\ health # "failed" /\ op.kind = "append"
      /\ \A key \in Keys : ~ Needed(s, key)
      /\ mem[s].state = "None" /\ objects[s] = <<>> /\ active = NoSegment
      /\ UNCHANGED <<health, up, target, pub, objects, sent, acked, released>>
      /\ mem' = mem /\ active' = active => CreateOK(s)'
  BY <1>0, CreateAt
<1>2. disk' = [disk EXCEPT ![s] = g] /\ mem' = mem /\ active' = active
  <2>1. disk' = OnDisk(Head(op.todo)) /\ mem' = InMemory(Head(op.todo)) /\ active' = Opened(Head(op.todo))
    BY StepGoes DEF IInv
  <2>2. OnDisk(Head(op.todo)) = [disk EXCEPT ![s].entry = "new"]
        /\ InMemory(Head(op.todo)) = mem /\ Opened(Head(op.todo)) = active
    <3>1. Head(op.todo).do = "files" /\ Head(op.todo).seg = s
      BY <1>0, EffectIs
    <3> QED BY <3>1, DidFiles
  <2>3. [disk[s] EXCEPT !.entry = "new"] = g
    BY AbsentIs DEF Bare, Files
  <2> QED BY <2>1, <2>2, <2>3
<1>3. /\ op'.todo = <<Effect("sync", s, 0)>> \o Save(s, NewMeta) /\ op'.todo # <<>>
      /\ Head(op'.todo) = Effect("sync", s, 0)
  BY <1>0, <1>1, CreateIs DEF Goes
<1>4. /\ g \in Files /\ g.entry = "new" /\ g.meta = NoMeta /\ g.old = NoMeta /\ g.data = <<>> /\ g.lines = <<>>
      /\ g.synced = 0 /\ g.linesSynced = 0
  BY BareIs, NoMetaIs
<1> HIDE DEF g
<1>5. FileOK(g)
  BY <1>4, NoMetaIs DEF FileOK, Journaled, Tells, Empty, Sealed
<1>6. disk'[s] = g /\ Secure(disk[s]) = {} /\ disk[s].data = <<>>
  BY <1>1, <1>2, AbsentIs DEF Secure
<1>7. Noted' \subseteq Noted
  BY <1>1, <1>2, <1>4, NoMetaIs DEF Noted
<1>8. DiskInv'
  <2>1. Fitting(s, g)
    BY <1>1, <1>4, <1>5, <1>6, NoMetaIs DEF Fitting, ObjectOK
  <2>2. NotedOK'
    BY <1>2, <1>4, NoMetaIs, SameNoted DEF IInv
  <2>3. CapturesOK'
    BY <1>1, <1>2, <1>4, <1>6, SameCaptures DEF IInv
  <2> QED BY <1>1, <1>2, <2>1, <2>2, <2>3, OneFile DEF IInv
<1>9. Local(s)
  <2>1. Works(s)'
    BY <1>3, EffectIs DEF Works
  <2>2. Basic(s)'
    BY <1>1, <1>2 DEF Basic, Sealed
  <2>3. InFlight = {} /\ ToSet(disk'[s].data) = {}
    BY <1>0, <1>4, <1>6, EffectIs, ToSetNone DEF InFlight
  <2>4. ASSUME NEW key, Given(s, key) PROVE Given(s, key)'
    <3>1. <<s, key>> \in released
      BY <2>4, <1>0, EffectIs, AbsentIs, NoMetaIs DEF Given, Kept
    <3> QED BY <3>1, <1>1 DEF Given, Kept
  <2> QED BY <1>1, <1>2, <1>6, <2>1, <2>2, <2>3, <2>4, LocalQuiet
<1>10. AtWork'
  <2>1. Cardinality(Noted') < MaxSegments
    BY <1>7, StillRoom DEF IInv
  <2>2. Create(s)'
    BY <1>1, <1>2, <1>3, <1>6, <2>1 DEF Create, g
  <2> QED BY <2>2, <1>3, EffectIs DEF AtWork
<1>11. Others(s) /\ Grows
  BY <1>1, <1>2, <1>6, OthersOne, GrowsOne
<1> QED BY <1>1, <1>8, <1>9, <1>10, <1>11, StepFrame

LEMMA CreateSyncs ==
  ASSUME IInv, Step, NEW s \in Segments, op.todo = <<Effect("sync", s, 0)>> \o Save(s, NewMeta), CreateOK(s),
         disk[s] = Bare("new", NoMeta), Cardinality(Noted) < MaxSegments
  PROVE  IInv' /\ Grows
<1>0. Head(op.todo) = Effect("sync", s, 0) /\ Tail(op.todo) = Save(s, NewMeta)
  BY CreateIs
<1>1. /\ op.todo # <<>> /\ Goes /\ up /\ Head(op.todo).seg = s
      /\ disk[s] \in Files /\ FileOK(disk[s]) /\ disk \in [Segments -> Files] /\ mem \in [Segments -> Metas]
      /\ Serving /\ Writing /\ health # "failed" /\ op.kind = "append"
      /\ \A key \in Keys : ~ Needed(s, key)
      /\ mem[s].state = "None" /\ objects[s] = <<>> /\ active = NoSegment
      /\ UNCHANGED <<health, up, target, pub, objects, sent, acked, released>>
      /\ mem' = mem /\ active' = active => CreateOK(s)'
  BY <1>0, CreateAt
<1>2. disk' = Sync(disk) /\ mem' = mem /\ active' = active
  <2>1. disk' = OnDisk(Head(op.todo)) /\ mem' = InMemory(Head(op.todo)) /\ active' = Opened(Head(op.todo))
    BY StepGoes DEF IInv
  <2> QED BY <2>1, <1>0, EffectIs, DidSync
<1>3. op'.todo = Save(s, NewMeta) /\ op'.todo # <<>> /\ Head(op'.todo) = Effect("describe", s, NewMeta)
  <2>1. op'.todo = Save(s, NewMeta)
    BY <1>0, <1>1 DEF Goes
  <2> QED BY <2>1, SaveIs
<1>4. /\ DiskInv' /\ Others(s) /\ Grows /\ Settles(disk[s], disk'[s]) /\ disk'[s] = Synced(disk[s])
      /\ disk'[s].meta = disk[s].meta /\ disk'[s].old = disk[s].meta
  BY <1>1, <1>2, SyncStep
<1>5. disk[s].entry = "new" /\ disk[s].meta = NoMeta /\ disk[s].old = NoMeta /\ disk[s].data = <<>>
  BY BareIs, NoMetaIs
<1>6. disk'[s] = Bare("kept", NoMeta)
  <2>1. disk'[s] = [disk[s] EXCEPT !.entry = "kept", !.old = NoMeta]
    BY <1>4, <1>5 DEF Synced
  <2>2. disk[s] = [Absent EXCEPT !.entry = "new", !.meta = NoMeta]
    BY DEF Bare
  <2> QED BY <2>1, <2>2, AbsentIs DEF Bare, Files
<1>7. disk'[s].data = <<>>
  BY <1>6, BareIs, NoMetaIs
<1>8. Local(s)
  <2>1. Works(s)'
    BY <1>3, EffectIs DEF Works
  <2>2. Basic(s)'
    BY <1>1, <1>2 DEF Basic, Sealed
  <2>3. InFlight = {} /\ ToSet(disk'[s].data) = {}
    BY <1>0, <1>7, EffectIs, ToSetNone DEF InFlight
  <2>4. ASSUME NEW key, Given(s, key) PROVE Given(s, key)'
    <3>1. <<s, key>> \in released
      BY <2>4, <1>0, <1>5, EffectIs, NoMetaIs DEF Given, Kept
    <3> QED BY <3>1, <1>1 DEF Given, Kept
  <2> QED BY <1>1, <1>2, <1>4, <2>1, <2>2, <2>3, <2>4, LocalQuiet DEF Settles
<1>9. AtWork'
  <2>1. Noted' \subseteq Noted
    BY <1>1, <1>2, SyncDisk DEF Noted, IInv
  <2>2. Cardinality(Noted') < MaxSegments
    BY <2>1, StillRoom DEF IInv
  <2>3. Create(s)'
    BY <1>1, <1>2, <1>3, <1>6, <2>2 DEF Create
  <2> QED BY <2>3, <1>3, EffectIs DEF AtWork
<1> QED BY <1>1, <1>4, <1>8, <1>9, StepFrame

LEMMA CreateDescribes ==
  ASSUME IInv, Step, NEW s \in Segments, op.todo = Save(s, NewMeta), CreateOK(s),
         disk[s] = Bare("kept", NoMeta), Cardinality(Noted) < MaxSegments
  PROVE  IInv' /\ Grows
<1> DEFINE f == disk[s]
           g == [f EXCEPT !.meta = NewMeta]
<1>0. Head(op.todo) = Effect("describe", s, NewMeta) /\ Tail(op.todo) = <<Effect("remember", s, NewMeta)>>
  BY SaveIs
<1>1. /\ op.todo # <<>> /\ Goes /\ up /\ Head(op.todo).seg = s
      /\ f \in Files /\ FileOK(f) /\ disk \in [Segments -> Files] /\ mem \in [Segments -> Metas]
      /\ Serving /\ Writing /\ health # "failed" /\ op.kind = "append"
      /\ \A key \in Keys : ~ Needed(s, key)
      /\ mem[s].state = "None" /\ objects[s] = <<>> /\ active = NoSegment
      /\ UNCHANGED <<health, up, target, pub, objects, sent, acked, released>>
      /\ mem' = mem /\ active' = active => CreateOK(s)'
  BY <1>0, CreateAt
<1>2. disk' = [disk EXCEPT ![s] = g] /\ mem' = mem /\ active' = active
  <2>1. disk' = OnDisk(Head(op.todo)) /\ mem' = InMemory(Head(op.todo)) /\ active' = Opened(Head(op.todo))
    BY StepGoes DEF IInv
  <2> QED BY <2>1, <1>0, EffectIs, DidDescribe
<1>3. op'.todo = <<Effect("remember", s, NewMeta)>> /\ op'.todo # <<>>
      /\ Head(op'.todo) = Effect("remember", s, NewMeta)
  BY <1>0, <1>1, Two DEF Goes
<1>4. /\ f.meta = NoMeta /\ f.old = NoMeta /\ f.entry = "kept" /\ f.data = <<>> /\ f.lines = <<>>
  BY BareIs, NoMetaIs
<1>5. /\ g \in Files /\ FileOK(g)
      /\ g.meta = NewMeta /\ g.old = f.old /\ g.data = f.data /\ g.synced = f.synced
      /\ g.lines = f.lines /\ g.linesSynced = f.linesSynced /\ g.entry = f.entry
  <2>1. Tells(NewMeta, f)
    BY <1>4, NoMetaIs DEF Tells, Sealed
  <2> QED BY <1>1, <1>4, <2>1, NoMetaIs, DescribedOK
<1>6. disk'[s] = g /\ Secure(f) = {}
  BY <1>1, <1>2, <1>4, NoMetaIs DEF Secure
<1>7. disk'[s] = Bare("kept", NewMeta)
  <2>1. g = [Absent EXCEPT !.entry = "kept", !.meta = NewMeta]
    BY AbsentIs DEF Bare, Files
  <2> QED BY <1>6, <2>1 DEF Bare
<1> HIDE DEF f, g
<1>8. DiskInv'
  <2>1. Fitting(s, g)
    BY <1>1, <1>4, <1>5, <1>6, NoMetaIs DEF Fitting, ObjectOK, f
  <2>2. NotedOK'
    <3>1. Noted' = Noted \cup {s}
      BY <1>1, <1>2, <1>5, <1>6, NoMetaIs DEF Noted
    <3>2. IsFiniteSet(Noted) /\ Cardinality(Noted) \in Nat
      BY FS_CardinalityType DEF IInv, DiskInv, NotedOK
    <3>3. /\ IsFiniteSet(Noted \cup {s})
          /\ Cardinality(Noted \cup {s}) \in {Cardinality(Noted), Cardinality(Noted) + 1}
      BY <3>2, FS_AddElement
    <3>4. Cardinality(Noted \cup {s}) <= MaxSegments
      BY <3>2, <3>3, SpoolAssumptions
    <3> QED BY <3>1, <3>3, <3>4 DEF NotedOK
  <2>3. CapturesOK'
    BY <1>1, <1>2, <1>5, SameCaptures DEF IInv, f
  <2> QED BY <1>1, <1>2, <2>1, <2>2, <2>3, OneFile DEF IInv
<1>9. Local(s)
  <2>1. Works(s)'
    BY <1>3, EffectIs DEF Works
  <2>2. Basic(s)'
    BY <1>1, <1>2 DEF Basic, Sealed
  <2>3. InFlight = {} /\ ToSet(disk'[s].data) = {}
    BY <1>0, <1>4, <1>5, <1>6, EffectIs, ToSetNone DEF InFlight
  <2>4. ASSUME NEW key, Given(s, key) PROVE Given(s, key)'
    <3>1. <<s, key>> \in released \/ key \in NewMeta.references
      BY <2>4, <1>0, <1>4, EffectIs, NoMetaIs DEF Given, Kept, f
    <3>2. CASE <<s, key>> \in released
      BY <3>2, <1>1 DEF Given, Kept
    <3>3. CASE key \in NewMeta.references
      BY <3>3, <2>1, <1>3, EffectIs DEF Given
    <3> QED BY <3>1, <3>2, <3>3
  <2> QED BY <1>1, <1>2, <1>6, <2>1, <2>2, <2>3, <2>4, LocalQuiet DEF f
<1>10. AtWork'
  <2>1. Create(s)'
    BY <1>1, <1>2, <1>3, <1>7 DEF Create
  <2> QED BY <2>1, <1>3, EffectIs DEF AtWork
<1>11. Others(s) /\ Grows
  BY <1>1, <1>2, <1>6, OthersOne, GrowsOne DEF f
<1> QED BY <1>1, <1>8, <1>9, <1>10, <1>11, StepFrame

LEMMA CreateRemembers ==
  ASSUME IInv, Step, NEW s \in Segments, op.todo = <<Effect("remember", s, NewMeta)>>, CreateOK(s),
         disk[s] = Bare("kept", NewMeta)
  PROVE  IInv' /\ Grows
<1> DEFINE f == disk[s]
           g == disk'[s]
<1>0. Head(op.todo) = Effect("remember", s, NewMeta) /\ Tail(op.todo) = <<>>
  BY Two
<1>1. /\ op.todo # <<>> /\ Goes /\ up /\ Head(op.todo).seg = s
      /\ f \in Files /\ FileOK(f) /\ disk \in [Segments -> Files] /\ mem \in [Segments -> Metas]
      /\ Serving /\ Writing /\ health # "failed" /\ op.kind = "append"
      /\ \A key \in Keys : ~ Needed(s, key)
      /\ mem[s].state = "None" /\ objects[s] = <<>> /\ active = NoSegment
      /\ UNCHANGED <<health, up, target, pub, objects, sent, acked, released>>
  BY <1>0, CreateAt
<1>2. disk' = Sync(disk) /\ mem' = [mem EXCEPT ![s] = NewMeta] /\ active' = s
  <2>1. disk' = OnDisk(Head(op.todo)) /\ mem' = InMemory(Head(op.todo)) /\ active' = Opened(Head(op.todo))
    BY StepGoes DEF IInv
  <2>2. /\ OnDisk(Head(op.todo)) = Sync(disk)
        /\ InMemory(Head(op.todo)) = [mem EXCEPT ![s] = NewMeta]
        /\ Opened(Head(op.todo)) = IF NewMeta.state = "Open" THEN s ELSE IF s = active THEN NoSegment ELSE active
    BY <1>0, EffectIs, DidRemember
  <2> QED BY <2>1, <2>2, NoMetaIs
<1>3. op'.todo = <<>>
  BY <1>0, <1>1 DEF Goes
<1>4. /\ f.meta = NewMeta /\ f.entry = "kept" /\ f.data = <<>> /\ f.lines = <<>> /\ f.synced = 0
      /\ f.linesSynced = 0
  BY BareIs, NoMetaIs
<1>5. mem'[s] = NewMeta /\ \A t \in Segments \ {s} : mem'[t] = mem[t]
  BY <1>1, <1>2
<1>6. /\ DiskInv' /\ Others(s) /\ Grows /\ Settles(f, g) /\ g.meta = NewMeta /\ g.old = NewMeta
  BY <1>1, <1>2, <1>4, <1>5, SyncStep
<1>7. Whole(f)
  BY <1>4 DEF Whole, LastLine
<1>8. Whole(g) /\ g.data = <<>> /\ Secure(f) \subseteq Secure(g)
  BY <1>4, <1>6, <1>7 DEF Settles
<1> HIDE DEF f, g
<1>9. Local(s)
  <2>1. mem' \in [Segments -> Metas] /\ active' \in Segments \cup {NoSegment} /\ ActiveOK'
    BY <1>1, <1>2, <1>5, NoMetaIs DEF ActiveOK
  <2>2. \A t \in Segments : mem[t].state # "Open"
    BY <1>1, SpoolAssumptions DEF IInv, ServingOK, Basic
  <2>3. Basic(s)'
    BY <1>1, <1>2, <1>5, NoMetaIs DEF Basic, Sealed
  <2>4. Agree(s)'
    BY <1>5, <1>6, <1>8, NoMetaIs DEF Agree, SameRefs, g
  <2>5. pub.at # "idle" => pub.segment # s
    BY <1>1 DEF IInv, PubOK
  <2>6. InFlight = {} /\ ToSet(disk'[s].data) = {}
    BY <1>0, <1>8, EffectIs, ToSetNone DEF InFlight, g
  <2>7. ASSUME NEW key, Given(s, key) PROVE Given(s, key)'
    <3>1. <<s, key>> \in released \/ key \in NewMeta.references
      BY <2>7, <1>0, <1>4, EffectIs, NoMetaIs DEF Given, Kept, f
    <3> QED BY <3>1, <1>1, <1>5, <1>6 DEF Given, Kept, g
  <2> QED BY <1>1, <1>8, <2>1, <2>2, <2>3, <2>4, <2>5, <2>6, <2>7 DEF Local, f, g, Opening
<1>10. AtWork'
  BY <1>3 DEF AtWork
<1> QED BY <1>1, <1>6, <1>9, <1>10, StepFrame
-----------------------------------------------------------------------------
(* The steps that commit a group *)

LEMMA WriteAt ==
  ASSUME IInv, Step, NEW s \in Segments, NEW do, NEW x, Head(op.todo) = Effect(do, s, x), WriteOK(s)
  PROVE  /\ op.todo # <<>> /\ Goes /\ up /\ Head(op.todo).seg = s
         /\ disk[s] \in Files /\ FileOK(disk[s]) /\ disk \in [Segments -> Files] /\ mem \in [Segments -> Metas]
         /\ Serving /\ Writing /\ health # "failed" /\ op.kind = "append" /\ ~ Opening
         /\ s = active /\ mem[s].state = "Open" /\ objects[s] = <<>> /\ disk[s].entry = "kept"
         /\ UNCHANGED <<health, up, target, pub, objects, sent, acked, released>>
         /\ op'.kind = op.kind /\ op'.batch = op.batch /\ op'.rest = op.rest /\ op'.pins = op.pins
<1>1. /\ op.todo # <<>> /\ Goes /\ up /\ op.kind # "idle" /\ Head(op.todo).seg = s
      /\ disk[s] \in Files /\ FileOK(disk[s]) /\ ObjectOK(s, disk[s]) /\ objects[s] \in Seq(Captures)
      /\ disk \in [Segments -> Files] /\ mem \in [Segments -> Metas]
      /\ op.kind # "open" => Serving /\ Basic(s)
      /\ op.kind \in {"cite", "append", "pin", "tick"} => health # "failed"
  BY AtStep
<1>2. op.kind = "append" /\ s = active
  BY DEF WriteOK
<1>3. mem[s].state = "Open"
  BY <1>2, SpoolAssumptions DEF IInv, ActiveOK
<1>4. objects[s] = <<>>
  BY <1>1, <1>2, <1>3 DEF Basic
<1>5. disk[s].entry = "kept"
  BY <1>1 DEF WriteOK, FileOK, Tells
<1>6. UNCHANGED <<health, up, target, pub, objects, sent, acked, released>>
      /\ op'.kind = op.kind /\ op'.batch = op.batch /\ op'.rest = op.rest /\ op'.pins = op.pins
  BY <1>1 DEF Goes
<1> QED BY <1>1, <1>2, <1>3, <1>4, <1>5, <1>6 DEF Writing, Opening

(* The file is written to, and its descriptors stay. *)
LEMMA WriteQuiet ==
  ASSUME IInv, Step, NEW s \in Segments, NEW do, NEW x, Head(op.todo) = Effect(do, s, x), WriteOK(s),
         do \in {"write", "sync_data", "line"},
         NEW g \in Files, FileOK(g), disk' = [disk EXCEPT ![s] = g], mem' = mem, active' = active,
         g.meta = disk[s].meta, g.old = disk[s].old, Secure(disk[s]) \subseteq Secure(g),
         CapturesOK', Works(s)', InFlight \subseteq InFlight', ToSet(g.data) \cap ToSet(op.rest) = {}
  PROVE  DiskInv' /\ Local(s) /\ Others(s) /\ Grows /\ WriteOK(s)'
<1> DEFINE f == disk[s]
<1>1. /\ op.todo # <<>> /\ Goes /\ up /\ Head(op.todo).seg = s
      /\ f \in Files /\ FileOK(f) /\ disk \in [Segments -> Files] /\ mem \in [Segments -> Metas]
      /\ Serving /\ Writing /\ health # "failed" /\ op.kind = "append" /\ ~ Opening
      /\ s = active /\ mem[s].state = "Open" /\ objects[s] = <<>> /\ f.entry = "kept"
      /\ UNCHANGED <<health, up, target, pub, objects, sent, acked, released>>
      /\ op'.kind = op.kind /\ op'.batch = op.batch /\ op'.rest = op.rest /\ op'.pins = op.pins
  BY WriteAt
<1>2. disk'[s] = g
  BY <1>1
<1>3. f.meta.state = "Open" /\ f.old.state = "Open"
  BY DEF WriteOK
<1> HIDE DEF f
<1>4. DiskInv'
  <2>1. Fitting(s, g)
    BY <1>1, <1>3 DEF Fitting, ObjectOK, f
  <2>2. s \in Noted
    BY <1>3 DEF Noted, f
  <2>3. NotedOK'
    BY <2>2, SameNoted DEF IInv
  <2> QED BY <1>1, <2>1, <2>3, OneFile DEF IInv
<1>5. Local(s)
  <2>1. ASSUME NEW key, Kept(s, key) PROVE Kept(s, key)'
    BY <1>1, <1>2, <2>1 DEF Kept
  <2>2. ASSUME NEW key, Given(s, key) PROVE Given(s, key)'
    <3>1. Kept(s, key)
      BY <2>2, EffectIs DEF Given
    <3> QED BY <3>1, <2>1 DEF Given
  <2>3. \A key \in Keys : Needed(s, key) =>
            \/ <<s, key>> \in released
            \/ key \in disk'[s].meta.references /\ key \in disk'[s].old.references
    BY <1>2 DEF IInv, PinsOK, Kept
  <2>4. Basic(s)'
    BY <1>1 DEF Basic, Sealed
  <2> QED BY <1>1, <1>2, <2>2, <2>3, <2>4, LocalQuiet
<1>6. WriteOK(s)'
  BY <1>1, <1>2 DEF WriteOK, SameRefs
<1>7. Others(s) /\ Grows
  BY <1>1, OthersOne, GrowsOne DEF f
<1> QED BY <1>4, <1>5, <1>6, <1>7

LEMMA WriteWrites ==
  ASSUME IInv, Step, NEW s \in Segments, NEW cs, op.todo = Commit(s, cs), WriteOK(s),
         cs \in Seq(Captures), cs # <<>>,
         ToSet(cs) \subseteq ToSet(op.batch), ToSet(cs) \cap ToSet(op.rest) = {},
         \A t \in Segments : ToSet(disk[t].data) \cap ToSet(cs) = {}
  PROVE  IInv' /\ Grows
<1> DEFINE f == disk[s]
           g == [f EXCEPT !.data = f.data \o cs]
           todo == <<Effect("sync_data", s, 0), Effect("line", s, 0), Effect("count", s, 0)>>
<1>0. Head(op.todo) = Effect("write", s, cs) /\ Tail(op.todo) = todo
  BY CommitIs
<1>1. /\ op.todo # <<>> /\ Goes /\ up /\ Head(op.todo).seg = s
      /\ f \in Files /\ FileOK(f) /\ disk \in [Segments -> Files] /\ mem \in [Segments -> Metas]
      /\ Serving /\ Writing /\ health # "failed" /\ op.kind = "append" /\ ~ Opening
      /\ s = active /\ mem[s].state = "Open" /\ objects[s] = <<>> /\ f.entry = "kept"
      /\ UNCHANGED <<health, up, target, pub, objects, sent, acked, released>>
      /\ op'.kind = op.kind /\ op'.batch = op.batch /\ op'.rest = op.rest /\ op'.pins = op.pins
  BY <1>0, WriteAt
<1>2. disk' = [disk EXCEPT ![s] = g] /\ mem' = mem /\ active' = active
  <2>1. disk' = OnDisk(Head(op.todo)) /\ mem' = InMemory(Head(op.todo)) /\ active' = Opened(Head(op.todo))
    BY StepGoes DEF IInv
  <2>2. Head(op.todo).do = "write" /\ Head(op.todo).seg = s /\ Head(op.todo).arg = cs
    BY <1>0, EffectIs
  <2> QED BY <2>1, <2>2, DidWrite
<1>3. op'.todo = todo /\ op'.todo # <<>> /\ Head(op'.todo) = Effect("sync_data", s, 0)
  <2>1. op'.todo = todo
    BY <1>0, <1>1 DEF Goes
  <2> QED BY <2>1
<1> HIDE DEF todo
<1>4. f.data \in Seq(Captures) /\ f.lines \in Seq(Nat) /\ f.synced \in Nat /\ f.linesSynced \in Nat
      /\ f.meta \in Metas /\ f.old \in Metas
  BY <1>1 DEF Files
<1>5. /\ g.data = f.data \o cs /\ g.synced = f.synced /\ g.lines = f.lines /\ g.linesSynced = f.linesSynced
      /\ g.entry = f.entry /\ g.meta = f.meta /\ g.old = f.old
  BY <1>1 DEF Files
<1>6. /\ f.data \o cs \in Seq(Captures) /\ Len(f.data \o cs) = Len(f.data) + Len(cs)
      /\ \A i \in 1 .. Len(f.data) : (f.data \o cs)[i] = f.data[i]
      /\ Len(cs) \in Nat /\ Len(cs) > 0 /\ Len(f.data) \in Nat
  BY <1>4
<1>7. g \in Files
  BY <1>1, <1>6 DEF Files
<1> HIDE DEF f, g
<1>8. FileOK(g)
  <2>1. Journaled(g)
    BY <1>1, <1>4, <1>5, <1>6 DEF FileOK, Journaled
  <2>2. f.meta.state = "Open" /\ f.old.state = "Open"
    BY DEF WriteOK, f
  <2>3. Tells(g.meta, g) /\ Tells(g.old, g)
    BY <1>1, <1>5, <2>2 DEF Tells, Sealed
  <2> QED BY <1>1, <1>5, <2>1, <2>3 DEF FileOK
<1>9. Secure(f) \subseteq Secure(g)
  <2>1. f.synced <= Len(f.data)
    BY <1>1 DEF FileOK, Journaled
  <2>2. \A i \in 1 .. f.synced : i <= Len(g.data) /\ g.data[i] = f.data[i]
    BY <1>4, <1>5, <1>6, <2>1
  <2>3. Prolongs(f, g)
    BY <1>1, <1>4, <1>5, <2>2 DEF Prolongs
  <2> QED BY <1>1, <1>7, <1>8, <2>3, SecureGrows
<1>10. disk'[s] = g /\ ToSet(g.data) = ToSet(f.data) \cup ToSet(cs)
  BY <1>1, <1>2, <1>4, <1>5, ToSetJoin
<1>11. \A t \in Segments : t # s => disk'[t] = disk[t]
  BY <1>2
<1>12. CapturesOK'
  <2>1. ToSet(op.batch) \subseteq sent
    BY <1>1 DEF IInv, BatchOK
  <2>2. CapturesOK
    BY DEF IInv, DiskInv
  <2>3. \A t \in Segments : ToSet(disk'[t].data) \subseteq sent'
    BY <1>1, <1>10, <1>11, <2>1, <2>2 DEF CapturesOK, f
  <2>4. ASSUME NEW t \in Segments, NEW r \in Segments, t # r
        PROVE  ToSet(disk'[t].data) \cap ToSet(disk'[r].data) = {}
    BY <1>10, <1>11, <2>2, <2>4 DEF CapturesOK, f
  <2> QED BY <2>3, <2>4 DEF CapturesOK
<1>13. InFlight = ToSet(cs) /\ InFlight' = ToSet(g.data)
  <2>1. InFlight = ToSet(cs)
    BY <1>0, <1>1, EffectIs DEF InFlight
  <2>2. Head(op'.todo).do = "sync_data" /\ Head(op'.todo).seg = s
    BY <1>3, EffectIs
  <2>3. InFlight' = ToSet(disk'[s].data)
    BY <1>3, <2>2 DEF InFlight
  <2> QED BY <2>1, <2>3, <1>10
<1>14. ToSet(g.data) \cap ToSet(op.rest) = {}
  <2>1. ToSet(f.data) \cap ToSet(op.rest) = {}
    BY <1>1 DEF IInv, BatchOK, f
  <2> QED BY <1>10, <2>1
<1>15. Works(s)'
  BY <1>3, EffectIs DEF Works
<1>16. DiskInv' /\ Local(s) /\ Others(s) /\ Grows /\ WriteOK(s)'
  BY <1>0, <1>2, <1>5, <1>7, <1>8, <1>9, <1>10, <1>12, <1>13, <1>14, <1>15, WriteQuiet DEF f
<1>17. AtWork'
  <2>1. g.data # <<>>
    BY <1>5, <1>6
  <2>2. Write(s, 0)'
    BY <1>3, <1>10, <1>16, <2>1 DEF Write, todo
  <2> QED BY <2>2, <1>3, EffectIs DEF AtWork
<1> QED BY <1>1, <1>16, <1>17, StepFrame

LEMMA WriteSyncs ==
  ASSUME IInv, Step, NEW s \in Segments, WriteOK(s), disk[s].data # <<>>,
         op.todo = <<Effect("sync_data", s, 0), Effect("line", s, 0), Effect("count", s, 0)>>
  PROVE  IInv' /\ Grows
<1> DEFINE f == disk[s]
           g == [f EXCEPT !.synced = Len(f.data)]
           todo == <<Effect("line", s, 0), Effect("count", s, 0)>>
<1>0. Head(op.todo) = Effect("sync_data", s, 0) /\ Tail(op.todo) = todo
  OBVIOUS
<1>1. /\ op.todo # <<>> /\ Goes /\ up /\ Head(op.todo).seg = s
      /\ f \in Files /\ FileOK(f) /\ disk \in [Segments -> Files] /\ mem \in [Segments -> Metas]
      /\ Serving /\ Writing /\ health # "failed" /\ op.kind = "append" /\ ~ Opening
      /\ s = active /\ mem[s].state = "Open" /\ objects[s] = <<>> /\ f.entry = "kept"
      /\ UNCHANGED <<health, up, target, pub, objects, sent, acked, released>>
      /\ op'.kind = op.kind /\ op'.batch = op.batch /\ op'.rest = op.rest /\ op'.pins = op.pins
  BY <1>0, WriteAt
<1>2. disk' = [disk EXCEPT ![s] = g] /\ mem' = mem /\ active' = active
  <2>1. disk' = OnDisk(Head(op.todo)) /\ mem' = InMemory(Head(op.todo)) /\ active' = Opened(Head(op.todo))
    BY StepGoes DEF IInv
  <2>2. Head(op.todo).do = "sync_data" /\ Head(op.todo).seg = s
    BY <1>0, EffectIs
  <2> QED BY <2>1, <2>2, DidSyncData
<1>3. op'.todo = todo /\ op'.todo # <<>> /\ Head(op'.todo) = Effect("line", s, 0)
  <2>1. op'.todo = todo
    BY <1>0, <1>1 DEF Goes
  <2> QED BY <2>1
<1> HIDE DEF todo
<1>4. /\ f.data \in Seq(Captures) /\ Len(f.data) \in Nat /\ f.synced \in Nat /\ f.synced <= Len(f.data)
      /\ f.linesSynced \in Nat /\ f.lines \in Seq(Nat) /\ f.linesSynced <= Len(f.lines)
  BY <1>1 DEF Files, FileOK, Journaled
<1>5. /\ g.data = f.data /\ g.synced = Len(f.data) /\ g.lines = f.lines /\ g.linesSynced = f.linesSynced
      /\ g.entry = f.entry /\ g.meta = f.meta /\ g.old = f.old
  BY <1>1 DEF Files
<1>6. g \in Files
  BY <1>1, <1>4 DEF Files
<1> HIDE DEF f, g
<1>7. FileOK(g)
  <2>1. Journaled(g)
    BY <1>1, <1>4, <1>5 DEF FileOK, Journaled
  <2>2. f.meta.state = "Open" /\ f.old.state = "Open"
    BY DEF WriteOK, f
  <2>3. Tells(g.meta, g) /\ Tells(g.old, g)
    BY <1>1, <1>5, <2>2 DEF Tells, Sealed
  <2> QED BY <1>1, <1>5, <2>1, <2>3 DEF FileOK
<1>8. Secure(f) \subseteq Secure(g)
  <2>1. Prolongs(f, g)
    BY <1>1, <1>4, <1>5 DEF Prolongs
  <2> QED BY <1>1, <1>6, <1>7, <2>1, SecureGrows
<1>9. disk'[s] = g
  BY <1>1, <1>2
<1>10. CapturesOK'
  BY <1>1, <1>2, <1>5, SameCaptures DEF IInv, f
<1>11. InFlight = ToSet(f.data) /\ InFlight' = ToSet(g.data)
  <2>1. Head(op.todo).do = "sync_data" /\ Head(op.todo).seg = s
    BY <1>0, EffectIs
  <2>2. Head(op'.todo).do = "line" /\ Head(op'.todo).seg = s
    BY <1>3, EffectIs
  <2> QED BY <1>1, <1>3, <1>9, <2>1, <2>2 DEF InFlight, f
<1>12. ToSet(g.data) \cap ToSet(op.rest) = {}
  BY <1>1, <1>5 DEF IInv, BatchOK, f
<1>13. Works(s)'
  BY <1>3, EffectIs DEF Works
<1>14. DiskInv' /\ Local(s) /\ Others(s) /\ Grows /\ WriteOK(s)'
  BY <1>0, <1>2, <1>5, <1>6, <1>7, <1>8, <1>10, <1>11, <1>12, <1>13, WriteQuiet DEF f
<1>15. AtWork'
  <2>1. Write(s, 0)'
    BY <1>3, <1>5, <1>9, <1>14 DEF Write, todo, f
  <2> QED BY <2>1, <1>3, EffectIs DEF AtWork
<1> QED BY <1>1, <1>14, <1>15, StepFrame

LEMMA WriteLines ==
  ASSUME IInv, Step, NEW s \in Segments, WriteOK(s), disk[s].data # <<>>,
         disk[s].synced = Len(disk[s].data),
         op.todo = <<Effect("line", s, 0), Effect("count", s, 0)>>
  PROVE  IInv' /\ Grows
<1> DEFINE f == disk[s]
           n == Len(f.data)
           g == [f EXCEPT !.lines = Append(f.lines, n)]
           todo == <<Effect("count", s, 0)>>
<1>0. Head(op.todo) = Effect("line", s, 0) /\ Tail(op.todo) = todo
  BY Two
<1>1. /\ op.todo # <<>> /\ Goes /\ up /\ Head(op.todo).seg = s
      /\ f \in Files /\ FileOK(f) /\ disk \in [Segments -> Files] /\ mem \in [Segments -> Metas]
      /\ Serving /\ Writing /\ health # "failed" /\ op.kind = "append" /\ ~ Opening
      /\ s = active /\ mem[s].state = "Open" /\ objects[s] = <<>> /\ f.entry = "kept"
      /\ UNCHANGED <<health, up, target, pub, objects, sent, acked, released>>
      /\ op'.kind = op.kind /\ op'.batch = op.batch /\ op'.rest = op.rest /\ op'.pins = op.pins
  BY <1>0, WriteAt
<1>2. disk' = [disk EXCEPT ![s] = g] /\ mem' = mem /\ active' = active
  <2>1. disk' = OnDisk(Head(op.todo)) /\ mem' = InMemory(Head(op.todo)) /\ active' = Opened(Head(op.todo))
    BY StepGoes DEF IInv
  <2>2. Head(op.todo).do = "line" /\ Head(op.todo).seg = s
    BY <1>0, EffectIs
  <2> QED BY <2>1, <2>2, DidLine
<1>3. op'.todo = todo /\ op'.todo # <<>> /\ Head(op'.todo) = Effect("count", s, 0)
  <2>1. op'.todo = todo
    BY <1>0, <1>1 DEF Goes
  <2> QED BY <2>1, Two
<1> HIDE DEF todo
<1>4. /\ f.data \in Seq(Captures) /\ n \in Nat /\ n > 0 /\ f.synced = n
      /\ f.linesSynced \in Nat /\ f.lines \in Seq(Nat) /\ f.linesSynced <= Len(f.lines) /\ Len(f.lines) \in Nat
  <2>1. f.data \in Seq(Captures) /\ f.data # <<>>
    BY <1>1 DEF Files
  <2> QED BY <2>1, <1>1 DEF Files, FileOK, Journaled
<1>5. /\ g.data = f.data /\ g.synced = f.synced /\ g.lines = Append(f.lines, n) /\ g.linesSynced = f.linesSynced
      /\ g.entry = f.entry /\ g.meta = f.meta /\ g.old = f.old
  BY <1>1 DEF Files
<1>6. /\ Append(f.lines, n) \in Seq(Nat) /\ Len(Append(f.lines, n)) = Len(f.lines) + 1
      /\ \A i \in 1 .. Len(f.lines) : Append(f.lines, n)[i] = f.lines[i]
      /\ Append(f.lines, n)[Len(f.lines) + 1] = n
  BY <1>4
<1>7. g \in Files
  BY <1>1, <1>6 DEF Files
<1>8. disk[s].data = f.data /\ Len(f.data) = n
  OBVIOUS
<1> HIDE DEF f, g, n
<1>9. FileOK(g)
  <2>1. Journaled(g)
    <3>1. \A i \in 1 .. Len(f.lines) : f.lines[i] \in Nat /\ 0 < f.lines[i] /\ f.lines[i] <= n
      BY <1>1, <1>4 DEF FileOK, Journaled
    <3>2. \A i, j \in 1 .. Len(f.lines) : i <= j => f.lines[i] <= f.lines[j]
      BY <1>1 DEF FileOK, Journaled
    <3>3. \A i \in 1 .. Len(g.lines) : 0 < g.lines[i] /\ g.lines[i] <= g.synced
      <4>1. TAKE i \in 1 .. Len(g.lines)
      <4>2. CASE i = Len(f.lines) + 1
        BY <4>2, <1>4, <1>5, <1>6
      <4>3. CASE i # Len(f.lines) + 1
        <5>1. i \in 1 .. Len(f.lines)
          BY <4>3, <1>4, <1>5, <1>6
        <5> QED BY <5>1, <3>1, <1>4, <1>5, <1>6
      <4> QED BY <4>2, <4>3
    <3>4. ASSUME NEW i \in 1 .. Len(g.lines), NEW j \in 1 .. Len(g.lines), i <= j
          PROVE  g.lines[i] <= g.lines[j]
      <4>2. CASE j = Len(f.lines) + 1
        BY <4>2, <3>3, <1>4, <1>5, <1>6
      <4>3. CASE j # Len(f.lines) + 1
        <5>1. i \in 1 .. Len(f.lines) /\ j \in 1 .. Len(f.lines)
          BY <3>4, <4>3, <1>4, <1>5, <1>6
        <5> QED BY <5>1, <3>2, <3>4, <1>5, <1>6
      <4> QED BY <4>2, <4>3
    <3>5. g.synced <= Len(g.data) /\ g.linesSynced <= Len(g.lines)
      BY <1>4, <1>5, <1>6, <1>8
    <3> QED BY <3>3, <3>4, <3>5 DEF Journaled
  <2>2. f.meta.state = "Open" /\ f.old.state = "Open"
    BY DEF WriteOK, f
  <2>3. Tells(g.meta, g) /\ Tells(g.old, g)
    BY <1>1, <1>5, <2>2 DEF Tells, Sealed
  <2> QED BY <1>1, <1>5, <2>1, <2>3 DEF FileOK
<1>10. Secure(f) \subseteq Secure(g)
  <2>1. Prolongs(f, g)
    BY <1>1, <1>4, <1>5, <1>6, <1>8 DEF Prolongs
  <2> QED BY <1>1, <1>7, <1>9, <2>1, SecureGrows
<1>11. disk'[s] = g
  BY <1>1, <1>2
<1>12. CapturesOK'
  BY <1>1, <1>2, <1>5, SameCaptures DEF IInv, f
<1>13. InFlight = ToSet(f.data) /\ InFlight' = ToSet(g.data)
  <2>1. Head(op.todo).do = "line" /\ Head(op.todo).seg = s
    BY <1>0, EffectIs
  <2>2. Head(op'.todo).do = "count" /\ Head(op'.todo).seg = s
    BY <1>3, EffectIs
  <2> QED BY <1>1, <1>3, <1>11, <2>1, <2>2 DEF InFlight, f
<1>14. ToSet(g.data) \cap ToSet(op.rest) = {}
  BY <1>1, <1>5 DEF IInv, BatchOK, f
<1>15. Works(s)'
  BY <1>3, EffectIs DEF Works
<1>16. DiskInv' /\ Local(s) /\ Others(s) /\ Grows /\ WriteOK(s)'
  BY <1>0, <1>2, <1>5, <1>7, <1>9, <1>10, <1>12, <1>13, <1>14, <1>15, WriteQuiet DEF f
<1>17. AtWork'
  <2>1. g.lines # <<>> /\ LastLine(g) = Len(g.data)
    BY <1>4, <1>5, <1>6, <1>8 DEF LastLine, Last
  <2>2. g.synced = Len(g.data) /\ g.data # <<>>
    BY <1>4, <1>5, <1>8
  <2>3. Write(s, 0)'
    BY <1>3, <1>11, <1>16, <2>1, <2>2 DEF Write, todo
  <2> QED BY <2>3, <1>3, EffectIs DEF AtWork
<1> QED BY <1>1, <1>16, <1>17, StepFrame

LEMMA WriteCounts ==
  ASSUME IInv, Step, NEW s \in Segments, WriteOK(s), disk[s].data # <<>>,
         disk[s].synced = Len(disk[s].data), disk[s].lines # <<>>, LastLine(disk[s]) = Len(disk[s].data),
         op.todo = <<Effect("count", s, 0)>>
  PROVE  IInv' /\ Grows
<1> DEFINE f == disk[s]
           g == [f EXCEPT !.linesSynced = Len(f.lines)]
           m == [mem[s] EXCEPT !.records = Len(f.data)]
<1>0. Head(op.todo) = Effect("count", s, 0) /\ Tail(op.todo) = <<>>
  BY Two
<1>1. /\ op.todo # <<>> /\ Goes /\ up /\ Head(op.todo).seg = s
      /\ f \in Files /\ FileOK(f) /\ disk \in [Segments -> Files] /\ mem \in [Segments -> Metas]
      /\ Serving /\ Writing /\ health # "failed" /\ op.kind = "append" /\ ~ Opening
      /\ s = active /\ mem[s].state = "Open" /\ objects[s] = <<>> /\ f.entry = "kept"
      /\ UNCHANGED <<health, up, target, pub, objects, sent, acked, released>>
      /\ op'.kind = op.kind /\ op'.batch = op.batch /\ op'.rest = op.rest /\ op'.pins = op.pins
  BY <1>0, WriteAt
<1>2. disk' = [disk EXCEPT ![s] = g] /\ mem' = [mem EXCEPT ![s] = m] /\ active' = active
  <2>1. disk' = OnDisk(Head(op.todo)) /\ mem' = InMemory(Head(op.todo)) /\ active' = Opened(Head(op.todo))
    BY StepGoes DEF IInv
  <2>2. Head(op.todo).do = "count" /\ Head(op.todo).seg = s
    BY <1>0, EffectIs
  <2> QED BY <2>1, <2>2, DidCount
<1>3. op'.todo = <<>>
  BY <1>0, <1>1 DEF Goes
<1>4. /\ f.data \in Seq(Captures) /\ Len(f.data) \in Nat /\ f.synced = Len(f.data)
      /\ f.linesSynced \in Nat /\ f.lines \in Seq(Nat) /\ f.linesSynced <= Len(f.lines) /\ Len(f.lines) \in Nat
  BY <1>1 DEF Files, FileOK, Journaled
<1>5. /\ g.data = f.data /\ g.synced = f.synced /\ g.lines = f.lines /\ g.linesSynced = Len(f.lines)
      /\ g.entry = f.entry /\ g.meta = f.meta /\ g.old = f.old
  BY <1>1 DEF Files
<1>6. g \in Files
  BY <1>1, <1>4 DEF Files
<1>7. /\ mem[s] \in Metas /\ m \in Metas /\ m.state = mem[s].state /\ m.references = mem[s].references
      /\ m.records = Len(f.data)
  <2>1. mem[s] \in Metas
    BY <1>1
  <2> QED BY <2>1, <1>4 DEF Metas
<1>8. disk'[s] = g /\ mem'[s] = m /\ \A t \in Segments \ {s} : mem'[t] = mem[t]
  BY <1>1, <1>2
<1>9. f.meta.state = "Open" /\ f.old.state = "Open" /\ SameRefs(s)
  BY DEF WriteOK
<1>10. mem'[s].state = "Open" /\ mem'[s].records = Len(f.data)
  BY <1>1, <1>7, <1>8
<1> HIDE DEF f, g, m
<1>11. LastLine(g) = Len(f.data)
  BY <1>5 DEF LastLine, f
<1>12. Whole(g)
  BY <1>1, <1>4, <1>5, <1>11 DEF Whole
<1>13. FileOK(g)
  <2>1. Journaled(g)
    BY <1>1, <1>4, <1>5 DEF FileOK, Journaled
  <2>3. Tells(g.meta, g) /\ Tells(g.old, g)
    BY <1>1, <1>5, <1>9 DEF Tells, Sealed
  <2> QED BY <1>1, <1>5, <2>1, <2>3 DEF FileOK
<1>14. Secure(g) = ToSet(f.data)
  BY <1>5, <1>6, <1>9, <1>12, <1>13, WholeSecure DEF Live
<1>15. Secure(f) \subseteq Secure(g)
  BY <1>1, <1>14, SecureIn
<1>16. DiskInv'
  <2>1. Fitting(s, g)
    BY <1>1, <1>5, <1>6, <1>9, <1>13, <1>15 DEF Fitting, ObjectOK, f
  <2>2. s \in Noted
    BY <1>9 DEF Noted, f
  <2>3. NotedOK'
    BY <1>2, <2>2, SameNoted DEF IInv
  <2>4. CapturesOK'
    BY <1>1, <1>2, <1>5, SameCaptures DEF IInv, f
  <2> QED BY <1>1, <1>2, <2>1, <2>3, <2>4, OneFile DEF IInv
<1>17. Local(s)
  <2>1. ASSUME NEW key, Kept(s, key) PROVE Kept(s, key)'
    BY <1>1, <1>5, <1>7, <1>8, <2>1 DEF Kept, f
  <2>2. ASSUME NEW key, Given(s, key) PROVE Given(s, key)'
    <3>1. Kept(s, key)
      BY <2>2, <1>0, EffectIs DEF Given
    <3> QED BY <3>1, <2>1 DEF Given
  <2>3. \A key \in Keys : Needed(s, key) => Kept(s, key)'
    BY <2>1 DEF IInv, PinsOK
  <2>4. mem' \in [Segments -> Metas] /\ active' \in Segments \cup {NoSegment} /\ ActiveOK'
    BY <1>1, <1>2, <1>7, <1>10 DEF ActiveOK
  <2>5. \A t \in Segments : t # s /\ mem[t].state = "Open" => active' = t
    BY <1>1, <1>2 DEF IInv, ServingOK, Basic
  <2>6. Basic(s)'
    BY <1>1, <1>2, <1>10 DEF Basic, Sealed
  <2>7. Agree(s)'
    BY <1>5, <1>7, <1>8, <1>9, <1>10, <1>12 DEF Agree, SameRefs, f
  <2>8. pub.at # "idle" => pub.segment # s
    BY <1>1 DEF IInv, PubOK
  <2>9. InFlight = ToSet(f.data)
    BY <1>0, <1>1, EffectIs DEF InFlight, f
  <2>10. ToSet(g.data) \cap ToSet(op.rest) = {}
    BY <1>1, <1>5 DEF IInv, BatchOK, f
  <2> QED BY <1>1, <1>8, <1>14, <1>15, <2>2, <2>3, <2>4, <2>5, <2>6, <2>7, <2>8, <2>9, <2>10 DEF Local, f
<1>18. AtWork'
  BY <1>3 DEF AtWork
<1>19. Others(s) /\ Grows
  BY <1>1, <1>2, <1>8, <1>15, OthersOne, GrowsOne DEF f
<1> QED BY <1>1, <1>16, <1>17, <1>18, <1>19, StepFrame
-----------------------------------------------------------------------------
(* The steps that delete a segment *)

(* The only step that gives up what was secure. *)
Drops ==
  \E s \in Segments :
    /\ Secure(disk[s]) \subseteq ToSet(objects[s]) /\ Secure(disk'[s]) = {}
    /\ \A t \in Segments \ {s} : Secure(disk'[t]) = Secure(disk[t])

LEMMA SalvageAt ==
  ASSUME IInv, Step, NEW s \in Segments, NEW do, NEW x, Head(op.todo) = Effect(do, s, x),
         op.kind \in {"tick", "open"}
  PROVE  /\ op.todo # <<>> /\ Goes /\ up /\ Head(op.todo).seg = s /\ op.todo # First
         /\ disk[s] \in Files /\ FileOK(disk[s]) /\ ObjectOK(s, disk[s]) /\ objects[s] \in Seq(Captures)
         /\ disk \in [Segments -> Files] /\ mem \in [Segments -> Metas]
         /\ op.kind = "tick" => Serving /\ Basic(s) /\ health # "failed" /\ ~ Opening
         /\ op.kind = "open" => Opening /\ ~ Serving /\ active = NoSegment /\ pub = NoUpload
         /\ ~ Writing /\ op.kind # "pin"
         /\ UNCHANGED <<health, up, target, pub, objects, sent, acked, released>>
         /\ op'.kind = op.kind
         /\ Loose(s) => Loose(s)'
<1>1. /\ op.todo # <<>> /\ Goes /\ up /\ op.kind # "idle" /\ Head(op.todo).seg = s
      /\ disk[s] \in Files /\ FileOK(disk[s]) /\ ObjectOK(s, disk[s]) /\ objects[s] \in Seq(Captures)
      /\ disk \in [Segments -> Files] /\ mem \in [Segments -> Metas]
      /\ op.kind # "open" => Serving /\ Basic(s)
      /\ op.kind \in {"cite", "append", "pin", "tick"} => health # "failed"
  BY AtStep
<1>2. op.todo # First
  <2>1. Head(First) = Effect("sync", NoSegment, 0)
    BY Two DEF First
  <2>2. Head(First).seg = NoSegment
    BY <2>1, EffectIs
  <2> QED BY <1>1, <2>2, SpoolAssumptions
<1>3. UNCHANGED <<health, up, target, pub, objects, sent, acked, released>> /\ op'.kind = op.kind
  BY <1>1 DEF Goes
<1>4. Loose(s) => Loose(s)'
  BY <1>3 DEF Loose, Needed
<1>5. op.kind = "open" => Opening /\ ~ Serving /\ active = NoSegment /\ pub = NoUpload
  BY <1>1 DEF IInv, Opening, Serving, OpeningOK
<1>6. ~ Writing /\ op.kind # "pin" /\ (op.kind = "tick" => ~ Opening)
  BY DEF Writing, Opening
<1> QED BY <1>1, <1>2, <1>3, <1>4, <1>5, <1>6

LEMMA SalvageDisk ==
  ASSUME IInv, Goes, NEW s \in Segments, NEW g \in Files, FileOK(g), ObjectOK(s, g),
         disk' = [disk EXCEPT ![s] = g], ToSet(g.data) \subseteq ToSet(disk[s].data),
         s \in Noted \/ (g.meta.state = "None" /\ g.old.state = "None"),
         Secure(disk[s]) \subseteq Secure(g) \cup ToSet(objects[s])
  PROVE  DiskInv'
<1>1. UNCHANGED <<objects, sent, acked, released>> /\ DiskInv
  BY DEF Goes, IInv
<1>2. Fitting(s, g)
  BY DEF Fitting
<1>3. NotedOK'
  BY <1>1, SameNoted
<1>4. CapturesOK'
  BY <1>1, SameCaptures
<1> QED BY <1>1, <1>2, <1>3, <1>4, OneFile

LEMMA SalvageQuiet ==
  ASSUME IInv, Step, NEW s \in Segments, NEW do, NEW x, Head(op.todo) = Effect(do, s, x),
         op.kind \in {"tick", "open"}, mem' = mem, active' = active, Works(s)',
         \A key \in Keys : Needed(s, key) =>
            \/ <<s, key>> \in released
            \/ key \in disk'[s].meta.references /\ key \in disk'[s].old.references,
         op.kind = "tick" => Basic(s)'
  PROVE  Local(s)
<1>1. /\ Goes /\ up /\ op.todo # First /\ ~ Writing /\ op.kind # "pin"
  BY SalvageAt
<1> QED BY <1>1, LocalQuiet

(* A descriptor that says that the segment is deleted makes it not secure. *)
LEMMA DeletingIs ==
  ASSUME NEW f, f.meta.state \in {"None", "Deleting"} \/ f.old.state \in {"None", "Deleting"}
  PROVE  Secure(f) = {}
  BY DEF Secure

LEMMA EraseDescribes ==
  ASSUME IInv, Step, NEW s \in Segments, NEW m, op.todo = Save(s, m) \o DeleteFiles(s), EraseOK(s),
         Condemned(s, m), Agree(s)
  PROVE  IInv' /\ Drops
<1> DEFINE f == disk[s]
           g == [f EXCEPT !.meta = m]
           todo == <<Effect("remember", s, m)>> \o DeleteFiles(s)
<1>0. Head(op.todo) = Effect("describe", s, m) /\ Tail(op.todo) = todo
  BY CollectIs
<1>k. op.kind = "tick" /\ Loose(s) /\ m.state = "Deleting" /\ m.references = {} /\ m \in Metas
      /\ mem[s].state = "Published" /\ mem[s].references = {}
  BY DEF Condemned, EraseOK
<1>1. /\ op.todo # <<>> /\ Goes /\ up /\ Head(op.todo).seg = s
      /\ f \in Files /\ FileOK(f) /\ ObjectOK(s, f) /\ objects[s] \in Seq(Captures)
      /\ disk \in [Segments -> Files] /\ mem \in [Segments -> Metas]
      /\ Serving /\ Basic(s) /\ health # "failed" /\ ~ Opening
      /\ UNCHANGED <<health, up, target, pub, objects, sent, acked, released>>
      /\ op'.kind = op.kind /\ Loose(s)'
  BY <1>0, <1>k, SalvageAt
<1>2. disk' = [disk EXCEPT ![s] = g] /\ mem' = mem /\ active' = active
  <2>1. disk' = OnDisk(Head(op.todo)) /\ mem' = InMemory(Head(op.todo)) /\ active' = Opened(Head(op.todo))
    BY StepGoes DEF IInv
  <2> QED BY <2>1, <1>0, EffectIs, DidDescribe
<1>3. op'.todo = todo /\ op'.todo # <<>> /\ Head(op'.todo) = Effect("remember", s, m)
  <2>1. op'.todo = todo
    BY <1>0, <1>1 DEF Goes
  <2> QED BY <2>1, CollectIs
<1> HIDE DEF todo
<1>4. /\ Whole(f) /\ mem[s].records = Len(f.data) /\ objects[s] # <<>>
      /\ f.meta.state \in Sealed /\ f.old.state \in Sealed
  BY <1>1, <1>k DEF Basic, Sealed, Agree
<1>5. /\ g \in Files /\ FileOK(g)
      /\ g.meta = m /\ g.old = f.old /\ g.data = f.data /\ g.synced = f.synced
      /\ g.lines = f.lines /\ g.linesSynced = f.linesSynced /\ g.entry = f.entry
  <2>1. Tells(m, f) /\ f.entry # "new"
    BY <1>4, <1>k DEF Tells, Sealed, Whole
  <2> QED BY <1>1, <1>k, <2>1, DescribedOK
<1>6. f.data = objects[s] /\ f.entry = "kept"
  BY <1>1, <1>4 DEF ObjectOK, Whole
<1> HIDE DEF f, g
<1>7. ObjectOK(s, g)
  BY <1>1, <1>4, <1>5, <1>6, <1>k DEF ObjectOK, Sealed
<1>8. Secure(f) \subseteq ToSet(objects[s])
  BY <1>1, <1>6, SecureIn
<1>9. DiskInv'
  <2>1. s \in Noted
    BY <1>4 DEF Noted, Sealed, f
  <2> QED BY <1>1, <1>2, <1>5, <1>7, <1>8, <2>1, SalvageDisk DEF f
<1>10. disk'[s] = g /\ \A t \in Segments \ {s} : disk'[t] = disk[t]
  BY <1>1, <1>2
<1>11. Whole(g)
  BY <1>4, <1>5 DEF Whole, LastLine
<1>12. Works(s)'
  BY <1>3, EffectIs DEF Works
<1>13. Local(s)
  <2>1. Basic(s)'
    BY <1>1, <1>2, <1>4, <1>5, <1>10, <1>11, <1>k DEF Basic
  <2>2. \A key \in Keys : Needed(s, key) => <<s, key>> \in released
    BY <1>k DEF Loose
  <2> QED BY <1>0, <1>2, <1>12, <1>k, <2>1, <2>2, SalvageQuiet
<1>14. AtWork'
  <2>1. EraseOK(s)' /\ Condemned(s, m)'
    BY <1>1, <1>2, <1>k DEF EraseOK, Condemned
  <2>2. Erase(s, m)'
    BY <1>3, <1>5, <1>10, <2>1 DEF Erase, todo
  <2> QED BY <2>2, <1>3, EffectIs DEF AtWork
<1>15. Others(s)
  BY <1>1, <1>2, OthersOne
<1>16. Drops
  <2>1. Secure(disk'[s]) = {}
    BY <1>5, <1>10, <1>k, DeletingIs
  <2> QED BY <1>8, <1>10, <2>1 DEF Drops, f
<1> QED BY <1>1, <1>9, <1>13, <1>14, <1>15, <1>16, StepFrame

LEMMA EraseRemembers ==
  ASSUME IInv, Step, NEW s \in Segments, NEW m, op.todo = <<Effect("remember", s, m)>> \o DeleteFiles(s),
         EraseOK(s), Condemned(s, m), disk[s].meta = m
  PROVE  IInv' /\ Grows
<1> DEFINE f == disk[s]
           g == disk'[s]
<1>0. Head(op.todo) = Effect("remember", s, m) /\ Tail(op.todo) = DeleteFiles(s)
  BY CollectIs
<1>k. op.kind = "tick" /\ Loose(s) /\ m.state = "Deleting" /\ m.references = {} /\ m \in Metas
      /\ mem[s].state = "Published" /\ mem[s].references = {}
  BY DEF Condemned, EraseOK
<1>1. /\ op.todo # <<>> /\ Goes /\ up /\ Head(op.todo).seg = s
      /\ f \in Files /\ FileOK(f)
      /\ disk \in [Segments -> Files] /\ mem \in [Segments -> Metas]
      /\ Serving /\ Basic(s) /\ health # "failed" /\ ~ Opening /\ ~ Writing /\ op.kind # "pin"
      /\ UNCHANGED <<health, up, target, pub, objects, sent, acked, released>>
      /\ op'.kind = op.kind /\ Loose(s)'
  BY <1>0, <1>k, SalvageAt
<1>2. /\ disk' = Sync(disk) /\ mem' = [mem EXCEPT ![s] = m]
      /\ active' = IF s = active THEN NoSegment ELSE active
  <2>1. disk' = OnDisk(Head(op.todo)) /\ mem' = InMemory(Head(op.todo)) /\ active' = Opened(Head(op.todo))
    BY StepGoes DEF IInv
  <2>2. /\ OnDisk(Head(op.todo)) = Sync(disk)
        /\ InMemory(Head(op.todo)) = [mem EXCEPT ![s] = m]
        /\ Opened(Head(op.todo)) = IF m.state = "Open" THEN s ELSE IF s = active THEN NoSegment ELSE active
    BY <1>0, EffectIs, DidRemember
  <2> QED BY <2>1, <2>2, <1>k
<1>3. op'.todo = DeleteFiles(s) /\ op'.todo # <<>> /\ Head(op'.todo) = Effect("unlink", s, 0)
  <2>1. op'.todo = DeleteFiles(s)
    BY <1>0, <1>1 DEF Goes
  <2> QED BY <2>1, DeleteIs
<1>5. mem'[s] = m /\ \A t \in Segments \ {s} : mem'[t] = mem[t]
  BY <1>1, <1>2
<1>6. /\ DiskInv' /\ Others(s) /\ Grows /\ Settles(f, g) /\ g.meta = m /\ g.old = m
  BY <1>1, <1>2, <1>5, SyncStep
<1> HIDE DEF f, g
<1>7. Works(s)'
  BY <1>3, EffectIs DEF Works
<1>8. Local(s)
  <2>1. \A key \in Keys : Needed(s, key) => Kept(s, key)'
    BY <1>1, <1>k DEF Loose, Kept
  <2>2. mem' \in [Segments -> Metas] /\ active' \in Segments \cup {NoSegment}
    BY <1>1, <1>2, <1>k DEF IInv, OpTypes
  <2>3. s # active
    BY <1>k, SpoolAssumptions DEF IInv, ActiveOK
  <2>4. ActiveOK'
    BY <1>2, <1>5, <2>3 DEF IInv, ActiveOK, OpTypes
  <2>5. \A t \in Segments : t # s /\ mem[t].state = "Open" => active' = t
    BY <1>1, <1>2, <2>3 DEF IInv, ServingOK, Basic
  <2>6. Basic(s)'
    BY <1>5, <1>k DEF Basic, Sealed
  <2>7. pub.at # "idle" => pub.segment # s
    BY <1>k DEF IInv, PubOK
  <2> QED BY <1>1, <1>7, <2>1, <2>2, <2>4, <2>5, <2>6, <2>7 DEF Local
<1>9. AtWork'
  <2>1. EraseOK(s)' /\ Doomed(s)'
    BY <1>1, <1>5, <1>6, <1>k DEF EraseOK, Doomed, g
  <2>2. Erase(s, 0)'
    BY <1>3, <2>1 DEF Erase
  <2> QED BY <2>2, <1>3, EffectIs DEF AtWork
<1> QED BY <1>1, <1>6, <1>8, <1>9, StepFrame

LEMMA EraseUnlinks ==
  ASSUME IInv, Step, NEW s \in Segments, op.todo = DeleteFiles(s), EraseOK(s), Doomed(s)
  PROVE  IInv' /\ Grows
<1> DEFINE f == disk[s]
           g == [f EXCEPT !.entry = IF f.entry = "none" THEN f.entry ELSE "gone"]
           todo == <<Effect("sync", s, 0)>> \o Save(s, NoMeta)
<1>0. Head(op.todo) = Effect("unlink", s, 0) /\ Tail(op.todo) = todo
  BY DeleteIs
<1>k. op.kind \in {"tick", "open"} /\ Loose(s) /\ (op.kind = "tick" => mem[s].state = "Deleting")
      /\ f.meta.state = "Deleting" /\ f.old.state = "Deleting"
  BY DEF EraseOK, Doomed
<1>1. /\ op.todo # <<>> /\ Goes /\ up /\ Head(op.todo).seg = s
      /\ f \in Files /\ FileOK(f) /\ ObjectOK(s, f)
      /\ disk \in [Segments -> Files] /\ mem \in [Segments -> Metas]
      /\ UNCHANGED <<health, up, target, pub, objects, sent, acked, released>>
      /\ op'.kind = op.kind /\ Loose(s)'
  BY <1>0, <1>k, SalvageAt
<1>2. disk' = [disk EXCEPT ![s] = g] /\ mem' = mem /\ active' = active
  <2>1. disk' = OnDisk(Head(op.todo)) /\ mem' = InMemory(Head(op.todo)) /\ active' = Opened(Head(op.todo))
    BY StepGoes DEF IInv
  <2>2. Head(op.todo).do = "unlink" /\ Head(op.todo).seg = s
    BY <1>0, EffectIs
  <2> QED BY <2>1, <2>2, DidUnlink
<1>3. op'.todo = todo /\ op'.todo # <<>> /\ Head(op'.todo) = Effect("sync", s, 0)
  <2>1. op'.todo = todo
    BY <1>0, <1>1 DEF Goes
  <2> QED BY <2>1, DeleteIs
<1> HIDE DEF todo
<1>4. /\ g \in Files /\ g.data = f.data /\ g.synced = f.synced /\ g.lines = f.lines
      /\ g.linesSynced = f.linesSynced /\ g.meta = f.meta /\ g.old = f.old
      /\ g.entry \in {"none", "gone"} /\ (g.entry = "none" <=> f.entry = "none")
  <2>1. f.entry \in {"none", "new", "kept", "gone"}
    BY <1>1 DEF Files
  <2> QED BY <1>1, <2>1 DEF Files
<1> HIDE DEF f, g
<1>5. FileOK(g)
  <2>1. Journaled(g)
    BY <1>1, <1>4 DEF FileOK, Journaled
  <2>2. Tells(g.meta, g) /\ Tells(g.old, g)
    BY <1>1, <1>4, <1>k DEF FileOK, Tells, Sealed
  <2> QED BY <1>1, <1>4, <2>1, <2>2 DEF FileOK, Empty
<1>6. ObjectOK(s, g)
  BY <1>1, <1>4 DEF ObjectOK
<1>7. Secure(f) = {}
  BY <1>k, DeletingIs
<1>8. DiskInv'
  <2>1. s \in Noted
    BY <1>k DEF Noted, f
  <2> QED BY <1>1, <1>2, <1>4, <1>5, <1>6, <1>7, <2>1, SalvageDisk DEF f
<1>9. disk'[s] = g
  BY <1>1, <1>2
<1>10. Works(s)'
  BY <1>3, EffectIs DEF Works
<1>11. Local(s)
  <2>1. op.kind = "tick" => Basic(s)'
    BY <1>2, <1>k DEF Basic, Sealed
  <2>2. \A key \in Keys : Needed(s, key) => <<s, key>> \in released
    BY <1>k DEF Loose
  <2> QED BY <1>0, <1>2, <1>10, <1>k, <2>1, <2>2, SalvageQuiet
<1>12. AtWork'
  <2>1. EraseOK(s)' /\ Doomed(s)'
    BY <1>1, <1>2, <1>4, <1>9, <1>k DEF EraseOK, Doomed
  <2>2. Erase(s, 0)'
    BY <1>3, <1>4, <1>9, <2>1 DEF Erase, todo
  <2> QED BY <2>2, <1>3, EffectIs DEF AtWork
<1>13. Others(s) /\ Grows
  BY <1>1, <1>2, <1>7, OthersOne, GrowsOne DEF f
<1> QED BY <1>1, <1>8, <1>11, <1>12, <1>13, StepFrame

LEMMA EraseSyncs ==
  ASSUME IInv, Step, NEW s \in Segments, op.todo = <<Effect("sync", s, 0)>> \o Save(s, NoMeta),
         EraseOK(s), Doomed(s), disk[s].entry \in {"none", "gone"}
  PROVE  IInv' /\ Grows
<1> DEFINE f == disk[s]
           g == disk'[s]
<1>0. Head(op.todo) = Effect("sync", s, 0) /\ Tail(op.todo) = Save(s, NoMeta)
  BY DeleteIs
<1>k. op.kind \in {"tick", "open"} /\ Loose(s) /\ (op.kind = "tick" => mem[s].state = "Deleting")
      /\ f.meta.state = "Deleting" /\ f.old.state = "Deleting"
  BY DEF EraseOK, Doomed
<1>1. /\ op.todo # <<>> /\ Goes /\ up /\ Head(op.todo).seg = s
      /\ f \in Files /\ FileOK(f) /\ disk \in [Segments -> Files]
      /\ UNCHANGED <<health, up, target, pub, objects, sent, acked, released>>
      /\ op'.kind = op.kind /\ Loose(s)'
  BY <1>0, <1>k, SalvageAt
<1>2. disk' = Sync(disk) /\ mem' = mem /\ active' = active
  <2>1. disk' = OnDisk(Head(op.todo)) /\ mem' = InMemory(Head(op.todo)) /\ active' = Opened(Head(op.todo))
    BY StepGoes DEF IInv
  <2> QED BY <2>1, <1>0, EffectIs, DidSync
<1>3. op'.todo = Save(s, NoMeta) /\ op'.todo # <<>> /\ Head(op'.todo) = Effect("describe", s, NoMeta)
  <2>1. op'.todo = Save(s, NoMeta)
    BY <1>0, <1>1 DEF Goes
  <2> QED BY <2>1, SaveIs
<1>4. /\ DiskInv' /\ Others(s) /\ Grows /\ Settles(f, g) /\ g = Synced(f)
      /\ g.meta = f.meta /\ g.old = f.meta
  BY <1>1, <1>2, SyncStep
<1>5. g.entry = "none"
  <2>1. CASE f.entry = "gone"
    <3>1. g = [Absent EXCEPT !.meta = f.meta, !.old = f.meta]
      BY <1>4, <2>1 DEF Synced
    <3> QED BY <3>1, AbsentIs DEF Files
  <2>2. CASE f.entry = "none"
    BY <1>4, <2>2 DEF Settles
  <2> QED BY <2>1, <2>2
<1> HIDE DEF f, g
<1>6. Works(s)'
  BY <1>3, EffectIs DEF Works
<1>7. Local(s)
  <2>1. op.kind = "tick" => Basic(s)'
    BY <1>2, <1>k DEF Basic, Sealed
  <2>2. \A key \in Keys : Needed(s, key) => <<s, key>> \in released
    BY <1>k DEF Loose
  <2> QED BY <1>0, <1>2, <1>6, <1>k, <2>1, <2>2, SalvageQuiet
<1>8. AtWork'
  <2>1. EraseOK(s)' /\ Doomed(s)'
    BY <1>1, <1>2, <1>4, <1>k DEF EraseOK, Doomed, g
  <2>2. Erase(s, NoMeta)'
    BY <1>3, <1>5, <2>1 DEF Erase, g
  <2> QED BY <2>2, <1>3, EffectIs DEF AtWork
<1> QED BY <1>1, <1>4, <1>7, <1>8, StepFrame

LEMMA EraseForgets ==
  ASSUME IInv, Step, NEW s \in Segments, op.todo = Save(s, NoMeta), EraseOK(s), Doomed(s),
         disk[s].entry = "none"
  PROVE  IInv' /\ Grows
<1> DEFINE f == disk[s]
           g == [f EXCEPT !.meta = NoMeta]
           todo == <<Effect("remember", s, NoMeta)>>
<1>0. Head(op.todo) = Effect("describe", s, NoMeta) /\ Tail(op.todo) = todo
  BY SaveIs
<1>k. op.kind \in {"tick", "open"} /\ Loose(s) /\ (op.kind = "tick" => mem[s].state = "Deleting")
      /\ f.meta.state = "Deleting" /\ f.old.state = "Deleting" /\ f.entry = "none"
  BY DEF EraseOK, Doomed
<1>1. /\ op.todo # <<>> /\ Goes /\ up /\ Head(op.todo).seg = s
      /\ f \in Files /\ FileOK(f) /\ ObjectOK(s, f)
      /\ disk \in [Segments -> Files] /\ mem \in [Segments -> Metas]
      /\ UNCHANGED <<health, up, target, pub, objects, sent, acked, released>>
      /\ op'.kind = op.kind /\ Loose(s)'
  BY <1>0, <1>k, SalvageAt
<1>2. disk' = [disk EXCEPT ![s] = g] /\ mem' = mem /\ active' = active
  <2>1. disk' = OnDisk(Head(op.todo)) /\ mem' = InMemory(Head(op.todo)) /\ active' = Opened(Head(op.todo))
    BY StepGoes DEF IInv
  <2> QED BY <2>1, <1>0, EffectIs, DidDescribe
<1>3. op'.todo = todo /\ op'.todo # <<>> /\ Head(op'.todo) = Effect("remember", s, NoMeta)
  <2>1. op'.todo = todo
    BY <1>0, <1>1 DEF Goes
  <2> QED BY <2>1, Two
<1> HIDE DEF todo
<1>4. /\ g \in Files /\ FileOK(g)
      /\ g.meta = NoMeta /\ g.old = f.old /\ g.data = f.data /\ g.synced = f.synced
      /\ g.lines = f.lines /\ g.linesSynced = f.linesSynced /\ g.entry = f.entry
  <2>1. Tells(NoMeta, f)
    BY <1>1, <1>k, NoMetaIs DEF FileOK, Tells, Sealed
  <2> QED BY <1>1, <1>k, <2>1, NoMetaIs, DescribedOK
<1> HIDE DEF f, g
<1>5. ObjectOK(s, g)
  BY <1>1, <1>4, <1>k, NoMetaIs DEF ObjectOK
<1>6. Secure(f) = {}
  BY <1>k, DeletingIs
<1>7. DiskInv'
  <2>1. s \in Noted
    BY <1>k DEF Noted, f
  <2> QED BY <1>1, <1>2, <1>4, <1>5, <1>6, <2>1, SalvageDisk DEF f
<1>8. disk'[s] = g
  BY <1>1, <1>2
<1>9. Works(s)'
  BY <1>3, EffectIs DEF Works
<1>10. Local(s)
  <2>1. op.kind = "tick" => Basic(s)'
    BY <1>2, <1>k DEF Basic, Sealed
  <2>2. \A key \in Keys : Needed(s, key) => <<s, key>> \in released
    BY <1>k DEF Loose
  <2> QED BY <1>0, <1>2, <1>9, <1>k, <2>1, <2>2, SalvageQuiet
<1>11. AtWork'
  <2>1. EraseOK(s)'
    BY <1>1, <1>k DEF EraseOK
  <2>2. Erase(s, NoMeta)'
    BY <1>1, <1>2, <1>3, <1>4, <1>8, <1>k, <2>1 DEF Erase, todo
  <2> QED BY <2>2, <1>3, EffectIs DEF AtWork
<1>12. Others(s) /\ Grows
  BY <1>1, <1>2, <1>6, OthersOne, GrowsOne DEF f
<1> QED BY <1>1, <1>7, <1>10, <1>11, <1>12, StepFrame

LEMMA EraseEnds ==
  ASSUME IInv, Step, NEW s \in Segments, op.todo = <<Effect("remember", s, NoMeta)>>, EraseOK(s),
         op.kind = "tick" => mem[s].state = "Deleting", disk[s].meta = NoMeta, disk[s].entry = "none"
  PROVE  IInv' /\ Grows
<1> DEFINE f == disk[s]
           g == disk'[s]
<1>0. Head(op.todo) = Effect("remember", s, NoMeta) /\ Tail(op.todo) = <<>>
  BY Two
<1>k. op.kind \in {"tick", "open"} /\ Loose(s)
  BY DEF EraseOK
<1>1. /\ op.todo # <<>> /\ Goes /\ up /\ Head(op.todo).seg = s /\ op.todo # First
      /\ f \in Files /\ FileOK(f)
      /\ disk \in [Segments -> Files] /\ mem \in [Segments -> Metas]
      /\ op.kind = "tick" => Serving /\ Basic(s) /\ health # "failed" /\ ~ Opening
      /\ op.kind = "open" => Opening /\ ~ Serving /\ active = NoSegment /\ pub = NoUpload
      /\ ~ Writing /\ op.kind # "pin"
      /\ UNCHANGED <<health, up, target, pub, objects, sent, acked, released>>
      /\ op'.kind = op.kind /\ Loose(s)'
  BY <1>0, <1>k, SalvageAt
<1>2. /\ disk' = Sync(disk) /\ mem' = [mem EXCEPT ![s] = NoMeta]
      /\ active' = IF s = active THEN NoSegment ELSE active
  <2>1. disk' = OnDisk(Head(op.todo)) /\ mem' = InMemory(Head(op.todo)) /\ active' = Opened(Head(op.todo))
    BY StepGoes DEF IInv
  <2>2. /\ OnDisk(Head(op.todo)) = Sync(disk)
        /\ InMemory(Head(op.todo)) = [mem EXCEPT ![s] = NoMeta]
        /\ Opened(Head(op.todo)) = IF NoMeta.state = "Open" THEN s ELSE IF s = active THEN NoSegment ELSE active
    BY <1>0, EffectIs, DidRemember
  <2> QED BY <2>1, <2>2, NoMetaIs
<1>3. op'.todo = <<>>
  BY <1>0, <1>1 DEF Goes
<1>5. mem'[s] = NoMeta /\ \A t \in Segments \ {s} : mem'[t] = mem[t]
  BY <1>1, <1>2
<1>6. /\ DiskInv' /\ Others(s) /\ Grows /\ Settles(f, g) /\ g.meta = NoMeta /\ g.old = NoMeta
  BY <1>1, <1>2, <1>5, SyncStep
<1> HIDE DEF f, g
<1>8. Local(s)
  <2>1. \A key \in Keys : Needed(s, key) => Kept(s, key)'
    BY <1>1, <1>k DEF Loose, Kept
  <2>2. mem' \in [Segments -> Metas] /\ active' \in Segments \cup {NoSegment}
    BY <1>1, <1>2, NoMetaIs DEF IInv, OpTypes
  <2>3. s # active
    BY <1>1, <1>k, SpoolAssumptions DEF IInv, ActiveOK
  <2>4. ActiveOK'
    BY <1>2, <1>5, <2>3 DEF IInv, ActiveOK, OpTypes
  <2>5. Serving => \A t \in Segments : t # s /\ mem[t].state = "Open" => active' = t
    BY <1>1, <1>2, <2>3 DEF IInv, ServingOK, Basic
  <2>6. Basic(s)' /\ Agree(s)' /\ Told(s)'
    <3>1. op'.todo # First
      BY <1>3 DEF First
    <3> QED BY <1>5, <1>6, <3>1, NoMetaIs DEF Basic, Sealed, Agree, Told, g
  <2>7. pub.at # "idle" => pub.segment # s
    BY <1>1, <1>k DEF IInv, PubOK, NoUpload
  <2>8. Opening => active' = NoSegment
    BY <1>1, <1>2, <1>k DEF Opening
  <2> QED BY <1>1, <2>1, <2>2, <2>4, <2>5, <2>6, <2>7, <2>8 DEF Local
<1>9. AtWork'
  BY <1>3 DEF AtWork
<1> QED BY <1>1, <1>6, <1>8, <1>9, StepFrame
-----------------------------------------------------------------------------
(* The steps of Spool::open *)

LEMMA FirstSync ==
  ASSUME IInv, Step, op.todo = First, op.kind = "open"
  PROVE  IInv' /\ Grows
<1>0. Head(op.todo) = Effect("sync", NoSegment, 0) /\ Tail(op.todo) = <<>>
  BY Two DEF First
<1>1. op.todo # <<>> /\ Goes
  BY StepGoes DEF IInv
<1>2. disk' = Sync(disk) /\ mem' = mem /\ active' = active
  <2>1. disk' = OnDisk(Head(op.todo)) /\ mem' = InMemory(Head(op.todo)) /\ active' = Opened(Head(op.todo))
    BY StepGoes DEF IInv
  <2> QED BY <2>1, <1>0, EffectIs, DidSync
<1>3. op'.todo = <<>> /\ op'.todo # First
  BY <1>0, <1>1 DEF Goes, First
<1>4. /\ DiskInv /\ OpTypes /\ up /\ UNCHANGED <<health, up, target, pub, objects, sent, acked, released>>
      /\ op'.kind = op.kind /\ op'.batch = op.batch /\ op'.rest = op.rest /\ op'.pins = op.pins
      /\ op' = [kind |-> op'.kind, todo |-> op'.todo, batch |-> op'.batch, rest |-> op'.rest, pins |-> op'.pins]
  <2>1. up
    BY <1>1 DEF IInv, DownOK, Idle
  <2> QED BY <1>1, <2>1 DEF Goes, IInv
<1>5. /\ disk' \in [Segments -> Files]
      /\ \A t \in Segments : Settles(disk[t], disk'[t]) /\ disk'[t] = Synced(disk[t])
                             /\ disk'[t].meta = disk[t].meta /\ disk'[t].old = disk[t].meta
  BY <1>2, <1>4, SyncDisk
<1>6. DiskInv' /\ Grows
  <2>1. DiskInv'
    BY <1>4, <1>5, AllSettle
  <2> QED BY <2>1, <1>5 DEF Grows, Settles
<1>7. PinsOK'
  <2>1. ASSUME NEW t \in Segments, NEW key \in Keys, Needed(t, key)' PROVE Kept(t, key)'
    <3>1. Needed(t, key)
      BY <2>1, <1>4 DEF Needed
    <3>2. Kept(t, key)
      BY <3>1 DEF IInv, PinsOK
    <3> QED BY <3>2, <1>2, <1>4, <1>5 DEF Kept
  <2> QED BY <2>1 DEF PinsOK
<1>8. OpTypes'
  BY <1>2, <1>3, <1>4 DEF OpTypes
<1>9. Opening /\ ~ Serving'
  BY <1>4 DEF Opening, Serving
<1>10. OpeningOK'
  <2>1. \A t \in Segments : ~ Works(t)
    BY <1>0, EffectIs, SpoolAssumptions DEF Works
  <2>2. \A t \in Segments : Told(t)
    BY <1>9, <2>1 DEF IInv, OpeningOK
  <2>3. \A t \in Segments : Told(t)'
    BY <1>2, <1>5, <2>2 DEF Told
  <2>4. active' = NoSegment /\ health' = "ok" /\ pub' = NoUpload
    BY <1>2, <1>4, <1>9 DEF IInv, OpeningOK
  <2> QED BY <2>3, <2>4 DEF OpeningOK
<1>11. DownOK' /\ ActiveOK' /\ ServingOK' /\ PubOK' /\ AtWork'
  BY <1>2, <1>3, <1>4, <1>9 DEF IInv, DownOK, ActiveOK, ServingOK, PubOK, AtWork
<1>12. BatchOK' /\ CitesOK' /\ CatalogOK'
  BY <1>4 DEF BatchOK, CitesOK, CatalogOK, Writing
<1> QED BY <1>6, <1>7, <1>8, <1>10, <1>11, <1>12 DEF IInv

(* Files without a descriptor are removed. *)
LEMMA SalvageUnlinks ==
  ASSUME IInv, Step, NEW s \in Segments, op.todo = <<Effect("unlink", s, 0)>>, SalvageOK(s),
         Told(s), disk[s].meta = NoMeta
  PROVE  IInv' /\ Grows
<1> DEFINE f == disk[s]
           g == [f EXCEPT !.entry = IF f.entry = "none" THEN f.entry ELSE "gone"]
<1>0. Head(op.todo) = Effect("unlink", s, 0) /\ Tail(op.todo) = <<>>
  BY Two
<1>k. op.kind = "open"
  BY DEF SalvageOK
<1>1. /\ op.todo # <<>> /\ Goes /\ up /\ Head(op.todo).seg = s /\ op.todo # First
      /\ f \in Files /\ FileOK(f) /\ ObjectOK(s, f)
      /\ disk \in [Segments -> Files] /\ mem \in [Segments -> Metas]
      /\ Opening /\ ~ Serving /\ active = NoSegment /\ pub = NoUpload
      /\ ~ Writing /\ op.kind # "pin"
      /\ UNCHANGED <<health, up, target, pub, objects, sent, acked, released>>
      /\ op'.kind = op.kind
  BY <1>0, <1>k, SalvageAt
<1>2. disk' = [disk EXCEPT ![s] = g] /\ mem' = mem /\ active' = active
  <2>1. disk' = OnDisk(Head(op.todo)) /\ mem' = InMemory(Head(op.todo)) /\ active' = Opened(Head(op.todo))
    BY StepGoes DEF IInv
  <2>2. Head(op.todo).do = "unlink" /\ Head(op.todo).seg = s
    BY <1>0, EffectIs
  <2> QED BY <2>1, <2>2, DidUnlink
<1>3. op'.todo = <<>>
  BY <1>0, <1>1 DEF Goes
<1>4. /\ g \in Files /\ g.data = f.data /\ g.synced = f.synced /\ g.lines = f.lines
      /\ g.linesSynced = f.linesSynced /\ g.meta = f.meta /\ g.old = f.old
      /\ g.entry \in {"none", "gone"} /\ (g.entry = "none" <=> f.entry = "none")
  <2>1. f.entry \in {"none", "new", "kept", "gone"}
    BY <1>1 DEF Files
  <2> QED BY <1>1, <2>1 DEF Files
<1>5. f.meta = NoMeta /\ f.old = NoMeta /\ mem[s] = NoMeta
  BY <1>1 DEF Told
<1> HIDE DEF f, g
<1>6. FileOK(g)
  <2>1. Journaled(g)
    BY <1>1, <1>4 DEF FileOK, Journaled
  <2>2. Tells(g.meta, g) /\ Tells(g.old, g)
    BY <1>1, <1>4, <1>5, NoMetaIs DEF FileOK, Tells, Sealed, Empty
  <2> QED BY <1>1, <1>4, <2>1, <2>2 DEF FileOK, Empty
<1>7. ObjectOK(s, g)
  BY <1>1, <1>4 DEF ObjectOK
<1>8. Secure(f) = {}
  BY <1>5, NoMetaIs, DeletingIs
<1>9. DiskInv'
  BY <1>1, <1>2, <1>4, <1>5, <1>6, <1>7, <1>8, NoMetaIs, SalvageDisk DEF f
<1>10. disk'[s] = g /\ mem'[s] = mem[s]
  BY <1>1, <1>2
<1>11. Local(s)
  <2>1. ASSUME NEW key \in Keys, Needed(s, key) PROVE Kept(s, key)'
    <3>1. Kept(s, key)
      BY <2>1 DEF IInv, PinsOK
    <3> QED BY <3>1, <1>1, <1>5, NoMetaIs DEF Kept, f
  <2>2. Told(s)'
    BY <1>3, <1>4, <1>5, <1>10 DEF Told
  <2>3. ActiveOK' /\ active' \in Segments \cup {NoSegment} /\ mem' \in [Segments -> Metas]
    BY <1>1, <1>2 DEF ActiveOK
  <2>4. pub.at = "idle"
    BY <1>1 DEF NoUpload
  <2> QED BY <1>1, <1>2, <2>1, <2>2, <2>3, <2>4 DEF Local
<1>12. AtWork'
  BY <1>3 DEF AtWork
<1>13. Others(s) /\ Grows
  BY <1>1, <1>2, <1>8, OthersOne, GrowsOne DEF f
<1> QED BY <1>1, <1>9, <1>11, <1>12, <1>13, StepFrame

(* What the cut of the data after the last line leaves. *)
Trimmed(f) ==
  [f EXCEPT !.data = SubSeq(f.data, 1, LastLine(f)), !.synced = LastLine(f),
            !.linesSynced = Len(f.lines)]

LEMMA TrimmedIs ==
  ASSUME NEW f \in Files, FileOK(f), f.meta.state = "Open"
  PROVE  LET g == Trimmed(f) IN
         /\ g \in Files /\ FileOK(g) /\ Whole(g)
         /\ g.meta = f.meta /\ g.old = f.old /\ g.entry = "kept" /\ g.lines = f.lines
         /\ LastLine(g) = LastLine(f) /\ Len(g.data) = LastLine(f)
         /\ ToSet(g.data) \subseteq ToSet(f.data) /\ Secure(f) \subseteq Secure(g)
<1> DEFINE n == LastLine(f)
           g == Trimmed(f)
<1>1. /\ f.data \in Seq(Captures) /\ f.lines \in Seq(Nat) /\ f.synced \in Nat /\ f.synced <= Len(f.data)
      /\ f.linesSynced \in Nat /\ f.linesSynced <= Len(f.lines) /\ Len(f.lines) \in Nat /\ Len(f.data) \in Nat
      /\ f.meta \in Metas /\ f.old \in Metas
  BY DEF Files, FileOK, Journaled
<1>2. n \in Nat /\ n <= f.synced /\ n <= Len(f.data)
  BY <1>1, LastLineIs
<1>3. SubSeq(f.data, 1, n) \in Seq(Captures) /\ Len(SubSeq(f.data, 1, n)) = n
      /\ ToSet(SubSeq(f.data, 1, n)) = {f.data[i] : i \in 1 .. n}
  BY <1>1, <1>2, ToSetOf
<1>4. f.entry = "kept"
  BY DEF FileOK, Tells
<1>5. g = [f EXCEPT !.data = SubSeq(f.data, 1, n), !.synced = n, !.linesSynced = Len(f.lines)]
  BY DEF Trimmed
<1> HIDE DEF n, g
<1>6. /\ g \in Files /\ g.data = SubSeq(f.data, 1, n) /\ g.synced = n /\ g.lines = f.lines
      /\ g.linesSynced = Len(f.lines) /\ g.entry = f.entry /\ g.meta = f.meta /\ g.old = f.old
  BY <1>1, <1>2, <1>3, <1>5 DEF Files
<1>7. LastLine(g) = n
  BY <1>6 DEF LastLine, n
<1>8. Whole(g)
  BY <1>3, <1>4, <1>6, <1>7 DEF Whole
<1>9. \A i \in 1 .. Len(f.lines) : 0 < f.lines[i] /\ f.lines[i] <= n
  <2>1. TAKE i \in 1 .. Len(f.lines)
  <2>2. f.lines # <<>> /\ Len(f.lines) \in 1 .. Len(f.lines) /\ i <= Len(f.lines)
    BY <1>1
  <2>3. n = f.lines[Len(f.lines)]
    BY <2>2, LastLineIs DEF n
  <2>4. f.lines[i] <= f.lines[Len(f.lines)] /\ 0 < f.lines[i]
    BY <2>2 DEF FileOK, Journaled
  <2> QED BY <2>3, <2>4
<1>10. Journaled(g)
  <2>1. \A i, j \in 1 .. Len(f.lines) : i <= j => f.lines[i] <= f.lines[j]
    BY DEF FileOK, Journaled
  <2> QED BY <1>1, <1>2, <1>3, <1>6, <1>9, <2>1 DEF Journaled
<1>11. ASSUME NEW m \in Metas, Tells(m, f) PROVE Tells(m, g)
  <2>1. Empty(f) => Empty(g)
    <3>1. ASSUME Empty(f) PROVE Empty(g)
      <4>1. Len(f.data) = 0 /\ f.lines = <<>>
        BY <3>1 DEF Empty
      <4>2. n = 0
        BY <4>1, <1>2
      <4> QED BY <4>1, <4>2, <1>3, <1>6 DEF Empty
    <3> QED BY <3>1
  <2>2. Whole(f) => Len(g.data) = Len(f.data)
    BY <1>3, <1>6 DEF Whole, n
  <2> QED BY <2>1, <2>2, <1>4, <1>6, <1>8, <1>11 DEF Tells
<1>12. FileOK(g)
  <2>1. Tells(f.meta, g) /\ Tells(f.old, g)
    BY <1>1, <1>11 DEF FileOK
  <2> QED BY <2>1, <1>4, <1>6, <1>10 DEF FileOK
<1>13. ToSet(g.data) \subseteq ToSet(f.data)
  <2>1. ToSet(f.data) = {f.data[i] : i \in 1 .. Len(f.data)}
    BY <1>1, ToSetIn
  <2> QED BY <2>1, <1>1, <1>2, <1>3, <1>6
<1>14. Secure(f) \subseteq Secure(g)
  <2>1. CASE {f.meta.state, f.old.state} \cap {"None", "Deleting"} # {} \/ f.linesSynced = 0
    BY <2>1 DEF Secure
  <2>2. CASE {f.meta.state, f.old.state} \cap {"None", "Deleting"} = {} /\ f.linesSynced # 0
    <3>1. f.linesSynced \in 1 .. Len(f.lines)
      BY <2>2, <1>1
    <3> DEFINE k == f.lines[f.linesSynced]
    <3>2. k \in Nat /\ k <= n
      BY <3>1, <1>1, <1>9
    <3>3. Secure(f) = {f.data[i] : i \in 1 .. k}
      <4>1. Secure(f) = ToSet(SubSeq(f.data, 1, k))
        BY <2>2, <1>4 DEF Secure
      <4>2. k <= Len(f.data)
        BY <3>2, <1>1, <1>2
      <4> HIDE DEF k
      <4> QED BY <4>1, <4>2, <3>2, <1>1, ToSetOf
    <3>4. g.meta.state \in Live /\ g.old.state \in Live
      <4>1. f.meta.state \in States /\ f.old.state \in States
        BY <1>1 DEF Metas
      <4> QED BY <2>2, <4>1, <1>6 DEF States
    <3>5. Secure(g) = {f.data[i] : i \in 1 .. n}
      <4>1. Secure(g) = ToSet(g.data)
        BY <3>4, <1>6, <1>8, <1>12, WholeSecure
      <4> QED BY <4>1, <1>3, <1>6
    <3> HIDE DEF k
    <3> QED BY <3>2, <3>3, <3>5, <1>2
  <2> QED BY <2>1, <2>2
<1> QED BY <1>3, <1>4, <1>6, <1>7, <1>8, <1>12, <1>13, <1>14 DEF n, g

(* The step that cuts the data after the last line. *)
LEMMA SalvageTrims ==
  ASSUME IInv, Step, NEW s \in Segments, Head(op.todo) = Effect("trim", s, 0), op.kind = "open",
         disk[s].meta.state = "Open", Works(s)',
         \A key \in Keys : Needed(s, key) =>
            \/ <<s, key>> \in released
            \/ key \in disk[s].meta.references /\ key \in disk[s].old.references
  PROVE  /\ DiskInv' /\ Local(s) /\ Others(s) /\ Grows
         /\ disk'[s] = Trimmed(disk[s]) /\ mem' = mem
<1> DEFINE f == disk[s]
           g == Trimmed(f)
<1>1. /\ op.todo # <<>> /\ Goes /\ up /\ Head(op.todo).seg = s /\ op.todo # First
      /\ f \in Files /\ FileOK(f) /\ ObjectOK(s, f)
      /\ disk \in [Segments -> Files] /\ mem \in [Segments -> Metas]
  BY SalvageAt
<1>2. disk' = [disk EXCEPT ![s] = g] /\ mem' = mem /\ active' = active
  <2>1. disk' = OnDisk(Head(op.todo)) /\ mem' = InMemory(Head(op.todo)) /\ active' = Opened(Head(op.todo))
    BY StepGoes DEF IInv
  <2>2. Head(op.todo).do = "trim" /\ Head(op.todo).seg = s
    BY EffectIs
  <2>3. disk' = [disk EXCEPT ![s].data = SubSeq(@, 1, LastLine(disk[s])),
                             ![s].synced = LastLine(disk[s]),
                             ![s].linesSynced = Len(disk[s].lines)]
        /\ mem' = mem /\ active' = active
    BY <2>1, <2>2, DidTrim
  <2> QED BY <1>1, <2>3 DEF Trimmed
<1>3. /\ g \in Files /\ FileOK(g) /\ Whole(g)
      /\ g.meta = f.meta /\ g.old = f.old /\ g.entry = "kept"
      /\ ToSet(g.data) \subseteq ToSet(f.data) /\ Secure(f) \subseteq Secure(g)
  BY <1>1, TrimmedIs
<1> HIDE DEF f, g
<1>4. ObjectOK(s, g)
  BY <1>1, <1>3 DEF ObjectOK, f
<1>5. DiskInv'
  <2>1. s \in Noted
    BY DEF Noted
  <2> QED BY <1>1, <1>2, <1>3, <1>4, <2>1, SalvageDisk DEF f
<1>6. disk'[s] = g
  BY <1>1, <1>2
<1>7. Local(s)
  BY <1>2, <1>3, <1>6, SalvageQuiet DEF f
<1>8. Others(s) /\ Grows
  BY <1>1, <1>2, <1>3, OthersOne, GrowsOne DEF f
<1> QED BY <1>2, <1>5, <1>6, <1>7, <1>8 DEF f, g

(* An open segment with no line is deleted. *)
LEMMA SalvageClears ==
  ASSUME IInv, Step, NEW s \in Segments, NEW m,
         op.todo = <<Effect("trim", s, 0)>> \o (Store(s, m) \o DeleteFiles(s)),
         SalvageOK(s), Grave(m), Unused(s)
  PROVE  IInv' /\ Grows
<1>0. Head(op.todo) = Effect("trim", s, 0) /\ Tail(op.todo) = Store(s, m) \o DeleteFiles(s)
  BY TrimIs
<1>k. op.kind = "open" /\ Loose(s) /\ disk[s].meta.state = "Open" /\ disk[s].lines = <<>>
  BY DEF SalvageOK, Unused
<1>1. /\ op.todo # <<>> /\ Goes /\ Head(op.todo).seg = s /\ op'.kind = op.kind /\ Loose(s)'
      /\ disk[s] \in Files /\ FileOK(disk[s])
  BY <1>0, <1>k, SalvageAt
<1>2. op'.todo = Store(s, m) \o DeleteFiles(s) /\ op'.todo # <<>> /\ Head(op'.todo) = Effect("describe", s, m)
  <2>1. op'.todo = Store(s, m) \o DeleteFiles(s)
    BY <1>0, <1>1 DEF Goes
  <2> QED BY <2>1, BuryIs
<1>3. Works(s)'
  BY <1>2, EffectIs DEF Works
<1>4. /\ DiskInv' /\ Local(s) /\ Others(s) /\ Grows
      /\ disk'[s] = Trimmed(disk[s]) /\ mem' = mem
  BY <1>0, <1>k, <1>3, SalvageTrims DEF Loose
<1>5. AtWork'
  <2>1. disk'[s].meta.state = "Open" /\ disk'[s].lines = <<>>
    BY <1>1, <1>4, <1>k, TrimmedIs
  <2>2. SalvageOK(s)' /\ Unused(s)'
    BY <1>1, <1>k, <2>1 DEF SalvageOK, Unused
  <2>3. Salvage(s, m)'
    BY <1>2, <2>2 DEF Salvage
  <2> QED BY <1>2, <2>3, EffectIs DEF AtWork
<1> QED BY <1>1, <1>4, <1>5, StepFrame

LEMMA SalvageBuries ==
  ASSUME IInv, Step, NEW s \in Segments, NEW m, op.todo = Store(s, m) \o DeleteFiles(s),
         SalvageOK(s), Grave(m), Unused(s)
  PROVE  IInv' /\ Grows
<1> DEFINE f == disk[s]
           g == [f EXCEPT !.meta = m]
           todo == <<Effect("sync", s, 0)>> \o DeleteFiles(s)
<1>0. Head(op.todo) = Effect("describe", s, m) /\ Tail(op.todo) = todo
  BY BuryIs
<1>k. op.kind = "open" /\ Loose(s) /\ f.meta.state = "Open" /\ f.lines = <<>>
      /\ m.state = "Deleting" /\ m.references = {} /\ m \in Metas
  BY DEF SalvageOK, Unused, Grave
<1>1. /\ op.todo # <<>> /\ Goes /\ up /\ Head(op.todo).seg = s
      /\ f \in Files /\ FileOK(f) /\ ObjectOK(s, f)
      /\ disk \in [Segments -> Files] /\ mem \in [Segments -> Metas]
      /\ op'.kind = op.kind /\ Loose(s)'
  BY <1>0, <1>k, SalvageAt
<1>2. disk' = [disk EXCEPT ![s] = g] /\ mem' = mem /\ active' = active
  <2>1. disk' = OnDisk(Head(op.todo)) /\ mem' = InMemory(Head(op.todo)) /\ active' = Opened(Head(op.todo))
    BY StepGoes DEF IInv
  <2> QED BY <2>1, <1>0, EffectIs, DidDescribe
<1>3. op'.todo = todo /\ op'.todo # <<>> /\ Head(op'.todo) = Effect("sync", s, 0)
  <2>1. op'.todo = todo
    BY <1>0, <1>1 DEF Goes
  <2> QED BY <2>1, BuryIs
<1> HIDE DEF todo
<1>4. /\ g \in Files /\ FileOK(g)
      /\ g.meta = m /\ g.old = f.old /\ g.data = f.data /\ g.synced = f.synced
      /\ g.lines = f.lines /\ g.linesSynced = f.linesSynced /\ g.entry = f.entry
  <2>1. Tells(m, f) /\ f.entry # "new"
    BY <1>1, <1>k DEF FileOK, Tells, Sealed
  <2> QED BY <1>1, <1>k, <2>1, DescribedOK
<1> HIDE DEF f, g
<1>5. ObjectOK(s, g)
  BY <1>1, <1>4, <1>k DEF ObjectOK
<1>6. Secure(f) = {}
  <2>1. f.linesSynced = 0
    BY <1>1, <1>k DEF FileOK, Journaled, Files
  <2> QED BY <2>1 DEF Secure
<1>7. DiskInv'
  <2>1. s \in Noted
    BY <1>k DEF Noted, f
  <2> QED BY <1>1, <1>2, <1>4, <1>5, <1>6, <2>1, SalvageDisk DEF f
<1>8. disk'[s] = g
  BY <1>1, <1>2
<1>9. Works(s)'
  BY <1>3, EffectIs DEF Works
<1>10. Local(s)
  <2>1. \A key \in Keys : Needed(s, key) => <<s, key>> \in released
    BY <1>k DEF Loose
  <2> QED BY <1>0, <1>2, <1>9, <1>k, <2>1, SalvageQuiet
<1>11. AtWork'
  <2>1. SalvageOK(s)' /\ disk'[s].meta.state = "Deleting"
    BY <1>1, <1>4, <1>8, <1>k DEF SalvageOK
  <2>2. Salvage(s, 0)'
    BY <1>1, <1>3, <2>1 DEF Salvage, todo
  <2> QED BY <2>2, <1>3, EffectIs DEF AtWork
<1>12. Others(s) /\ Grows
  BY <1>1, <1>2, <1>6, OthersOne, GrowsOne DEF f
<1> QED BY <1>1, <1>7, <1>10, <1>11, <1>12, StepFrame

LEMMA SalvageDooms ==
  ASSUME IInv, Step, NEW s \in Segments, op.todo = <<Effect("sync", s, 0)>> \o DeleteFiles(s),
         SalvageOK(s), disk[s].meta.state = "Deleting", Loose(s)
  PROVE  IInv' /\ Grows
<1>0. Head(op.todo) = Effect("sync", s, 0) /\ Tail(op.todo) = DeleteFiles(s)
  BY BuryIs
<1>k. op.kind = "open"
  BY DEF SalvageOK
<1>1. /\ op.todo # <<>> /\ Goes /\ up /\ Head(op.todo).seg = s /\ op'.kind = op.kind /\ Loose(s)'
  BY <1>0, <1>k, SalvageAt
<1>2. disk' = Sync(disk) /\ mem' = mem /\ active' = active
  <2>1. disk' = OnDisk(Head(op.todo)) /\ mem' = InMemory(Head(op.todo)) /\ active' = Opened(Head(op.todo))
    BY StepGoes DEF IInv
  <2> QED BY <2>1, <1>0, EffectIs, DidSync
<1>3. op'.todo = DeleteFiles(s) /\ op'.todo # <<>> /\ Head(op'.todo) = Effect("unlink", s, 0)
  <2>1. op'.todo = DeleteFiles(s)
    BY <1>0, <1>1 DEF Goes
  <2> QED BY <2>1, DeleteIs
<1>4. /\ DiskInv' /\ Others(s) /\ Grows
      /\ disk'[s].meta = disk[s].meta /\ disk'[s].old = disk[s].meta
  BY <1>1, <1>2, SyncStep
<1>5. Works(s)'
  BY <1>3, EffectIs DEF Works
<1>6. Local(s)
  BY <1>0, <1>2, <1>5, <1>k, SalvageQuiet DEF Loose
<1>7. AtWork'
  <2>1. EraseOK(s)' /\ Doomed(s)'
    BY <1>1, <1>4, <1>k DEF EraseOK, Doomed
  <2>2. Erase(s, 0)'
    BY <1>3, <2>1 DEF Erase
  <2> QED BY <2>2, <1>3, EffectIs DEF AtWork
<1> QED BY <1>1, <1>4, <1>6, <1>7, StepFrame

(* An open segment with lines is sealed. *)
LEMMA SalvageCuts ==
  ASSUME IInv, Step, NEW s \in Segments, NEW m, op.todo = <<Effect("trim", s, 0)>> \o Save(s, m),
         SalvageOK(s), Regained(s, m)
  PROVE  IInv' /\ Grows
<1>0. Head(op.todo) = Effect("trim", s, 0) /\ Tail(op.todo) = Save(s, m)
  BY TrimIs
<1>k. op.kind = "open" /\ disk[s].meta.state = "Open" /\ disk[s].old = disk[s].meta
      /\ mem[s] = disk[s].meta /\ disk[s].lines # <<>> /\ m = Recovered(disk[s].meta, LastLine(disk[s]))
  BY DEF SalvageOK, Regained
<1>1. /\ op.todo # <<>> /\ Goes /\ Head(op.todo).seg = s /\ op'.kind = op.kind
      /\ disk[s] \in Files /\ FileOK(disk[s]) /\ target' = target
  BY <1>0, <1>k, SalvageAt
<1>2. op'.todo = Save(s, m) /\ op'.todo # <<>> /\ Head(op'.todo) = Effect("describe", s, m)
  <2>1. op'.todo = Save(s, m)
    BY <1>0, <1>1 DEF Goes
  <2> QED BY <2>1, SaveIs
<1>3. Works(s)'
  BY <1>2, EffectIs DEF Works
<1>4. /\ DiskInv' /\ Local(s) /\ Others(s) /\ Grows
      /\ disk'[s] = Trimmed(disk[s]) /\ mem' = mem
  <2>1. \A key \in Keys : Needed(s, key) =>
            \/ <<s, key>> \in released
            \/ key \in disk[s].meta.references /\ key \in disk[s].old.references
    BY DEF IInv, PinsOK, Kept
  <2> QED BY <1>0, <1>k, <1>3, <2>1, SalvageTrims
<1>5. AtWork'
  <2>1. /\ disk'[s].meta = disk[s].meta /\ disk'[s].old = disk[s].old /\ disk'[s].lines = disk[s].lines
        /\ LastLine(disk'[s]) = LastLine(disk[s]) /\ Whole(disk'[s])
    BY <1>1, <1>4, <1>k, TrimmedIs
  <2>2. Recovered(disk[s].meta, LastLine(disk[s]))' = Recovered(disk[s].meta, LastLine(disk[s]))
    BY <1>1, <2>1 DEF Recovered, SealedState
  <2>3. SalvageOK(s)' /\ Regained(s, m)'
    BY <1>1, <1>4, <1>k, <2>1, <2>2 DEF SalvageOK, Regained
  <2>4. Salvage(s, m)'
    BY <1>2, <2>1, <2>3 DEF Salvage
  <2> QED BY <1>2, <2>4, EffectIs DEF AtWork
<1> QED BY <1>1, <1>4, <1>5, StepFrame

LEMMA RecoveredIs ==
  ASSUME NEW m \in Metas, NEW n \in Nat, target \in BOOLEAN
  PROVE  /\ Recovered(m, n) \in Metas /\ Recovered(m, n).state \in {"Local", "Pending"}
         /\ Recovered(m, n).references = m.references /\ Recovered(m, n).records = n
<1>1. SealedState \in {"Local", "Pending"} /\ SealedState \in States
  BY DEF SealedState, States, Live, Sealed
<1> QED BY <1>1 DEF Recovered, Metas

LEMMA SalvageSeals ==
  ASSUME IInv, Step, NEW s \in Segments, NEW m, op.todo = Save(s, m), SalvageOK(s), Regained(s, m),
         Whole(disk[s])
  PROVE  IInv' /\ Grows
<1> DEFINE f == disk[s]
           g == [f EXCEPT !.meta = m]
           todo == <<Effect("remember", s, m)>>
<1>0. Head(op.todo) = Effect("describe", s, m) /\ Tail(op.todo) = todo
  BY SaveIs
<1>k. op.kind = "open" /\ f.meta.state = "Open" /\ f.old = f.meta /\ mem[s] = f.meta
      /\ m = Recovered(f.meta, LastLine(f)) /\ Whole(f)
  BY DEF SalvageOK, Regained
<1>1. /\ op.todo # <<>> /\ Goes /\ up /\ Head(op.todo).seg = s
      /\ f \in Files /\ FileOK(f) /\ ObjectOK(s, f)
      /\ disk \in [Segments -> Files] /\ mem \in [Segments -> Metas]
      /\ UNCHANGED <<health, up, target, pub, objects, sent, acked, released>>
      /\ op'.kind = op.kind
  BY <1>0, <1>k, SalvageAt
<1>2. disk' = [disk EXCEPT ![s] = g] /\ mem' = mem /\ active' = active
  <2>1. disk' = OnDisk(Head(op.todo)) /\ mem' = InMemory(Head(op.todo)) /\ active' = Opened(Head(op.todo))
    BY StepGoes DEF IInv
  <2> QED BY <2>1, <1>0, EffectIs, DidDescribe
<1>3. op'.todo = todo /\ op'.todo # <<>> /\ Head(op'.todo) = Effect("remember", s, m)
  <2>1. op'.todo = todo
    BY <1>0, <1>1 DEF Goes
  <2> QED BY <2>1, Two
<1> HIDE DEF todo
<1>4. /\ m \in Metas /\ m.state \in {"Local", "Pending"} /\ m.references = f.meta.references
      /\ m.records = LastLine(f)
  <2>1. f.meta \in Metas /\ LastLine(f) \in Nat
    BY <1>1, LastLineIs DEF Files
  <2> QED BY <1>k, <2>1, RecoveredIs DEF IInv, OpTypes
<1>5. /\ g \in Files /\ FileOK(g)
      /\ g.meta = m /\ g.old = f.old /\ g.data = f.data /\ g.synced = f.synced
      /\ g.lines = f.lines /\ g.linesSynced = f.linesSynced /\ g.entry = f.entry
  <2>1. Tells(m, f) /\ f.entry # "new"
    BY <1>k, <1>4 DEF Tells, Sealed, Whole
  <2> QED BY <1>1, <1>4, <2>1, DescribedOK
<1> HIDE DEF f, g
<1>6. ObjectOK(s, g)
  BY <1>1, <1>4, <1>5, <1>k DEF ObjectOK
<1>7. Secure(f) \subseteq Secure(g)
  <2>1. Prolongs(f, g)
    BY <1>1, <1>4, <1>5, <1>k DEF Prolongs, FileOK, Journaled, Files
  <2> QED BY <2>1, <1>1, <1>5, SecureGrows
<1>8. DiskInv'
  <2>1. s \in Noted
    BY <1>k DEF Noted, f
  <2> QED BY <1>1, <1>2, <1>5, <1>6, <1>7, <2>1, SalvageDisk DEF f
<1>9. disk'[s] = g
  BY <1>1, <1>2
<1>10. Works(s)'
  BY <1>3, EffectIs DEF Works
<1>11. Local(s)
  <2>1. \A key \in Keys : Needed(s, key) =>
            \/ <<s, key>> \in released
            \/ key \in g.meta.references /\ key \in g.old.references
    BY <1>4, <1>5, <1>k DEF IInv, PinsOK, Kept, f
  <2> QED BY <1>0, <1>2, <1>9, <1>10, <1>k, <2>1, SalvageQuiet
<1>12. AtWork'
  <2>1. SalvageOK(s)'
    BY <1>1, <1>k DEF SalvageOK
  <2>2. Salvage(s, m)'
    BY <1>2, <1>3, <1>4, <1>5, <1>9, <1>k, <2>1 DEF Salvage, todo
  <2> QED BY <2>2, <1>3, EffectIs DEF AtWork
<1>13. Others(s) /\ Grows
  BY <1>1, <1>2, <1>7, OthersOne, GrowsOne DEF f
<1> QED BY <1>1, <1>8, <1>11, <1>12, <1>13, StepFrame

LEMMA SalvageEnds ==
  ASSUME IInv, Step, NEW s \in Segments, NEW m, op.todo = <<Effect("remember", s, m)>>, SalvageOK(s),
         m.state \in {"Local", "Pending"}, m \in Metas, disk[s].meta = m,
         mem[s].references = m.references
  PROVE  IInv' /\ Grows
<1> DEFINE f == disk[s]
           g == disk'[s]
<1>0. Head(op.todo) = Effect("remember", s, m) /\ Tail(op.todo) = <<>>
  BY Two
<1>k. op.kind = "open"
  BY DEF SalvageOK
<1>1. /\ op.todo # <<>> /\ Goes /\ up /\ Head(op.todo).seg = s /\ op.todo # First
      /\ f \in Files /\ FileOK(f)
      /\ disk \in [Segments -> Files] /\ mem \in [Segments -> Metas]
      /\ Opening /\ ~ Serving /\ active = NoSegment /\ pub = NoUpload
      /\ ~ Writing /\ op.kind # "pin"
      /\ UNCHANGED <<health, up, target, pub, objects, sent, acked, released>>
      /\ op'.kind = op.kind
  BY <1>0, <1>k, SalvageAt
<1>2. /\ disk' = Sync(disk) /\ mem' = [mem EXCEPT ![s] = m] /\ active' = NoSegment
  <2>1. disk' = OnDisk(Head(op.todo)) /\ mem' = InMemory(Head(op.todo)) /\ active' = Opened(Head(op.todo))
    BY StepGoes DEF IInv
  <2>2. /\ OnDisk(Head(op.todo)) = Sync(disk)
        /\ InMemory(Head(op.todo)) = [mem EXCEPT ![s] = m]
        /\ Opened(Head(op.todo)) = IF m.state = "Open" THEN s ELSE IF s = active THEN NoSegment ELSE active
    BY <1>0, EffectIs, DidRemember
  <2> QED BY <2>1, <2>2, <1>1
<1>3. op'.todo = <<>>
  BY <1>0, <1>1 DEF Goes
<1>5. mem'[s] = m /\ \A t \in Segments \ {s} : mem'[t] = mem[t]
  BY <1>1, <1>2
<1>6. /\ DiskInv' /\ Others(s) /\ Grows /\ g.meta = m /\ g.old = m
  BY <1>1, <1>2, <1>5, SyncStep
<1> HIDE DEF f, g
<1>8. Local(s)
  <2>1. ASSUME NEW key \in Keys, Needed(s, key) PROVE Kept(s, key)'
    <3>1. Kept(s, key)
      BY <2>1 DEF IInv, PinsOK
    <3> QED BY <3>1, <1>1, <1>5, <1>6 DEF Kept, f, g
  <2>2. mem' \in [Segments -> Metas] /\ active' \in Segments \cup {NoSegment} /\ ActiveOK'
    BY <1>1, <1>2 DEF ActiveOK
  <2>3. Told(s)'
    BY <1>3, <1>5, <1>6 DEF Told, g
  <2>4. pub.at = "idle"
    BY <1>1 DEF NoUpload
  <2> QED BY <1>1, <1>2, <2>1, <2>2, <2>3, <2>4 DEF Local
<1>9. AtWork'
  BY <1>3 DEF AtWork
<1> QED BY <1>1, <1>6, <1>8, <1>9, StepFrame

LEMMA AlterStep ==
  ASSUME IInv, Step, NEW s, NEW m, Alter(s, m)
  PROVE  IInv' /\ Grows
<1>1. s \in Segments
  BY DEF Alter, AlterOK
<1> QED BY <1>1, AlterDescribes, AlterRemembers DEF Alter

LEMMA CreateStep ==
  ASSUME IInv, Step, NEW s, Create(s)
  PROVE  IInv' /\ Grows
<1>1. s \in Segments
  BY DEF Create, CreateOK
<1> QED BY <1>1, CreateFiles, CreateSyncs, CreateDescribes, CreateRemembers DEF Create

LEMMA WriteStep ==
  ASSUME IInv, Step, NEW s, NEW cs, Write(s, cs)
  PROVE  IInv' /\ Grows
<1>1. s \in Segments
  BY DEF Write, WriteOK
<1> QED BY <1>1, WriteWrites, WriteSyncs, WriteLines, WriteCounts DEF Write

LEMMA EraseStep ==
  ASSUME IInv, Step, NEW s, NEW m, Erase(s, m)
  PROVE  IInv' /\ (Grows \/ Drops)
<1>1. s \in Segments
  BY DEF Erase, EraseOK
<1> QED
  BY <1>1, EraseDescribes, EraseRemembers, EraseUnlinks, EraseSyncs, EraseForgets, EraseEnds DEF Erase

LEMMA SalvageStep ==
  ASSUME IInv, Step, NEW s, NEW m, Salvage(s, m)
  PROVE  IInv' /\ Grows
<1>1. s \in Segments
  BY DEF Salvage, SalvageOK
<1> QED
  BY <1>1, SalvageUnlinks, SalvageClears, SalvageBuries, SalvageDooms, SalvageCuts, SalvageSeals,
     SalvageEnds DEF Salvage

LEMMA EachStep ==
  ASSUME IInv, Step
  PROVE  IInv' /\ (Grows \/ Drops)
<1>1. op.todo # <<>>
  BY DEF Step
<1>2. \/ op.todo = First /\ op.kind = "open"
      \/ \E s, x : Alter(s, x) \/ Create(s) \/ Write(s, x) \/ Erase(s, x) \/ Salvage(s, x)
  BY <1>1 DEF IInv, AtWork
<1> QED BY <1>2, FirstSync, AlterStep, CreateStep, WriteStep, EraseStep, SalvageStep
-----------------------------------------------------------------------------
(* The other actions *)

LEMMA SameDisk ==
  ASSUME IInv, UNCHANGED <<disk, objects, acked>>, sent \subseteq sent', sent' \subseteq Captures,
         released \subseteq released', released' \subseteq Segments \X Keys
  PROVE  DiskInv' /\ Noted' = Noted /\ (UNCHANGED <<mem, up>> => PinsOK')
<1>1. DiskTypes'
  BY DEF IInv, DiskInv, DiskTypes
<1>2. Noted' = Noted
  BY DEF Noted
<1>3. NotedOK'
  BY <1>2 DEF IInv, DiskInv, NotedOK
<1>4. CapturesOK' /\ AckedOK'
  BY DEF IInv, DiskInv, CapturesOK, AckedOK
<1>5. ObjectsOK'
  <2>1. \A s \in Segments : ObjectOK(s, disk[s])'
    BY DEF IInv, DiskInv, ObjectsOK, ObjectOK
  <2> QED BY <2>1 DEF IInv, DiskInv, ObjectsOK
<1>6. \A s \in Segments : FileOK(disk'[s])
  BY DEF IInv, DiskInv
<1>7. ASSUME UNCHANGED <<mem, up>> PROVE PinsOK'
  <2>1. ASSUME NEW t \in Segments, NEW key \in Keys, Needed(t, key)' PROVE Kept(t, key)'
    <3>1. Needed(t, key)
      BY <2>1 DEF Needed
    <3>2. Kept(t, key)
      BY <3>1 DEF IInv, PinsOK
    <3> QED BY <3>2, <1>7 DEF Kept
  <2> QED BY <2>1 DEF PinsOK
<1> QED BY <1>1, <1>2, <1>3, <1>4, <1>5, <1>6, <1>7 DEF DiskInv

LEMMA NoUploadIs ==
  /\ NoUpload \in [segment : Segments \cup {NoSegment}, upload : BOOLEAN, at : Places]
  /\ NoUpload.at = "idle"
  BY DEF NoUpload, Places

(* The types, of a step that changes the operation. *)
Shaped == op = [kind |-> op.kind, todo |-> op.todo, batch |-> op.batch, rest |-> op.rest, pins |-> op.pins]

LEMMA TypesTurn ==
  ASSUME mem' \in [Segments -> Metas], active' \in Segments \cup {NoSegment}, up' \in BOOLEAN,
         target' \in BOOLEAN, health' \in {"ok", "poisoned", "failed"},
         Shaped', op'.kind \in Kinds, op'.batch \in Seq(Captures), op'.rest \in Seq(Captures),
         op'.pins \subseteq Segments,
         pub' \in [segment : Segments \cup {NoSegment}, upload : BOOLEAN, at : Places],
         pub'.at # "idle" => pub'.segment \in Segments,
         op'.kind = "idle" => op'.todo = <<>>,
         op'.kind \in {"cite", "append", "pin", "tick"} => health' # "failed"
  PROVE  OpTypes'
  BY DEF OpTypes, Shaped

LEMMA IdleIs ==
  /\ Idle.kind = "idle" /\ Idle.todo = <<>> /\ Idle.batch = <<>> /\ Idle.rest = <<>> /\ Idle.pins = {}
  /\ "idle" \in Kinds /\ <<>> \in Seq(Captures)
<1>1. <<>> \in Seq(Captures)
  OBVIOUS
<1> QED BY <1>1 DEF Idle, Kinds

(* The process ends. *)
LEMMA DownGoes ==
  ASSUME IInv, Down, DiskInv',
         \A t \in Segments : disk'[t].meta \in {disk[t].meta, disk[t].old}
                             /\ disk'[t].old \in {disk[t].meta, disk[t].old}
  PROVE  IInv'
<1>1. /\ up' = FALSE /\ mem' = [s \in Segments |-> NoMeta] /\ active' = NoSegment /\ op' = Idle
      /\ health' = "ok" /\ pub' = NoUpload /\ UNCHANGED <<target, objects, sent, acked, released>>
  BY DEF Down
<1>2. op'.kind = "idle" /\ op'.todo = <<>> /\ op'.batch = <<>> /\ op'.rest = <<>> /\ op'.pins = {}
  BY <1>1 DEF Idle
<1>3. PinsOK'
  <2>1. ASSUME NEW t \in Segments, NEW key \in Keys, Needed(t, key)' PROVE Kept(t, key)'
    <3>1. Needed(t, key)
      BY <2>1, <1>1 DEF Needed
    <3>2. Kept(t, key)
      BY <3>1 DEF IInv, PinsOK
    <3> QED BY <3>2, <1>1 DEF Kept
  <2> QED BY <2>1 DEF PinsOK
<1>4. OpTypes'
  <2>1. mem' \in [Segments -> Metas]
    BY <1>1, NoMetaIs
  <2>2. Shaped'
    BY <1>1, <1>2 DEF Idle, Shaped
  <2>3. target' \in BOOLEAN
    BY <1>1 DEF IInv, OpTypes
  <2> QED BY <1>1, <1>2, <2>1, <2>2, <2>3, NoUploadIs, IdleIs, TypesTurn
<1>5. DownOK' /\ ActiveOK' /\ ServingOK' /\ OpeningOK'
  BY <1>1 DEF DownOK, ActiveOK, ServingOK, Serving, OpeningOK, Opening
<1>6. PubOK'
  BY <1>1 DEF PubOK, NoUpload
<1>7. BatchOK' /\ CitesOK' /\ CatalogOK' /\ AtWork'
  BY <1>2 DEF BatchOK, CitesOK, CatalogOK, AtWork, Writing
<1> QED BY <1>3, <1>4, <1>5, <1>6, <1>7 DEF IInv

LEMMA EndsHere ==
  ASSUME IInv, Down, disk' = disk
  PROVE  IInv'
<1>1. UNCHANGED <<objects, sent, acked, released>>
  BY DEF Down
<1>2. sent \subseteq Captures /\ released \subseteq Segments \X Keys
  BY DEF IInv, DiskInv, DiskTypes
<1>3. DiskInv'
  BY <1>1, <1>2, SameDisk
<1> QED BY <1>3, DownGoes

LEMMA PowerLoses ==
  ASSUME IInv, PowerLost
  PROVE  IInv' /\ Grows /\ UNCHANGED <<objects, acked>>
<1>1. /\ Down /\ disk' \in [Segments -> UNION {Remains(disk[s]) : s \in Segments}]
      /\ \A s \in Segments : disk'[s] \in Remains(disk[s])
  BY DEF PowerLost
<1>2. UNCHANGED <<objects, sent, acked, released>>
  BY <1>1 DEF Down
<1>3. \A s \in Segments : Settles(disk[s], disk'[s])
  BY <1>1, DiskAt, RemainsSettle DEF IInv
<1>4. disk' \in [Segments -> Files]
  BY <1>1, <1>3 DEF Settles
<1>5. DiskInv'
  BY <1>2, <1>3, <1>4, AllSettle DEF IInv
<1>6. \A t \in Segments : disk'[t].meta \in {disk[t].meta, disk[t].old}
                          /\ disk'[t].old \in {disk[t].meta, disk[t].old}
  BY <1>3 DEF Settles
<1> QED BY <1>1, <1>2, <1>3, <1>5, <1>6, DownGoes DEF Grows, Settles

LEMMA OpenStarts ==
  ASSUME IInv, Open
  PROVE  IInv'
<1>1. /\ ~ up /\ up' = TRUE /\ mem' = [s \in Segments |-> disk[s].meta]
      /\ op' = [Idle EXCEPT !.kind = "open", !.todo = First]
      /\ UNCHANGED <<disk, active, health, target, pub, objects, sent, acked, released>>
  BY DEF Open, First
<1>2. /\ op'.kind = "open" /\ op'.todo = First /\ op'.batch = <<>> /\ op'.rest = <<>> /\ op'.pins = {}
      /\ op' = [kind |-> op'.kind, todo |-> op'.todo, batch |-> op'.batch, rest |-> op'.rest, pins |-> op'.pins]
  BY <1>1 DEF Idle
<1>3. /\ DiskInv /\ active = NoSegment /\ health = "ok" /\ pub = NoUpload
      /\ sent \subseteq Captures /\ released \subseteq Segments \X Keys
  BY <1>1 DEF IInv, DownOK, DiskInv, DiskTypes
<1>4. DiskInv'
  BY <1>1, <1>3, SameDisk
<1>5. \A s \in Segments : disk[s].meta \in Metas
  BY <1>3, DiskAt DEF Files
<1>6. PinsOK'
  <2>1. ASSUME NEW t \in Segments, NEW key \in Keys, Needed(t, key)' PROVE Kept(t, key)'
    <3>1. Needed(t, key)
      BY <2>1, <1>1 DEF Needed
    <3>2. Kept(t, key)
      BY <3>1 DEF IInv, PinsOK
    <3> QED BY <3>2, <1>1 DEF Kept
  <2> QED BY <2>1 DEF PinsOK
<1>7. OpTypes'
  <2>1. mem' \in [Segments -> Metas]
    BY <1>1, <1>5
  <2>2. Shaped' /\ "open" \in Kinds
    BY <1>1, <1>2 DEF Idle, Shaped, Kinds
  <2>3. target' \in BOOLEAN /\ active' \in Segments \cup {NoSegment}
    BY <1>1, <1>3 DEF IInv, OpTypes
  <2> QED BY <1>1, <1>2, <1>3, <2>1, <2>2, <2>3, NoUploadIs, IdleIs, TypesTurn
<1>8. DownOK' /\ ActiveOK' /\ PubOK'
  BY <1>1, <1>3 DEF DownOK, ActiveOK, PubOK, NoUpload
<1>9. ServingOK' /\ BatchOK' /\ CitesOK' /\ CatalogOK'
  BY <1>2 DEF ServingOK, Serving, BatchOK, CitesOK, CatalogOK, Writing
<1>10. OpeningOK' /\ AtWork'
  BY <1>1, <1>2, <1>3 DEF OpeningOK, Told, AtWork
<1> QED BY <1>4, <1>6, <1>7, <1>8, <1>9, <1>10 DEF IInv

(* The operation, the upload or the health changes, and neither the disk   *)
(* nor memory.                                                             *)
Continues == UNCHANGED <<disk, mem, active, up, target, objects, acked>>

LEMMA NewOp ==
  ASSUME IInv, up, Continues, sent \subseteq sent', sent' \subseteq Captures,
         released \subseteq released', released' \subseteq Segments \X Keys,
         op.kind # "open", op'.kind # "open",
         health' # "failed" => health # "failed" /\ \A s \in Segments : Works(s) => Agree(s),
         OpTypes', PubOK', BatchOK', CitesOK', CatalogOK', AtWork'
  PROVE  IInv'
<1>1. UNCHANGED <<disk, mem, active, up, target, objects, acked>>
  BY DEF Continues
<1>2. DiskInv' /\ PinsOK'
  BY <1>1, SameDisk
<1>3. DownOK' /\ ActiveOK' /\ OpeningOK'
  BY <1>1 DEF IInv, DownOK, ActiveOK, OpeningOK, Opening
<1>4. Serving
  BY DEF Serving
<1>5. \A s \in Segments : Basic(s)'
  BY <1>1, <1>4 DEF IInv, ServingOK, Basic
<1>6. ASSUME NEW s \in Segments, health' # "failed" PROVE Agree(s)'
  <2>1. Agree(s)
    BY <1>4, <1>6 DEF IInv, ServingOK
  <2> QED BY <2>1, <1>1 DEF Agree, SameRefs
<1>7. ServingOK'
  BY <1>5, <1>6 DEF ServingOK
<1> QED BY <1>2, <1>3, <1>7 DEF IInv

(* The operation ends. *)
LEMMA TurnsIdle ==
  ASSUME IInv, up, Continues, UNCHANGED <<sent, released>>, op' = Idle, op.kind # "open",
         health' \in {"ok", "poisoned", "failed"},
         health' # "failed" => health # "failed" /\ \A s \in Segments : Works(s) => Agree(s),
         pub' \in {pub, NoUpload}
  PROVE  IInv'
<1>1. UNCHANGED <<disk, mem, active, up, target, objects, acked>>
  BY DEF Continues
<1>2. /\ op'.kind = "idle" /\ op'.todo = <<>> /\ op'.batch = <<>> /\ op'.rest = <<>> /\ op'.pins = {}
      /\ op' = [kind |-> op'.kind, todo |-> op'.todo, batch |-> op'.batch, rest |-> op'.rest, pins |-> op'.pins]
  BY DEF Idle
<1>3. OpTypes' /\ PubOK'
  <2>1. pub' \in [segment : Segments \cup {NoSegment}, upload : BOOLEAN, at : Places]
        /\ (pub'.at # "idle" => pub' = pub)
    BY NoUploadIs DEF IInv, OpTypes
  <2>2. Shaped'
    BY <1>2 DEF Shaped
  <2>3. /\ mem' \in [Segments -> Metas] /\ active' \in Segments \cup {NoSegment} /\ up' \in BOOLEAN
        /\ target' \in BOOLEAN /\ (pub.at # "idle" => pub.segment \in Segments)
    BY <1>1 DEF IInv, OpTypes
  <2>4. OpTypes'
    BY <1>2, <2>1, <2>2, <2>3, IdleIs, TypesTurn
  <2> QED BY <1>1, <2>1, <2>4 DEF IInv, PubOK
<1>4. BatchOK' /\ CitesOK' /\ CatalogOK' /\ AtWork'
  BY <1>2 DEF BatchOK, CitesOK, CatalogOK, AtWork, Writing
<1>5. sent \subseteq Captures /\ released \subseteq Segments \X Keys
  BY DEF IInv, DiskInv, DiskTypes
<1> QED BY <1>2, <1>3, <1>4, <1>5, NewOp

(* Nobody works on a segment between two operations. *)
LEMMA AtRest ==
  ASSUME op.todo = <<>>
  PROVE  /\ \A s : ~ Works(s)
         /\ InFlight = {}
         /\ \A s, key : Given(s, key) => Kept(s, key)
  BY DEF Works, InFlight, Given

LEMMA Refuses ==
  ASSUME IInv, up, NEW h \in {"poisoned", "failed"}, Refuse(h), op.kind # "open",
         h # "failed" => health # "failed" /\ \A s \in Segments : Works(s) => Agree(s)
  PROVE  IInv' /\ UNCHANGED <<disk, objects, acked>>
<1>1. /\ op' = Idle /\ health' = h
      /\ UNCHANGED <<disk, mem, active, up, target, pub, objects, sent, acked, released>>
  BY DEF Refuse
<1>2. Continues
  BY <1>1 DEF Continues
<1> QED BY <1>1, <1>2, TurnsIdle

LEMMA EndsTurn ==
  ASSUME IInv, Ends
  PROVE  IInv'
<1>1. /\ op.kind \in {"tick", "publish", "remember", "release"} /\ op.todo = <<>> /\ op' = Idle
      /\ UNCHANGED <<disk, mem, active, health, up, target, pub, objects, sent, acked, released>>
  BY DEF Ends, Busy, Continue
<1>2. up
  <2>1. op # Idle
    BY <1>1 DEF Idle
  <2> QED BY <2>1 DEF IInv, DownOK, OpTypes
<1>3. Continues /\ op.kind # "open" /\ health' \in {"ok", "poisoned", "failed"}
  BY <1>1 DEF Continues, IInv, OpTypes
<1> QED BY <1>1, <1>2, <1>3, AtRest, TurnsIdle

(* An error of the disk.  The uploader leaves memory in agreement. *)
LEMMA UploaderAgrees ==
  ASSUME IInv, op.kind \in {"publish", "remember"}, health = "ok", NEW s \in Segments, Works(s)
  PROVE  Agree(s)
<1>0. op.todo # <<>> /\ Head(op.todo).seg = s /\ up
  <2>1. op # Idle
    BY DEF Idle
  <2> QED BY <2>1 DEF Works, IInv, DownOK
<1>1. PICK m : Alter(s, m) \/ Create(s) \/ Write(s, m) \/ Erase(s, m) \/ Salvage(s, m)
  BY <1>0 DEF IInv, AtWork
<1>2. ~ Create(s) /\ ~ Write(s, m) /\ ~ Erase(s, m) /\ ~ Salvage(s, m)
  BY DEF Create, CreateOK, Write, WriteOK, Erase, EraseOK, Salvage, SalvageOK
<1>3. CASE op.todo = Save(s, m) /\ AlterOK(s, m) /\ (health # "failed" => Agree(s))
  BY <1>3
<1>4. CASE op.todo = <<Effect("remember", s, m)>> /\ AlterOK(s, m) /\ disk[s].meta = m
  <2>1. mem[s].state = "Pending" /\ m.references = mem[s].references
        /\ disk[s].old.references = mem[s].references
        /\ disk[s].meta.state \in Sealed /\ disk[s].old.state \in Sealed
    BY <1>4 DEF AlterOK, Sealed
  <2> QED BY <1>4, <2>1 DEF Agree, SameRefs, Sealed
<1> QED BY <1>1, <1>2, <1>3, <1>4 DEF Alter

LEMMA DiskFailsTurn ==
  ASSUME IInv, DiskFails
  PROVE  IInv' /\ UNCHANGED <<disk, objects, acked>>
<1>1. op.todo # <<>>
  BY DEF DiskFails
<1>2. up
  <2>1. op # Idle
    BY <1>1 DEF Idle
  <2> QED BY <2>1 DEF IInv, DownOK
<1>3. CASE op.kind \in {"open", "finish"}
  <2>1. Down /\ disk' = disk
    BY <1>3 DEF DiskFails
  <2> QED BY <2>1, EndsHere DEF Down
<1>4. CASE op.kind \notin {"open", "finish"}
  <2>1. /\ op' = Idle
        /\ health' = IF op.kind \in {"publish", "remember"} /\ health = "ok"
                     THEN "poisoned" ELSE "failed"
        /\ pub' = IF op.kind \in {"publish", "remember"} THEN NoUpload ELSE pub
        /\ UNCHANGED <<disk, mem, active, up, target, objects, sent, acked, released>>
    BY <1>4 DEF DiskFails
  <2>2. Continues /\ op.kind # "open"
    BY <1>4, <2>1 DEF Continues
  <2>3. health' # "failed" => health # "failed" /\ \A s \in Segments : Works(s) => Agree(s)
    BY <2>1, UploaderAgrees
  <2> QED BY <1>2, <2>1, <2>2, <2>3, TurnsIdle
<1> QED BY <1>3, <1>4

LEMMA KilledTurn ==
  ASSUME IInv, Killed \/ Finished
  PROVE  IInv' /\ UNCHANGED <<disk, objects, acked>>
<1>1. Down /\ disk' = disk
  BY DEF Killed, Finished
<1> QED BY <1>1, EndsHere DEF Down
-----------------------------------------------------------------------------
(* Recovery, one segment after the other *)

LEMMA OpeningAt ==
  ASSUME IInv, Busy("open"), NEW s \in Segments
  PROVE  /\ up /\ op.todo = <<>> /\ op.kind = "open" /\ Opening
         /\ mem[s] = disk[s].meta /\ disk[s].old = disk[s].meta
         /\ disk[s] \in Files /\ FileOK(disk[s]) /\ ObjectOK(s, disk[s]) /\ disk[s].meta \in Metas
         /\ disk[s].meta.state = "None" => Recover(s) = IF Visible(s) THEN <<Effect("unlink", s, 0)>> ELSE <<>>
         /\ disk[s].meta.state = "Deleting" => Recover(s) = DeleteFiles(s)
         /\ disk[s].meta.state = "Open" =>
              Recover(s) = <<Effect("trim", s, 0)>> \o
                IF LastLine(disk[s]) = 0
                THEN Store(s, [disk[s].meta EXCEPT !.state = "Deleting", !.references = {}]) \o DeleteFiles(s)
                ELSE Save(s, Recovered(disk[s].meta, LastLine(disk[s])))
         /\ disk[s].meta.state \in Sealed => Recover(s) = <<>>
<1>1. op.todo = <<>> /\ op.kind = "open"
  BY DEF Busy
<1>2. up /\ Opening
  <2>1. op # Idle
    BY <1>1 DEF Idle
  <2> QED BY <1>1, <2>1 DEF IInv, DownOK, OpTypes, Opening
<1>3. Told(s)
  BY <1>1, <1>2, AtRest DEF IInv, OpeningOK
<1>4. op.todo # First
  BY <1>1 DEF First
<1>5. disk[s] \in Files /\ FileOK(disk[s]) /\ ObjectOK(s, disk[s]) /\ disk[s].meta \in Metas
  BY DiskAt DEF IInv, Files
<1>6. disk[s].meta.state = "None" => Recover(s) = IF Visible(s) THEN <<Effect("unlink", s, 0)>> ELSE <<>>
  BY DEF Recover
<1>7. disk[s].meta.state = "Deleting" => Recover(s) = DeleteFiles(s)
  BY DEF Recover
<1>8. disk[s].meta.state = "Open" =>
        Recover(s) = <<Effect("trim", s, 0)>> \o
          IF LastLine(disk[s]) = 0
          THEN Store(s, [disk[s].meta EXCEPT !.state = "Deleting", !.references = {}]) \o DeleteFiles(s)
          ELSE Save(s, Recovered(disk[s].meta, LastLine(disk[s])))
  BY DEF Recover
<1>9. disk[s].meta.state \in Sealed => Recover(s) = <<>>
  BY DEF Recover, Sealed
<1> QED BY <1>1, <1>2, <1>3, <1>4, <1>5, <1>6, <1>7, <1>8, <1>9 DEF Told

(* The recovery is over: memory is as the disk, and nothing is half done. *)
LEMMA OpensTurn ==
  ASSUME IInv, Opens
  PROVE  IInv'
<1>1. /\ Busy("open") /\ op' = Idle
      /\ UNCHANGED <<disk, mem, active, health, up, target, pub, objects, sent, acked, released>>
  BY DEF Opens
<1>2. ASSUME NEW s \in Segments PROVE Recover(s) = <<>>
  BY DEF Opens, Damaged
<1>3. /\ op'.kind = "idle" /\ op'.todo = <<>> /\ op'.batch = <<>> /\ op'.rest = <<>> /\ op'.pins = {}
      /\ Shaped'
  <2>1. Shaped'
    BY <1>1 DEF Idle, Shaped
  <2> QED BY <1>1, <2>1, IdleIs
<1>4. up
  <2>1. op # Idle
    BY <1>1 DEF Idle, Busy
  <2> QED BY <2>1 DEF IInv, DownOK
<1>5. sent \subseteq Captures /\ released \subseteq Segments \X Keys
  BY DEF IInv, DiskInv, DiskTypes
<1>6. DiskInv' /\ PinsOK'
  BY <1>1, <1>5, SameDisk
<1>7. OpTypes'
  BY <1>1, <1>3, IdleIs DEF IInv, OpTypes, Shaped
<1>8. ASSUME NEW s \in Segments PROVE Basic(s)' /\ Agree(s)'
  <2>1. /\ mem[s] = disk[s].meta /\ disk[s].old = disk[s].meta
        /\ disk[s] \in Files /\ FileOK(disk[s]) /\ ObjectOK(s, disk[s]) /\ disk[s].meta \in Metas
        /\ disk[s].meta.state = "Deleting" => Recover(s) = DeleteFiles(s)
        /\ disk[s].meta.state = "Open" =>
             Recover(s) = <<Effect("trim", s, 0)>> \o
               IF LastLine(disk[s]) = 0
               THEN Store(s, [disk[s].meta EXCEPT !.state = "Deleting", !.references = {}]) \o DeleteFiles(s)
               ELSE Save(s, Recovered(disk[s].meta, LastLine(disk[s])))
    BY <1>1, OpeningAt
  <2>2. disk[s].meta.state # "Open"
    BY <1>2, <2>1, TrimIs
  <2>3. disk[s].meta.state # "Deleting"
    BY <1>2, <2>1, DeleteIs
  <2>4. CASE disk[s].meta.state = "None"
    <3>1. disk[s].meta = NoMeta
      BY <2>1, <2>4 DEF FileOK, Tells
    <3> QED BY <1>1, <2>1, <3>1, NoMetaIs DEF Basic, Agree, Sealed
  <2>5. CASE disk[s].meta.state \in Sealed
    <3>1. Whole(disk[s]) /\ disk[s].meta.records = Len(disk[s].data)
      BY <2>1, <2>5 DEF FileOK, Tells
    <3>2. disk[s].meta.state = "Published" => objects[s] # <<>>
      BY <2>1 DEF ObjectOK
    <3> QED BY <1>1, <2>1, <2>2, <2>5, <3>1, <3>2 DEF Basic, Agree, SameRefs
  <2> QED BY <2>1, <2>2, <2>3, <2>4, <2>5, MetaSplit
<1>9. ServingOK'
  BY <1>8 DEF ServingOK
<1>10. DownOK' /\ ActiveOK' /\ OpeningOK' /\ PubOK'
  BY <1>1, <1>3, <1>4 DEF IInv, DownOK, ActiveOK, OpeningOK, Opening, PubOK
<1>11. BatchOK' /\ CitesOK' /\ CatalogOK' /\ AtWork'
  BY <1>3 DEF BatchOK, CitesOK, CatalogOK, AtWork, Writing
<1> QED BY <1>6, <1>7, <1>9, <1>10, <1>11 DEF IInv

(* Nothing was acknowledged in a segment of which nothing is secure. *)
LEMMA NobodyIn ==
  ASSUME IInv, NEW s \in Segments, Secure(disk[s]) = {}, objects[s] = <<>>
  PROVE  Loose(s) /\ \A r \in acked : r[2] # s
<1>1. ASSUME NEW r \in acked, r[2] = s PROVE FALSE
  <2>1. r[1] \in Secure(disk[s]) \/ r[1] \in ToSet(objects[s])
    BY <1>1 DEF IInv, DiskInv, AckedOK
  <2> QED BY <2>1, ToSetNone
<1>2. ASSUME NEW key \in Keys, Needed(s, key) PROVE FALSE
  <2>1. PICK r \in acked : \/ key = Catalog /\ r[2] = s /\ Cites[r[1]] = NoCapture
                           \/ key = Confirmed /\ Cites[r[1]] # NoCapture /\ <<Cites[r[1]], s>> \in acked
    BY <1>2 DEF Needed
  <2> QED BY <2>1, <1>1
<1> QED BY <1>1, <1>2 DEF Loose

(* What recovery does to segment s, as a step of AtWork. *)
LEMMA RecoverWorks ==
  ASSUME IInv, Busy("open"), NEW s \in Segments, Recover(s) # <<>>,
         UNCHANGED <<disk, mem, target, released, acked>>, op'.kind = op.kind, op'.todo = Recover(s)
  PROVE  AtWork' /\ op'.todo # First
<1> DEFINE f == disk[s]
           n == LastLine(f)
           m == Recovered(f.meta, n)
           gone == [f.meta EXCEPT !.state = "Deleting", !.references = {}]
<1>1. /\ up /\ op.todo = <<>> /\ op.kind = "open"
      /\ mem[s] = f.meta /\ f.old = f.meta
      /\ f \in Files /\ FileOK(f) /\ ObjectOK(s, f) /\ f.meta \in Metas
      /\ f.meta.state = "None" => Recover(s) = IF Visible(s) THEN <<Effect("unlink", s, 0)>> ELSE <<>>
      /\ f.meta.state = "Deleting" => Recover(s) = DeleteFiles(s)
      /\ f.meta.state = "Open" =>
           Recover(s) = <<Effect("trim", s, 0)>> \o
             IF n = 0 THEN Store(s, gone) \o DeleteFiles(s) ELSE Save(s, m)
      /\ f.meta.state \in Sealed => Recover(s) = <<>>
  BY OpeningAt
<1>2. Loose(s) => Loose(s)'
  BY DEF Loose, Needed
<1>3. ASSUME NEW do, NEW x, Head(op'.todo) = Effect(do, s, x) PROVE op'.todo # First
  <2>1. Head(First) = Effect("sync", NoSegment, 0)
    BY Two DEF First
  <2> QED BY <2>1, <1>3, EffectIs, SpoolAssumptions
<1>4. CASE f.meta.state = "None"
  <2>1. op'.todo = <<Effect("unlink", s, 0)>> /\ Head(op'.todo) = Effect("unlink", s, 0)
    BY <1>1, <1>4, Two
  <2>2. f.meta = NoMeta
    BY <1>1, <1>4 DEF FileOK, Tells
  <2>3. Told(s)' /\ SalvageOK(s)'
    BY <1>1 DEF Told, SalvageOK
  <2>4. Salvage(s, 0)'
    BY <2>1, <2>2, <2>3 DEF Salvage
  <2>5. op'.todo # First
    BY <1>3, <2>1
  <2> QED BY <2>1, <2>4, <2>5, EffectIs DEF AtWork
<1>5. CASE f.meta.state = "Deleting"
  <2>1. op'.todo = DeleteFiles(s) /\ Head(op'.todo) = Effect("unlink", s, 0)
    BY <1>1, <1>5, DeleteIs
  <2>2. Loose(s)
    <3>1. f.meta.references = {}
      BY <1>1, <1>5 DEF FileOK, Tells
    <3>2. \A key : Kept(s, key) => <<s, key>> \in released
      BY <3>1 DEF Kept
    <3> HIDE DEF f
    <3> QED BY <3>2 DEF Loose, IInv, PinsOK
  <2>3. EraseOK(s)' /\ Doomed(s)'
    BY <1>1, <1>2, <1>5, <2>2 DEF EraseOK, Doomed
  <2>4. Erase(s, 0)'
    BY <2>1, <2>3 DEF Erase
  <2>5. op'.todo # First
    BY <1>3, <2>1
  <2> QED BY <2>1, <2>4, <2>5, EffectIs DEF AtWork
<1>6. CASE f.meta.state = "Open" /\ n = 0
  <2> DEFINE t == <<Effect("trim", s, 0)>> \o (Store(s, gone) \o DeleteFiles(s))
  <2>1. op'.todo = t
    BY <1>1, <1>6
  <2>2. Head(t) = Effect("trim", s, 0) /\ Len(t) > 1 /\ t[2].arg = gone
    <3> DEFINE a == Effect("trim", s, 0)
               d == Effect("describe", s, gone)
               r == Store(s, gone) \o DeleteFiles(s)
    <3> HIDE DEF gone
    <3>1. PICK S : r \in Seq(S)
      BY BuryIs
    <3>2. r # <<>> /\ Len(r) > 0 /\ Head(r) = d /\ d.arg = gone
      <4>1. r # <<>> /\ Head(r) = d /\ Len(r) = 6
        BY BuryIs, Zenon
      <4>2. d.arg = gone
        BY DEF Effect
      <4> HIDE DEF r, d
      <4> QED BY <4>1, <4>2
    <3> HIDE DEF a, d, r
    <3>3. /\ Head(<<a>> \o r) = a /\ Len(<<a>> \o r) = 1 + Len(r) /\ (<<a>> \o r)[2] = Head(r)
      BY <3>1, <3>2, Joined
    <3>4. t[2] = d
      BY <3>2, <3>3 DEF t, r, a
    <3>5. Head(t) = a /\ Len(t) > 1
      BY <3>1, <3>2, <3>3 DEF t, r, a
    <3> QED BY <3>2, <3>4, <3>5 DEF a
  <2>3. Grave(gone)
    BY <1>1 DEF Grave, Metas, States
  <2>4. f.lines = <<>>
    BY <1>1, <1>6, LastLineIs
  <2>5. Loose(s)
    <3>1. f.linesSynced = 0
      BY <1>1, <2>4 DEF FileOK, Journaled, Files
    <3>2. Secure(f) = {}
      BY <3>1 DEF Secure
    <3>3. objects[s] = <<>>
      BY <1>1, <1>6 DEF ObjectOK
    <3> QED BY <3>2, <3>3, NobodyIn
  <2>6. Unused(s)' /\ SalvageOK(s)'
    BY <1>1, <1>2, <1>6, <2>4, <2>5 DEF Unused, SalvageOK
  <2> HIDE DEF t, gone
  <2>7. Later' = gone
    BY <2>1, <2>2 DEF Later
  <2>8. op'.todo = <<Effect("trim", s, 0)>> \o (Store(s, Later') \o DeleteFiles(s))
    BY <2>1, <2>7 DEF t
  <2>9. Salvage(s, 0)'
    BY <2>3, <2>6, <2>7, <2>8 DEF Salvage
  <2>10. Head(op'.todo) = Effect("trim", s, 0) /\ op'.todo # First
    BY <1>3, <2>1, <2>2
  <2> QED BY <2>9, <2>10, EffectIs DEF AtWork
<1>7. CASE f.meta.state = "Open" /\ n # 0
  <2> DEFINE t == <<Effect("trim", s, 0)>> \o Save(s, m)
  <2>1. op'.todo = t
    BY <1>1, <1>7
  <2>2. Head(t) = Effect("trim", s, 0) /\ Len(t) > 1 /\ t[2].arg = m
    <3> DEFINE a == Effect("trim", s, 0)
               d == Effect("describe", s, m)
               r == Save(s, m)
    <3> HIDE DEF m
    <3>1. PICK S : r \in Seq(S)
      BY SaveIs
    <3>2. r # <<>> /\ Len(r) > 0 /\ Head(r) = d /\ d.arg = m
      <4>1. r # <<>> /\ Head(r) = d /\ Len(r) = 2
        BY SaveIs, Zenon
      <4>2. d.arg = m
        BY DEF Effect
      <4> HIDE DEF r, d
      <4> QED BY <4>1, <4>2
    <3> HIDE DEF a, d, r
    <3>3. /\ Head(<<a>> \o r) = a /\ Len(<<a>> \o r) = 1 + Len(r) /\ (<<a>> \o r)[2] = Head(r)
      BY <3>1, <3>2, Joined
    <3>4. t[2] = d
      BY <3>2, <3>3 DEF t, r, a
    <3>5. Head(t) = a /\ Len(t) > 1
      BY <3>1, <3>2, <3>3 DEF t, r, a
    <3> QED BY <3>2, <3>4, <3>5 DEF a
  <2>3. f.lines # <<>>
    BY <1>1, <1>7, LastLineIs
  <2>4. Recovered(disk[s].meta, LastLine(disk[s]))' = Recovered(disk[s].meta, LastLine(disk[s]))
    BY DEF Recovered, SealedState, LastLine
  <2>5. SalvageOK(s)' /\ disk'[s].meta.state = "Open" /\ disk'[s].old = disk'[s].meta
        /\ mem'[s] = disk'[s].meta /\ disk'[s].lines # <<>>
        /\ m = Recovered(disk[s].meta, LastLine(disk[s]))'
    BY <1>1, <1>7, <2>3, <2>4 DEF SalvageOK
  <2> HIDE DEF t, m
  <2>7. Later' = m
    BY <2>1, <2>2 DEF Later
  <2>8. op'.todo = <<Effect("trim", s, 0)>> \o Save(s, Later')
    BY <2>1, <2>7 DEF t
  <2>9. Salvage(s, 0)'
    <3>1. Regained(s, Later)'
      BY <2>5, <2>7 DEF Regained
    <3> QED BY <2>5, <2>8, <3>1 DEF Salvage
  <2>10. Head(op'.todo) = Effect("trim", s, 0) /\ op'.todo # First
    BY <1>3, <2>1, <2>2
  <2> QED BY <2>9, <2>10, EffectIs DEF AtWork
<1> QED BY <1>1, <1>4, <1>5, <1>6, <1>7, MetaSplit

LEMMA RecoverTurn ==
  ASSUME IInv, RecoverNext
  PROVE  IInv'
<1>1. /\ Busy("open")
      /\ UNCHANGED <<disk, mem, active, health, up, target, pub, objects, sent, acked, released>>
  BY DEF RecoverNext
<1>2. PICK s \in Segments : Recover(s) # <<>> /\ op' = [op EXCEPT !.todo = Recover(s)]
  BY DEF RecoverNext, Damaged
<1>3. /\ op'.kind = op.kind /\ op'.todo = Recover(s) /\ op'.batch = op.batch /\ op'.rest = op.rest
      /\ op'.pins = op.pins /\ Shaped' /\ op.kind = "open" /\ op.todo = <<>>
  BY <1>1, <1>2 DEF IInv, OpTypes, Shaped, Busy
<1>4. AtWork' /\ op'.todo # First
  BY <1>1, <1>2, <1>3, RecoverWorks
<1>5. sent \subseteq Captures /\ released \subseteq Segments \X Keys
  BY DEF IInv, DiskInv, DiskTypes
<1>6. DiskInv' /\ PinsOK'
  BY <1>1, <1>5, SameDisk
<1>7. OpTypes'
  BY <1>1, <1>3 DEF IInv, OpTypes, Shaped
<1>8. \A t \in Segments : Told(t)'
  BY <1>1, OpeningAt DEF Told
<1>9. ServingOK' /\ OpeningOK'
  BY <1>1, <1>3, <1>8 DEF IInv, ServingOK, Serving, OpeningOK, Opening
<1>10. DownOK' /\ ActiveOK' /\ PubOK'
  <2>1. up
    BY <1>1, <1>2, OpeningAt
  <2> QED BY <1>1, <2>1 DEF IInv, DownOK, ActiveOK, PubOK
<1>11. BatchOK' /\ CitesOK' /\ CatalogOK'
  BY <1>3 DEF BatchOK, CitesOK, CatalogOK, Writing
<1> QED BY <1>4, <1>6, <1>7, <1>9, <1>10, <1>11 DEF IInv
-----------------------------------------------------------------------------
(* New operations of the writing task and of consumers *)

(* Between two effects of an operation that serves, and at its end. *)
LEMMA ServingAt ==
  ASSUME IInv, up, op.kind # "open", op.todo = <<>>, NEW s \in Segments
  PROVE  /\ Basic(s) /\ (health # "failed" => Agree(s))
         /\ disk[s] \in Files /\ FileOK(disk[s]) /\ ObjectOK(s, disk[s]) /\ mem[s] \in Metas
         /\ \A key \in Keys : Needed(s, key) => <<s, key>> \in released \/ key \in mem[s].references
         /\ \A t : ~ Works(t)
         /\ sent \subseteq Captures /\ released \subseteq Segments \X Keys
<1>1. Serving /\ ~ Works(s)
  BY AtRest DEF Serving
<1>2. Basic(s) /\ (health # "failed" => Agree(s))
  BY <1>1 DEF IInv, ServingOK
<1>3. disk[s] \in Files /\ FileOK(disk[s]) /\ ObjectOK(s, disk[s]) /\ mem[s] \in Metas
  BY DiskAt DEF IInv, OpTypes
<1>4. \A key \in Keys : Needed(s, key) => <<s, key>> \in released \/ key \in mem[s].references
  BY DEF IInv, PinsOK, Kept
<1> QED BY <1>2, <1>3, <1>4, AtRest DEF IInv, DiskInv, DiskTypes

LEMMA AlterFacts ==
  ASSUME IInv, up, op.kind # "open", op.todo = <<>>, NEW s \in Segments, mem[s].state \in Live,
         \/ health # "failed" \/ mem[s].state = "Pending"
         \/ mem[s].references # {} /\ mem[s].state # "Open"
  PROVE  /\ Whole(disk[s]) /\ mem[s].records = Len(disk[s].data)
         /\ disk[s].meta.state \in Live /\ disk[s].old.state \in Live
         /\ mem[s].state \in Sealed => disk[s].meta.state \in Sealed /\ disk[s].old.state \in Sealed
         /\ mem[s].state = "Open" => disk[s].old.state = "Open"
         /\ health # "failed" => disk[s].old.references = mem[s].references
<1>1. Basic(s) /\ (health # "failed" => Agree(s))
  BY ServingAt
<1>2. CASE mem[s].state = "Open"
  <2>1. Agree(s) /\ "Open" # "None" /\ "Open" \notin Sealed /\ "Open" \in Live
    BY <1>1, <1>2 DEF Sealed, Live
  <2> QED BY <1>2, <2>1 DEF Agree, SameRefs
<1>3. CASE mem[s].state \in Sealed
  <2>1. mem[s].state # "None" /\ mem[s].state # "Open" /\ Sealed \subseteq Live
    BY <1>3 DEF Sealed, Live
  <2>2. Whole(disk[s]) /\ mem[s].records = Len(disk[s].data)
    BY <1>1, <1>3 DEF Basic
  <2>3. disk[s].meta.state \in Sealed /\ disk[s].old.state \in Sealed
    <3>1. CASE health # "failed"
      BY <1>1, <2>1, <3>1 DEF Agree
    <3>2. CASE mem[s].references # {} \/ mem[s].state = "Pending"
      BY <1>1, <1>3, <3>2 DEF Basic
    <3> QED BY <3>1, <3>2
  <2>4. health # "failed" => disk[s].old.references = mem[s].references
    BY <1>1, <2>1 DEF Agree, SameRefs
  <2> QED BY <2>1, <2>2, <2>3, <2>4
<1> QED BY <1>2, <1>3 DEF Live

LEMMA NewTypes ==
  ASSUME IInv, Continues, health' = health, pub' \in {pub, NoUpload},
         Shaped', op'.kind \in Kinds, op'.kind # "idle", op'.batch \in Seq(Captures),
         op'.rest \in Seq(Captures), op'.pins \subseteq Segments,
         op'.kind \in {"cite", "append", "pin", "tick"} => health # "failed"
  PROVE  OpTypes' /\ PubOK'
<1>1. UNCHANGED <<mem, active, up, target>>
  BY DEF Continues
<1>2. pub' \in [segment : Segments \cup {NoSegment}, upload : BOOLEAN, at : Places]
      /\ (pub'.at # "idle" => pub' = pub)
  BY NoUploadIs DEF IInv, OpTypes
<1>3. /\ mem' \in [Segments -> Metas] /\ active' \in Segments \cup {NoSegment} /\ up' \in BOOLEAN
      /\ target' \in BOOLEAN /\ (pub.at # "idle" => pub.segment \in Segments)
      /\ health' \in {"ok", "poisoned", "failed"}
  BY <1>1 DEF IInv, OpTypes
<1>4. OpTypes'
  BY <1>2, <1>3, TypesTurn
<1> QED BY <1>1, <1>2, <1>4 DEF IInv, PubOK

(* An operation that puts descriptor m for that of segment s. *)
Alters(s, m) ==
  /\ s \in Segments /\ m \in Metas /\ mem[s].state \in Live /\ m.state \in Live
  /\ m.records = mem[s].records
  /\ \/ health # "failed" \/ mem[s].state = "Pending"
     \/ mem[s].references # {} /\ mem[s].state # "Open"
  /\ op'.todo = Save(s, m) /\ op'.kind \in Kinds \ {"open", "idle"}
  /\ \/ m.state = mem[s].state
     \/ mem[s].state = "Open" /\ m.state \in {"Local", "Pending"}
     \/ mem[s].state = "Pending" /\ m.state = "Published" /\ pub' = NoUpload /\ objects[s] # <<>>
  /\ op'.kind \in {"publish", "remember"} => mem[s].state = "Pending" /\ m.references = mem[s].references
  /\ op'.kind # "release" => mem[s].references \subseteq m.references
  /\ \A key \in mem[s].references : key \in m.references \/ <<s, key>> \in released'

LEMMA AltersWork ==
  ASSUME IInv, up, op.kind # "open", op.todo = <<>>, Continues, health' = health,
         released \subseteq released', NEW s, NEW m, Alters(s, m)
  PROVE  AtWork' /\ Works(s)' /\ Head(op'.todo) = Effect("describe", s, m)
<1>1. UNCHANGED <<disk, mem, up, objects, acked>>
  BY DEF Continues
<1>2. /\ s \in Segments /\ m \in Metas /\ mem[s].state \in Live /\ m.state \in Live
      /\ op'.todo = Save(s, m) /\ op'.kind \in Kinds \ {"open", "idle"}
      /\ m.records = mem[s].records
  BY DEF Alters
<1>3. /\ Whole(disk[s]) /\ mem[s].records = Len(disk[s].data)
      /\ disk[s].meta.state \in Live /\ disk[s].old.state \in Live
      /\ mem[s].state \in Sealed => disk[s].meta.state \in Sealed /\ disk[s].old.state \in Sealed
      /\ mem[s].state = "Open" => disk[s].old.state = "Open"
      /\ health # "failed" => disk[s].old.references = mem[s].references
  BY <1>2, AlterFacts DEF Alters
<1>4. \A key \in Keys : Needed(s, key)' => <<s, key>> \in released' \/ key \in m.references
  <2>1. ASSUME NEW key \in Keys, Needed(s, key)'
        PROVE  <<s, key>> \in released' \/ key \in m.references
    <3>1. Needed(s, key)
      BY <1>1, <2>1 DEF Needed
    <3>2. <<s, key>> \in released \/ key \in mem[s].references
      BY <1>2, <3>1, ServingAt
    <3> QED BY <3>2 DEF Alters
  <2> QED BY <2>1
<1>5. AlterOK(s, m)'
  BY <1>1, <1>2, <1>3, <1>4 DEF AlterOK, Alters
<1>6. health' # "failed" => Agree(s)'
  <2>1. ASSUME health # "failed" PROVE Agree(s)
    BY <2>1, <1>2, ServingAt
  <2> QED BY <2>1, <1>1 DEF Agree, SameRefs
<1>7. Alter(s, m)'
  BY <1>2, <1>5, <1>6 DEF Alter
<1>8. op'.todo # <<>> /\ Head(op'.todo) = Effect("describe", s, m)
  BY <1>2, SaveIs
<1> QED BY <1>7, <1>8, EffectIs DEF AtWork, Works

LEMMA NoBatch ==
  ASSUME op'.kind \notin {"cite", "append", "pin"}
  PROVE  BatchOK' /\ CitesOK' /\ CatalogOK'
  BY DEF BatchOK, CitesOK, CatalogOK, Writing

(* ... and that no capture waits for. *)
LEMMA AltersTurn ==
  ASSUME IInv, up, op.kind # "open", op.todo = <<>>, Continues, UNCHANGED <<health, sent>>,
         released \subseteq released', released' \subseteq Segments \X Keys,
         NEW s, NEW m, Alters(s, m), pub' \in {pub, NoUpload},
         Shaped', op'.batch = <<>>, op'.rest = <<>>, op'.pins = {},
         op'.kind \in {"tick", "finish", "publish", "remember", "release"},
         op'.kind = "tick" => health # "failed"
  PROVE  IInv'
<1>1. op'.kind \in Kinds /\ op'.kind # "idle" /\ op'.kind # "open"
  BY DEF Kinds
<1>2. OpTypes' /\ PubOK'
  BY <1>1, IdleIs, NewTypes
<1>3. AtWork'
  BY AltersWork
<1>4. BatchOK' /\ CitesOK' /\ CatalogOK'
  BY NoBatch
<1>5. sent \subseteq Captures /\ sent' = sent
  BY DEF IInv, DiskInv, DiskTypes
<1> QED BY <1>1, <1>2, <1>3, <1>4, <1>5, AtRest, NewOp

(* The state of a segment that is sealed. *)
LEMMA SealAlters ==
  ASSUME IInv, up, op.kind # "open", op.todo = <<>>, active # NoSegment, health # "failed",
         op'.todo = Seal(active), op'.kind \in {"tick", "finish", "append"}
  PROVE  \E m : Alters(active, m) /\ op'.todo = Save(active, m)
<1> DEFINE m == [mem[active] EXCEPT !.state = SealedState]
<1>1. active \in Segments /\ mem[active].state = "Open" /\ mem[active] \in Metas /\ target \in BOOLEAN
  BY DEF IInv, OpTypes, ActiveOK
<1>2. SealedState \in {"Local", "Pending"} /\ SealedState \in Live /\ SealedState \in States
  BY <1>1 DEF SealedState, Live, Sealed, States
<1>3. /\ m \in Metas /\ m.state = SealedState /\ m.references = mem[active].references
      /\ m.records = mem[active].records
  BY <1>1, <1>2 DEF Metas
<1>4. op'.todo = Save(active, m)
  BY DEF Seal
<1> HIDE DEF m
<1>5. "Open" \in Live /\ op'.kind \in Kinds \ {"open", "idle"}
  BY DEF Live, Kinds
<1>6. Alters(active, m)
  BY <1>1, <1>2, <1>3, <1>4, <1>5 DEF Alters
<1> QED BY <1>4, <1>6

LEMMA FreeIs ==
  ASSUME IInv, Free
  PROVE  up /\ op.kind = "idle" /\ op.kind # "open" /\ op.todo = <<>>
  BY DEF Free, IInv, OpTypes

LEMMA TickTurn ==
  ASSUME IInv, Tick
  PROVE  IInv' /\ UNCHANGED <<disk, objects, acked>>
<1>1. up /\ op.kind # "open" /\ op.todo = <<>> /\ health # "failed" /\ active # NoSegment
  BY FreeIs DEF Tick
<1>2. CASE health = "poisoned"
  <2>1. Refuse("failed")
    BY <1>2 DEF Tick
  <2> QED BY <1>1, <2>1, Refuses
<1>3. CASE health # "poisoned"
  <2>1. op' = [Idle EXCEPT !.kind = "tick", !.todo = Seal(active)]
        /\ UNCHANGED <<disk, mem, active, health, up, target, pub, objects, sent, acked, released>>
    BY <1>3 DEF Tick, Continue
  <2>2. op'.kind = "tick" /\ op'.todo = Seal(active) /\ op'.batch = <<>> /\ op'.rest = <<>> /\ op'.pins = {}
        /\ Shaped'
    BY <2>1 DEF Idle, Shaped
  <2>3. PICK m : Alters(active, m)
    BY <1>1, <2>2, SealAlters
  <2>4. released \subseteq Segments \X Keys /\ Continues
    BY <2>1 DEF IInv, DiskInv, DiskTypes, Continues
  <2>5. IInv'
    BY <1>1, <2>1, <2>2, <2>3, <2>4, AltersTurn
  <2> QED BY <2>1, <2>5
<1> QED BY <1>2, <1>3

LEMMA FinishTurn ==
  ASSUME IInv, Finish
  PROVE  IInv' /\ UNCHANGED <<disk, objects, acked>>
<1>1. up /\ op.kind # "open" /\ op.todo = <<>>
  BY FreeIs DEF Finish
<1>2. UNCHANGED <<disk, mem, active, health, up, target, pub, objects, sent, acked, released>>
  BY DEF Finish
<1>3. released \subseteq Segments \X Keys /\ sent \subseteq Captures /\ Continues
  BY <1>2 DEF IInv, DiskInv, DiskTypes, Continues
<1>4. op'.kind = "finish" /\ op'.batch = <<>> /\ op'.rest = <<>> /\ op'.pins = {} /\ Shaped'
      /\ op'.todo = IF health = "ok" /\ active # NoSegment THEN Seal(active) ELSE <<>>
  BY DEF Finish, Idle, Shaped
<1>5. CASE health = "ok" /\ active # NoSegment
  <2>1. op'.todo = Seal(active)
    BY <1>4, <1>5
  <2>2. PICK m : Alters(active, m)
    BY <1>1, <1>4, <1>5, <2>1, SealAlters
  <2>3. IInv'
    BY <1>1, <1>2, <1>3, <1>4, <2>2, AltersTurn
  <2> QED BY <1>2, <2>3
<1>6. CASE ~ (health = "ok" /\ active # NoSegment)
  <2>1. op'.todo = <<>>
    BY <1>4, <1>6
  <2>2. "finish" \in Kinds /\ op'.kind # "idle" /\ op'.kind # "open"
    BY <1>4 DEF Kinds
  <2>3. OpTypes' /\ PubOK'
    BY <1>2, <1>3, <1>4, <2>2, IdleIs, NewTypes
  <2>4. BatchOK' /\ CitesOK' /\ CatalogOK'
    BY <1>4, NoBatch
  <2>5. AtWork'
    BY <2>1 DEF AtWork
  <2>6. IInv'
    BY <1>1, <1>2, <1>3, <2>2, <2>3, <2>4, <2>5, AtRest, NewOp
  <2> QED BY <1>2, <2>6
<1> QED BY <1>5, <1>6

LEMMA ReleaseTurn ==
  ASSUME IInv, NEW s \in Segments, NEW key, Release(s, key)
  PROVE  IInv' /\ UNCHANGED <<disk, objects, acked>>
<1>1. /\ up /\ op.kind # "open" /\ op.todo = <<>> /\ Stored(s)
      /\ mem[s].state \notin {"None", "Deleting"} /\ key \in mem[s].references
      /\ released' = released \cup {<<s, key>>}
      /\ UNCHANGED <<disk, mem, active, health, up, target, pub, objects, sent, acked>>
  BY FreeIs DEF Release
<1> DEFINE m == [mem[s] EXCEPT !.references = @ \ {key}]
<1>2. op'.kind = "release" /\ op'.batch = <<>> /\ op'.rest = <<>> /\ op'.pins = {} /\ Shaped'
      /\ op'.todo = Save(s, m)
  BY DEF Release, Idle, Shaped
<1>3. mem[s] \in Metas /\ Basic(s) /\ released \subseteq Segments \X Keys
  BY <1>1, ServingAt
<1>4. /\ m \in Metas /\ m.state = mem[s].state /\ m.records = mem[s].records
      /\ m.references = mem[s].references \ {key}
  BY <1>3 DEF Metas
<1>5. key \in Keys
  BY <1>1, <1>3 DEF Metas
<1>6. mem[s].state \in Live /\ mem[s].state # "Open"
  <2>1. mem[s].state # "Open"
    BY <1>1, <1>3 DEF Stored, Basic
  <2> QED BY <2>1, <1>1, <1>3, MetaSplit DEF Live
<1>7. Continues /\ released \subseteq released' /\ released' \subseteq Segments \X Keys
  BY <1>1, <1>3, <1>5 DEF Continues
<1> HIDE DEF m
<1>8. "release" \in Kinds \ {"open", "idle"}
  BY DEF Kinds
<1>9. Alters(s, m)
  BY <1>1, <1>2, <1>4, <1>6, <1>8 DEF Alters
<1>10. IInv'
  BY <1>1, <1>2, <1>7, <1>9, AltersTurn
<1> QED BY <1>1, <1>10

LEMMA GcTurn ==
  ASSUME IInv, NEW s \in Segments, Gc(s)
  PROVE  IInv' /\ UNCHANGED <<disk, objects, acked>>
<1>1. /\ up /\ op.kind # "open" /\ op.todo = <<>> /\ health # "failed"
      /\ mem[s].state = "Published" /\ mem[s].references = {}
  <2>1. op.todo = <<>> /\ op.kind # "open" /\ health # "failed" /\ up
    <3>1. CASE Busy("tick")
      <4>1. op # Idle /\ op.kind = "tick" /\ op.todo = <<>>
        BY <3>1 DEF Busy, Idle
      <4> QED BY <4>1 DEF IInv, DownOK, OpTypes
    <3>2. CASE Free /\ health # "failed"
      BY <3>2, FreeIs
    <3> QED BY <3>1, <3>2 DEF Gc
  <2> QED BY <2>1 DEF Gc, Collectable
<1>m. PICK m : m = [mem[s] EXCEPT !.state = "Deleting"]
  OBVIOUS
<1>2. op' = [Idle EXCEPT !.kind = "tick", !.todo = Collect(s)]
      /\ UNCHANGED <<disk, mem, active, health, up, target, pub, objects, sent, acked, released>>
  BY DEF Gc, Continue
<1>3. op'.kind = "tick" /\ op'.batch = <<>> /\ op'.rest = <<>> /\ op'.pins = {} /\ Shaped'
      /\ op'.todo = Save(s, m) \o DeleteFiles(s)
  BY <1>2, <1>m DEF Idle, Shaped, Collect
<1>4. /\ mem[s] \in Metas /\ Agree(s) /\ released \subseteq Segments \X Keys /\ sent \subseteq Captures
      /\ \A key \in Keys : Needed(s, key) => <<s, key>> \in released \/ key \in mem[s].references
  BY <1>1, ServingAt
<1>5. m \in Metas /\ m.state = "Deleting" /\ m.references = {}
  BY <1>1, <1>4, <1>m DEF Metas, States
<1>6. Loose(s)
  BY <1>1, <1>4 DEF Loose
<1>7. EraseOK(s)' /\ Condemned(s, m)' /\ Agree(s)'
  <2>1. Loose(s)'
    BY <1>2, <1>6 DEF Loose, Needed
  <2>2. Agree(s)'
    BY <1>2, <1>4 DEF Agree, SameRefs
  <2> QED BY <1>1, <1>2, <1>3, <1>5, <2>1, <2>2 DEF EraseOK, Condemned
<1>8. Erase(s, m)'
  BY <1>3, <1>7 DEF Erase
<1>9. Head(op'.todo) = Effect("describe", s, m)
  BY <1>3, CollectIs
<1>10. AtWork'
  BY <1>8, <1>9, EffectIs DEF AtWork
<1>11. Continues /\ "tick" \in Kinds
  BY <1>2 DEF Continues, Kinds
<1>12. OpTypes' /\ PubOK'
  BY <1>1, <1>2, <1>3, <1>11, IdleIs, NewTypes
<1>13. BatchOK' /\ CitesOK' /\ CatalogOK'
  BY <1>3, NoBatch
<1>14. IInv'
  BY <1>1, <1>2, <1>3, <1>4, <1>10, <1>11, <1>12, <1>13, AtRest, NewOp
<1> QED BY <1>2, <1>14
-----------------------------------------------------------------------------
(* New operations of the writing task: the batch *)

LEMMA WritingAt ==
  ASSUME IInv, Writing, op.todo = <<>>
  PROVE  /\ up /\ op.kind # "open" /\ health # "failed"
         /\ ToSet(op.batch) \subseteq sent /\ InFlight = {}
         /\ op.batch \in Seq(Captures) /\ op.rest \in Seq(Captures) /\ op.pins \subseteq Segments
         /\ \A c \in ToSet(op.batch) : c \in ToSet(op.rest) \/ \E s \in Segments : c \in Secure(disk[s])
         /\ released \subseteq Segments \X Keys /\ sent \subseteq Captures
<1>1. up /\ op.kind # "open"
  <2>1. op # Idle
    BY DEF Writing, Idle
  <2> QED BY <2>1 DEF Writing, IInv, DownOK, OpTypes
<1>2. health # "failed"
  BY DEF Writing, IInv, OpTypes
<1> QED BY <1>1, <1>2, AtRest DEF IInv, BatchOK, OpTypes, DiskInv, DiskTypes

LEMMA KeptStays ==
  ASSUME UNCHANGED <<disk, mem, up, released>>, NEW s, NEW key, Kept(s, key)
  PROVE  Kept(s, key)' /\ Given(s, key)'
  BY DEF Kept, Given

(* The batch is the same, and nothing of it was written. *)
LEMMA StillBatch ==
  ASSUME IInv, Writing, op.todo = <<>>, UNCHANGED <<disk, sent, acked>>,
         op'.batch = op.batch, op'.rest = op.rest,
         op'.kind = "cite" => op.kind = "cite",
         op'.kind = "pin" => op.rest = <<>> /\ \A s \in op'.pins : disk[s].data # <<>>
  PROVE  BatchOK'
<1>1. /\ ToSet(op.batch) \subseteq sent
      /\ \A r \in acked : r[1] \notin ToSet(op.batch)
      /\ \A c \in ToSet(op.batch) : Cites[c] # NoCapture => \E q \in acked : q[1] = Cites[c]
      /\ ToSet(op.rest) \subseteq ToSet(op.batch) /\ Distinct(op.rest)
      /\ \A s \in Segments : ToSet(disk[s].data) \cap ToSet(op.rest) = {}
      /\ op.kind = "cite" => op.rest = op.batch
  BY DEF IInv, BatchOK
<1>2. \A c \in ToSet(op.batch) : c \in ToSet(op.rest) \/ \E s \in Segments : c \in Secure(disk[s])
  BY WritingAt
<1>3. \A s \in Segments : Secure(disk[s])' = Secure(disk[s])
  BY DEF Secure
<1>4. \A c \in ToSet(op'.batch) : c \in ToSet(op'.rest) \/ \E s \in Segments : c \in Secure(disk[s])'
  BY <1>2, <1>3
<1> QED BY <1>1, <1>4 DEF BatchOK

LEMMA StillCites ==
  ASSUME IInv, Writing, op.todo = <<>>, UNCHANGED <<disk, mem, up, released, acked>>,
         op'.batch = op.batch,
         \A s \in op.pins : op.kind = "cite" =>
           (op'.kind = "cite" /\ s \in op'.pins) \/ Given(s, Confirmed)'
  PROVE  CitesOK'
<1>1. ASSUME NEW c \in ToSet(op.batch), Cites[c] # NoCapture, NEW s \in Segments, <<Cites[c], s>> \in acked
      PROVE  (op'.kind = "cite" /\ s \in op'.pins) \/ Given(s, Confirmed)'
  <2>1. (op.kind = "cite" /\ s \in op.pins) \/ Given(s, Confirmed)
    BY <1>1 DEF IInv, CitesOK
  <2>2. CASE op.kind = "cite" /\ s \in op.pins
    BY <2>2
  <2>3. CASE Given(s, Confirmed)
    BY <2>3, AtRest, KeptStays
  <2> QED BY <2>1, <2>2, <2>3
<1> QED BY <1>1 DEF CitesOK

(* A reference that is added unless it is there. *)
LEMMA AddsReference ==
  ASSUME IInv, Writing, op.todo = <<>>, NEW s \in Segments, mem[s].state \in Live, NEW key \in Keys,
         UNCHANGED <<disk, mem, active, health, up, target, pub, objects, sent, acked, released>>,
         op'.kind = op.kind, op'.todo = Reference(s, key)
  PROVE  AtWork' /\ Given(s, key)'
<1>1. up /\ op.kind # "open" /\ health # "failed"
  BY WritingAt
<1>2. mem[s] \in Metas /\ Agree(s)
  BY <1>1, ServingAt
<1>3. CASE key \in mem[s].references
  <2>1. SameRefs(s)
    <3>1. mem[s].state # "None"
      BY DEF Live, Sealed
    <3> QED BY <1>2, <3>1 DEF Agree
  <2>2. Kept(s, key)
    BY <1>3, <2>1 DEF SameRefs, Kept
  <2>3. op'.todo = <<>>
    BY <1>3 DEF Reference
  <2> QED BY <2>2, <2>3, KeptStays DEF AtWork
<1>4. CASE key \notin mem[s].references
  <2>1. PICK m : m = [mem[s] EXCEPT !.references = @ \cup {key}]
    OBVIOUS
  <2>2. op'.todo = Save(s, m)
    BY <1>4, <2>1 DEF Reference
  <2>3. m \in Metas /\ m.state = mem[s].state /\ m.records = mem[s].records
        /\ m.references = mem[s].references \cup {key}
    BY <1>2, <2>1 DEF Metas
  <2>4. op'.kind \in Kinds \ {"open", "idle"} /\ op'.kind \notin {"publish", "remember", "release"}
    BY DEF Writing, Kinds
  <2>5. Alters(s, m)
    BY <1>1, <2>2, <2>3, <2>4 DEF Alters
  <2>6. Continues
    BY DEF Continues
  <2>7. AtWork' /\ Works(s)' /\ Head(op'.todo) = Effect("describe", s, m)
    BY <1>1, <2>5, <2>6, AltersWork
  <2>8. Head(op'.todo).do = "describe" /\ Head(op'.todo).arg = m
    BY <2>7, EffectIs
  <2>9. key \in m.references
    BY <2>3
  <2> QED BY <2>7, <2>8, <2>9 DEF Given
<1> QED BY <1>3, <1>4

(* Every capture of the batch is new, and what it cites was stored. *)
LEMMA SubmitTurn ==
  ASSUME IInv, NEW b \in Batches, Submit(b)
  PROVE  IInv' /\ UNCHANGED <<disk, objects, acked>>
<1>1. /\ up /\ op.kind # "open" /\ op.todo = <<>> /\ health # "failed"
      /\ UNCHANGED <<disk, mem, active, health, up, target, pub, objects, acked, released>>
      /\ sent' = sent \cup ToSet(b)
  BY FreeIs DEF Submit
<1>2. op'.kind = "cite" /\ op'.todo = <<>> /\ op'.batch = b /\ op'.rest = b
      /\ op'.pins = CitedBy(ToSet(b)) /\ Shaped'
  BY DEF Submit, Idle, Shaped
<1>3. b \in Seq(Captures)
  BY DEF Batches
<1>4. \A c \in ToSet(b) : Ready(c)
  BY <1>3, ToSetIn DEF Batches
<1>5. Distinct(b)
  <2>1. ASSUME NEW i \in 1 .. Len(b), NEW j \in 1 .. Len(b), b[i] = b[j] PROVE i = j
    <3>1. i \in DOMAIN b /\ j \in DOMAIN b /\ i \in Int /\ j \in Int /\ b[i] \in Nat /\ b[j] \in Nat
      <4>1. Len(b) \in Nat /\ DOMAIN b = 1 .. Len(b)
        BY <1>3
      <4>2. b[i] \in Captures /\ b[j] \in Captures
        BY <1>3
      <4>3. i \in Int /\ j \in Int
        BY <4>1
      <4> QED BY <4>1, <4>2, <4>3, SpoolAssumptions
    <3>2. ~ (i < j) /\ ~ (j < i)
      BY <2>1, <3>1 DEF Batches
    <3> QED BY <3>1, <3>2
  <2> QED BY <2>1 DEF Distinct
<1>6. /\ \A s \in Segments : ToSet(disk[s].data) \subseteq sent
      /\ \A r \in acked : r[1] \in sent /\ r[2] \in Segments /\ r = <<r[1], r[2]>>
      /\ sent \subseteq Captures /\ released \subseteq Segments \X Keys
  BY DEF IInv, DiskInv, CapturesOK, AckedOK, DiskTypes
<1>7. BatchOK'
  <2>1. \A c \in ToSet(b) : c \notin sent
    BY <1>4 DEF Ready
  <2>2. ASSUME NEW c \in ToSet(b), Cites[c] # NoCapture PROVE \E q \in acked : q[1] = Cites[c]
    <3>1. PICK s \in Segments : <<Cites[c], s>> \in acked
      BY <1>4, <2>2 DEF Ready, PlaceOf
    <3> QED BY <3>1
  <2>3. \A r \in acked : r[1] \notin ToSet(b)
    BY <1>6, <2>1
  <2>4. \A s \in Segments : ToSet(disk[s].data) \cap ToSet(b) = {}
    BY <1>6, <2>1
  <2> QED BY <1>1, <1>2, <1>5, <2>2, <2>3, <2>4 DEF BatchOK
<1>8. CitesOK'
  <2>1. ASSUME NEW c \in ToSet(b), Cites[c] # NoCapture, NEW s \in Segments, <<Cites[c], s>> \in acked
        PROVE  s \in CitedBy(ToSet(b))
    <3>1. s \in PlaceOf(Cites[c])
      BY <2>1 DEF PlaceOf
    <3> QED BY <2>1, <3>1 DEF CitedBy
  <2> QED BY <1>1, <1>2, <2>1 DEF CitesOK
<1>9. CatalogOK' /\ AtWork'
  BY <1>2 DEF CatalogOK, AtWork
<1>10. Continues /\ "cite" \in Kinds /\ op'.pins \subseteq Segments
  BY <1>1, <1>2 DEF Continues, Kinds, CitedBy, PlaceOf
<1>11. OpTypes' /\ PubOK'
  BY <1>1, <1>2, <1>3, <1>10, NewTypes
<1>12. ToSet(b) \subseteq Captures
  BY <1>3, ToSetIn
<1>13. IInv'
  BY <1>1, <1>2, <1>6, <1>7, <1>8, <1>9, <1>10, <1>11, <1>12, AtRest, NewOp
<1> QED BY <1>1, <1>13

(* The rest of an action of the writing task that goes on. *)
LEMMA GoesOn ==
  ASSUME IInv, Writing, op.todo = <<>>,
         UNCHANGED <<disk, mem, active, health, up, target, pub, objects, sent, acked, released>>,
         Shaped', op'.kind \in {"cite", "append", "pin"}, op'.batch = op.batch,
         op'.rest \in Seq(Captures), op'.pins \subseteq Segments,
         BatchOK', CitesOK', CatalogOK', AtWork'
  PROVE  IInv'
<1>1. /\ up /\ op.kind # "open" /\ health # "failed" /\ op.batch \in Seq(Captures)
      /\ released \subseteq Segments \X Keys /\ sent \subseteq Captures
  BY WritingAt
<1>2. Continues /\ op'.kind \in Kinds /\ op'.kind # "idle" /\ op'.kind # "open"
  BY DEF Continues, Kinds
<1>3. OpTypes' /\ PubOK'
  BY <1>1, <1>2, NewTypes
<1> QED BY <1>1, <1>2, <1>3, AtRest, NewOp

LEMMA CiteTurn ==
  ASSUME IInv, Cite
  PROVE  IInv' /\ UNCHANGED <<disk, objects, acked>>
<1>1. op.kind = "cite" /\ op.todo = <<>> /\ Writing
  BY DEF Cite, Busy, Writing
<1>2. up /\ op.kind # "open" /\ health # "failed" /\ op.rest \in Seq(Captures) /\ op.pins \subseteq Segments
  BY <1>1, WritingAt
<1>3. op = [kind |-> op.kind, todo |-> op.todo, batch |-> op.batch, rest |-> op.rest, pins |-> op.pins]
  BY DEF IInv, OpTypes
<1>4. CASE op.pins = {}
  <2>1. op' = [op EXCEPT !.kind = "append", !.todo = <<>>]
        /\ UNCHANGED <<disk, mem, active, health, up, target, pub, objects, sent, acked, released>>
    BY <1>4 DEF Cite, Continue, Then
  <2>2. /\ op'.kind = "append" /\ op'.todo = <<>> /\ op'.batch = op.batch /\ op'.rest = op.rest
        /\ op'.pins = op.pins /\ Shaped'
    BY <1>3, <2>1 DEF Shaped
  <2>3. BatchOK'
    BY <1>1, <2>1, <2>2, StillBatch
  <2>4. CitesOK'
    BY <1>1, <1>4, <2>1, <2>2, StillCites
  <2>5. CatalogOK' /\ AtWork'
    BY <2>2 DEF CatalogOK, AtWork
  <2>6. IInv'
    BY <1>1, <1>2, <2>1, <2>2, <2>3, <2>4, <2>5, GoesOn
  <2> QED BY <2>1, <2>6
<1>5. CASE op.pins # {}
  <2>1. PICK s \in op.pins : s = CHOOSE p \in op.pins : TRUE
    BY <1>5
  <2>2. CASE mem[s].state \in {"None", "Deleting"}
    <3>1. Refuse("failed")
      BY <1>5, <2>1, <2>2 DEF Cite
    <3> QED BY <1>2, <3>1, Refuses
  <2>3. CASE mem[s].state \notin {"None", "Deleting"}
    <3>1. op' = [op EXCEPT !.todo = Reference(s, Confirmed), !.pins = op.pins \ {s}]
          /\ UNCHANGED <<disk, mem, active, health, up, target, pub, objects, sent, acked, released>>
      BY <1>5, <2>1, <2>3 DEF Cite, Continue
    <3>2. /\ op'.kind = op.kind /\ op'.todo = Reference(s, Confirmed) /\ op'.batch = op.batch
          /\ op'.rest = op.rest /\ op'.pins = op.pins \ {s} /\ Shaped'
      BY <1>3, <3>1 DEF Shaped
    <3>3. mem[s].state \in Live /\ Confirmed \in Keys
      <4>1. mem[s] \in Metas
        BY <1>2 DEF IInv, OpTypes
      <4> QED BY <4>1, <2>3, MetaSplit DEF Live, Keys
    <3>4. AtWork' /\ Given(s, Confirmed)'
      BY <1>1, <1>2, <3>1, <3>2, <3>3, AddsReference
    <3>5. BatchOK'
      BY <1>1, <3>1, <3>2, StillBatch
    <3>6. CitesOK'
      BY <1>1, <3>1, <3>2, <3>4, StillCites
    <3>7. CatalogOK'
      BY <1>1, <3>2 DEF CatalogOK
    <3>8. IInv'
      BY <1>1, <1>2, <3>1, <3>2, <3>4, <3>5, <3>6, <3>7, GoesOn
    <3> QED BY <3>1, <3>8
  <2> QED BY <2>2, <2>3
<1> QED BY <1>4, <1>5

(* The segment of a capture is the only one that has it. *)
LEMMA HolderIs ==
  ASSUME IInv, NEW s \in Segments, NEW c \in ToSet(disk[s].data)
  PROVE  HolderOf(c) = s
<1>1. \A t \in Segments : c \in ToSet(disk[t].data) => t = s
  BY DEF IInv, DiskInv, CapturesOK
<1> QED BY <1>1 DEF HolderOf

LEMMA AppendedTurn ==
  ASSUME IInv, Appended
  PROVE  IInv' /\ UNCHANGED <<disk, objects, acked>>
<1>1. op.kind = "append" /\ op.todo = <<>> /\ Writing /\ op.rest = <<>>
  BY DEF Appended, Busy, Writing
<1>2. op = [kind |-> op.kind, todo |-> op.todo, batch |-> op.batch, rest |-> op.rest, pins |-> op.pins]
  BY DEF IInv, OpTypes
<1> DEFINE P == {HolderOf(c) : c \in {d \in ToSet(op.batch) : Cites[d] = NoCapture}}
<1>3. op' = [[op EXCEPT !.kind = "pin", !.todo = <<>>] EXCEPT !.pins = P]
      /\ UNCHANGED <<disk, mem, active, health, up, target, pub, objects, sent, acked, released>>
  BY DEF Appended, Continue, Then
<1> HIDE DEF P
<1>4. /\ op'.kind = "pin" /\ op'.todo = <<>> /\ op'.batch = op.batch /\ op'.rest = op.rest
      /\ op'.pins = P /\ Shaped'
  BY <1>2, <1>3 DEF Shaped
<1>5. \A c \in ToSet(op.batch) : \E s \in Segments : c \in ToSet(disk[s].data)
  <2>1. \A c \in ToSet(op.batch) : c \in ToSet(op.rest) \/ \E s \in Segments : c \in Secure(disk[s])
    BY <1>1, WritingAt
  <2>2. \A s \in Segments : Secure(disk[s]) \subseteq ToSet(disk[s].data)
    BY DiskAt, SecureIn DEF IInv
  <2> QED BY <2>1, <2>2, <1>1, ToSetNone
<1>6. ASSUME NEW c \in ToSet(op.batch) PROVE HolderOf(c) \in Segments /\ disk[HolderOf(c)].data # <<>>
  <2>1. PICK s \in Segments : c \in ToSet(disk[s].data)
    BY <1>5
  <2>2. HolderOf(c) = s
    BY <2>1, HolderIs
  <2> QED BY <2>1, <2>2, ToSetNone
<1>7. P \subseteq Segments /\ \A s \in P : disk[s].data # <<>>
  BY <1>6 DEF P
<1>8. BatchOK'
  BY <1>1, <1>3, <1>4, <1>7, StillBatch
<1>9. CitesOK'
  BY <1>1, <1>3, <1>4, StillCites
<1>10. CatalogOK'
  <2>1. ASSUME NEW c \in ToSet(op.batch), Cites[c] = NoCapture, NEW s \in Segments, c \in ToSet(disk[s].data)
        PROVE  s \in P
    <3>1. s = HolderOf(c)
      BY <2>1, HolderIs
    <3> QED BY <2>1, <3>1 DEF P
  <2> QED BY <1>3, <1>4, <2>1 DEF CatalogOK
<1>11. AtWork'
  BY <1>4 DEF AtWork
<1>12. op.rest \in Seq(Captures)
  BY <1>1, WritingAt
<1>13. IInv'
  BY <1>1, <1>3, <1>4, <1>7, <1>8, <1>9, <1>10, <1>11, <1>12, GoesOn
<1> QED BY <1>3, <1>13

LEMMA PinTurn ==
  ASSUME IInv, Pin
  PROVE  IInv' /\ UNCHANGED <<disk, objects, acked>>
<1>1. op.kind = "pin" /\ op.todo = <<>> /\ Writing /\ op.pins # {}
  BY DEF Pin, Busy, Writing
<1>2. up /\ op.kind # "open" /\ health # "failed" /\ op.rest \in Seq(Captures) /\ op.pins \subseteq Segments
  BY <1>1, WritingAt
<1>3. op = [kind |-> op.kind, todo |-> op.todo, batch |-> op.batch, rest |-> op.rest, pins |-> op.pins]
  BY DEF IInv, OpTypes
<1>4. PICK s \in op.pins : s = CHOOSE p \in op.pins : TRUE
  BY <1>1
<1>5. op' = [op EXCEPT !.todo = Reference(s, Catalog), !.pins = op.pins \ {s}]
      /\ UNCHANGED <<disk, mem, active, health, up, target, pub, objects, sent, acked, released>>
  BY <1>4 DEF Pin, Continue
<1>6. /\ op'.kind = op.kind /\ op'.todo = Reference(s, Catalog) /\ op'.batch = op.batch
      /\ op'.rest = op.rest /\ op'.pins = op.pins \ {s} /\ Shaped'
  BY <1>3, <1>5 DEF Shaped
<1>7. op.rest = <<>> /\ \A t \in op.pins : disk[t].data # <<>>
  BY <1>1 DEF IInv, BatchOK
<1>8. mem[s].state \in Live /\ Catalog \in Keys
  <2>1. Agree(s) /\ disk[s] \in Files /\ FileOK(disk[s])
    BY <1>1, <1>2, ServingAt
  <2>2. disk[s].meta # NoMeta
    BY <1>7, <2>1, NoMetaIs DEF FileOK, Tells, Empty
  <2> QED BY <2>1, <2>2 DEF Agree, Live, Keys
<1>9. AtWork' /\ Given(s, Catalog)'
  BY <1>1, <1>2, <1>5, <1>6, <1>8, AddsReference
<1>10. BatchOK'
  BY <1>1, <1>5, <1>6, <1>7, StillBatch
<1>11. CitesOK'
  BY <1>1, <1>5, <1>6, StillCites
<1>12. CatalogOK'
  <2>1. ASSUME NEW c \in ToSet(op.batch), Cites[c] = NoCapture, NEW t \in Segments, c \in ToSet(disk[t].data)
        PROVE  t \in op'.pins \/ Given(t, Catalog)'
    <3>1. t \in op.pins \/ Kept(t, Catalog)
      BY <1>1, <2>1, AtRest DEF IInv, CatalogOK
    <3>2. CASE t = s
      BY <1>9, <3>2
    <3>3. CASE t # s /\ t \in op.pins
      BY <1>6, <3>3
    <3>4. CASE Kept(t, Catalog)
      BY <1>5, <3>4, KeptStays
    <3> QED BY <3>1, <3>2, <3>3, <3>4
  <2> QED BY <1>5, <1>6, <2>1 DEF CatalogOK
<1>13. IInv'
  BY <1>1, <1>2, <1>5, <1>6, <1>9, <1>10, <1>11, <1>12, GoesOn
<1> QED BY <1>5, <1>13

(* The answers: what is acknowledged is secure, and pinned as it must be.  *)
LEMMA ReplyTurn ==
  ASSUME IInv, NEW failing, Reply(failing)
  PROVE  /\ IInv' /\ UNCHANGED <<disk, objects>>
         /\ \E C \in SUBSET Captures :
              /\ C \subseteq UNION {Secure(disk[s]) : s \in Segments}
              /\ {r[1] : r \in acked'} = {r[1] : r \in acked} \cup C
<1>1. op.kind = "pin" /\ op.todo = <<>> /\ Writing /\ op.pins = {}
  BY DEF Reply, Busy, Writing
<1> DEFINE C == ToSet(op.batch) \ failing
           N == {<<c, HolderOf(c)>> : c \in C}
<1>2. /\ acked' = acked \cup N /\ health' \in {health, "failed"} /\ op' = Idle
      /\ UNCHANGED <<disk, mem, active, up, target, pub, objects, sent, released>>
  BY DEF Reply
<1>3. /\ up /\ op.kind # "open" /\ health # "failed" /\ ToSet(op.batch) \subseteq sent
      /\ sent \subseteq Captures
  BY <1>1, WritingAt
<1>4. ASSUME NEW c \in C PROVE HolderOf(c) \in Segments /\ c \in Secure(disk[HolderOf(c)])
                               /\ c \in ToSet(disk[HolderOf(c)].data)
  <2>1. c \in ToSet(op.rest) \/ \E s \in Segments : c \in Secure(disk[s])
    BY <1>1, WritingAt
  <2>2. op.rest = <<>>
    BY <1>1 DEF IInv, BatchOK
  <2>3. PICK s \in Segments : c \in Secure(disk[s])
    BY <2>1, <2>2, ToSetNone
  <2>4. c \in ToSet(disk[s].data)
    BY <2>3, DiskAt, SecureIn DEF IInv
  <2>5. HolderOf(c) = s
    BY <2>4, HolderIs
  <2> QED BY <2>3, <2>4, <2>5
<1>5. ASSUME NEW r \in N PROVE r[1] \in C /\ r[2] = HolderOf(r[1]) /\ r = <<r[1], r[2]>>
  OBVIOUS
<1>6. ASSUME NEW c \in C PROVE <<c, HolderOf(c)>> \in N
  OBVIOUS
<1> HIDE DEF N
<1>7. /\ \A r \in acked : r[1] \notin ToSet(op.batch)
      /\ \A c \in ToSet(op.batch) : Cites[c] # NoCapture => \E q \in acked : q[1] = Cites[c]
      /\ \A r \in acked : Cites[r[1]] # NoCapture => \E q \in acked : q[1] = Cites[r[1]]
      /\ \A r \in acked : r \in Captures \X Segments
  BY <1>1 DEF IInv, BatchOK, DiskInv, AckedOK, DiskTypes
<1>8. DiskInv'
  <2>1. DiskTypes'
    <3>1. N \subseteq Captures \X Segments
      BY <1>3, <1>4, <1>5
    <3> QED BY <1>2, <3>1 DEF IInv, DiskInv, DiskTypes
  <2>2. \A s \in Segments : FileOK(disk'[s])
    BY <1>2 DEF IInv, DiskInv
  <2>3. NotedOK' /\ CapturesOK'
    BY <1>2 DEF IInv, DiskInv, NotedOK, Noted, CapturesOK
  <2>4. ObjectsOK'
    <3>1. \A s \in Segments : ObjectOK(s, disk[s])'
      BY <1>2 DEF IInv, DiskInv, ObjectsOK, ObjectOK
    <3> QED BY <1>2, <3>1 DEF IInv, DiskInv, ObjectsOK
  <2>5. AckedOK'
    <3>1. ASSUME NEW r \in acked'
          PROVE  /\ r[1] \in sent /\ (r[1] \in Secure(disk[r[2]]) \/ r[1] \in ToSet(objects[r[2]]))
                 /\ Cites[r[1]] # NoCapture => \E q \in acked : q[1] = Cites[r[1]]
      <4>1. CASE r \in acked
        BY <4>1 DEF IInv, DiskInv, AckedOK
      <4>2. CASE r \in N
        BY <4>2, <1>3, <1>4, <1>5, <1>7
      <4> QED BY <4>1, <4>2, <1>2
    <3>2. \A s \in Segments : Secure(disk[s])' = Secure(disk[s])
      BY <1>2 DEF Secure
    <3>3. \A r \in acked' : r[2] \in Segments
      BY <2>1 DEF DiskTypes
    <3> QED BY <1>2, <3>1, <3>2, <3>3 DEF AckedOK
  <2> QED BY <2>1, <2>2, <2>3, <2>4, <2>5 DEF DiskInv
<1>9. PinsOK'
  <2>1. ASSUME NEW s \in Segments, NEW key \in Keys, Needed(s, key)' PROVE Kept(s, key)
    <3>1. PICK r \in acked' : \/ key = Catalog /\ r[2] = s /\ Cites[r[1]] = NoCapture
                              \/ /\ key = Confirmed /\ Cites[r[1]] # NoCapture
                                 /\ <<Cites[r[1]], s>> \in acked'
      BY <2>1 DEF Needed
    <3>2. CASE key = Catalog /\ r[2] = s /\ Cites[r[1]] = NoCapture
      <4>1. CASE r \in acked
        BY <3>2, <4>1 DEF IInv, PinsOK, Needed
      <4>2. CASE r \in N
        <5>1. r[1] \in ToSet(op.batch) /\ r[1] \in ToSet(disk[s].data)
          BY <3>2, <4>2, <1>4, <1>5
        <5>2. s \in op.pins \/ Given(s, Catalog)
          BY <1>1, <3>2, <5>1 DEF IInv, CatalogOK
        <5> QED BY <1>1, <3>2, <5>2, AtRest
      <4> QED BY <4>1, <4>2, <1>2
    <3>3. CASE key = Confirmed /\ Cites[r[1]] # NoCapture /\ <<Cites[r[1]], s>> \in acked'
      <4>1. \E q \in acked : q[1] = Cites[r[1]]
        <5>1. CASE r \in acked
          BY <3>3, <5>1, <1>7
        <5>2. CASE r \in N
          BY <3>3, <5>2, <1>5, <1>7
        <5> QED BY <5>1, <5>2, <1>2
      <4>2. <<Cites[r[1]], s>> \notin N
        BY <4>1, <1>5, <1>7
      <4>3. <<Cites[r[1]], s>> \in acked
        BY <3>3, <4>2, <1>2
      <4>4. CASE r \in acked
        BY <3>3, <4>3, <4>4 DEF IInv, PinsOK, Needed
      <4>5. CASE r \in N
        <5>1. r[1] \in ToSet(op.batch)
          BY <4>5, <1>5
        <5>2. Given(s, Confirmed)
          BY <1>1, <3>3, <4>3, <5>1 DEF IInv, CitesOK
        <5> QED BY <1>1, <3>3, <5>2, AtRest
      <4> QED BY <4>4, <4>5, <1>2
    <3> QED BY <3>1, <3>2, <3>3
  <2>2. \A s \in Segments, key \in Keys : Kept(s, key) => Kept(s, key)'
    BY <1>2, KeptStays
  <2> QED BY <2>1, <2>2 DEF PinsOK
<1>10. /\ op'.kind = "idle" /\ op'.todo = <<>> /\ op'.batch = <<>> /\ op'.rest = <<>> /\ op'.pins = {}
       /\ Shaped'
  BY <1>2 DEF Idle, Shaped
<1>11. OpTypes' /\ PubOK'
  <2>1. /\ mem' \in [Segments -> Metas] /\ active' \in Segments \cup {NoSegment} /\ up' \in BOOLEAN
        /\ target' \in BOOLEAN /\ (pub'.at # "idle" => pub'.segment \in Segments)
        /\ health' \in {"ok", "poisoned", "failed"}
        /\ pub' \in [segment : Segments \cup {NoSegment}, upload : BOOLEAN, at : Places]
    BY <1>2 DEF IInv, OpTypes
  <2>2. OpTypes'
    BY <1>10, <2>1, IdleIs, TypesTurn
  <2> QED BY <1>2, <2>2 DEF IInv, PubOK
<1>12. DownOK' /\ ActiveOK' /\ OpeningOK'
  BY <1>2, <1>3, <1>10 DEF IInv, DownOK, ActiveOK, OpeningOK, Opening
<1>13. ServingOK'
  <2>1. ASSUME NEW s \in Segments PROVE Basic(s)' /\ Agree(s)'
    <3>1. Basic(s) /\ Agree(s)
      BY <1>1, <1>3, ServingAt
    <3> QED BY <1>2, <3>1 DEF Basic, Agree, SameRefs
  <2> QED BY <2>1 DEF ServingOK
<1>14. BatchOK' /\ CitesOK' /\ CatalogOK' /\ AtWork'
  BY <1>10 DEF BatchOK, CitesOK, CatalogOK, AtWork, Writing
<1>15. IInv'
  BY <1>8, <1>9, <1>11, <1>12, <1>13, <1>14 DEF IInv
<1>16. {r[1] : r \in acked'} = {r[1] : r \in acked} \cup C
  <2>1. {r[1] : r \in N} = C
    BY <1>5, <1>6
  <2> QED BY <1>2, <2>1
<1>17. C \subseteq UNION {Secure(disk[s]) : s \in Segments} /\ C \in SUBSET Captures
  BY <1>3, <1>4
<1> QED BY <1>2, <1>15, <1>16, <1>17
-----------------------------------------------------------------------------
(* New operations of the writing task: the next group *)

(* a is the first part of the list q, of captures that differ, and r the   *)
(* rest.                                                                   *)
Splits(q, a, r) ==
  /\ a \in Seq(Captures) /\ a # <<>> /\ r \in Seq(Captures) /\ Distinct(r)
  /\ ToSet(a) \subseteq ToSet(q) /\ ToSet(r) \subseteq ToSet(q)
  /\ ToSet(q) \subseteq ToSet(a) \cup ToSet(r) /\ ToSet(a) \cap ToSet(r) = {}

LEMMA SplitAt ==
  ASSUME NEW q \in Seq(Captures), NEW n \in 1 .. Len(q), Distinct(q)
  PROVE  Splits(q, SubSeq(q, 1, n), SubSeq(q, n + 1, Len(q)))
<1> DEFINE a == SubSeq(q, 1, n)
           r == SubSeq(q, n + 1, Len(q))
<1>1. Len(q) \in Nat /\ n \in Nat /\ n > 0 /\ n <= Len(q)
  OBVIOUS
<1>2. a \in Seq(Captures) /\ Len(a) = n /\ \A i \in 1 .. n : a[i] = q[i]
  BY <1>1
<1>3. r \in Seq(Captures) /\ Len(r) = Len(q) - n /\ \A i \in 1 .. Len(q) - n : r[i] = q[i + n]
  BY <1>1
<1> HIDE DEF a, r
<1>4. ToSet(q) = {q[i] : i \in 1 .. Len(q)} /\ ToSet(a) = {a[i] : i \in 1 .. Len(a)}
      /\ ToSet(r) = {r[i] : i \in 1 .. Len(r)}
  <2>1. \A f \in Seq(Captures) : ToSet(f) = {f[i] : i \in 1 .. Len(f)}
    BY ToSetIn
  <2>2. a \in Seq(Captures) /\ r \in Seq(Captures)
    BY <1>2, <1>3
  <2> QED BY <2>1, <2>2
<1>5. a # <<>>
  BY <1>1, <1>2
<1>6. Distinct(r)
  <2>1. ASSUME NEW i \in 1 .. Len(r), NEW j \in 1 .. Len(r), r[i] = r[j] PROVE i = j
    <3>1. i \in Nat /\ j \in Nat /\ i + n \in 1 .. Len(q) /\ j + n \in 1 .. Len(q) /\ q[i + n] = q[j + n]
      BY <1>1, <1>3, <2>1
    <3>2. i + n = j + n
      BY <3>1 DEF Distinct
    <3> QED BY <3>1, <3>2, <1>1
  <2> QED BY <2>1 DEF Distinct
<1>7. ASSUME NEW c \in ToSet(a) PROVE c \in ToSet(q) /\ c \notin ToSet(r)
  <2>1. PICK i \in 1 .. n : c = q[i]
    BY <1>2, <1>4
  <2>2. i \in 1 .. Len(q) /\ i <= n /\ i \in Nat
    BY <1>1
  <2>3. ASSUME c \in ToSet(r) PROVE FALSE
    <3>1. PICK j \in 1 .. Len(q) - n : c = q[j + n]
      BY <1>3, <1>4, <2>3
    <3>2. j + n \in 1 .. Len(q) /\ j + n > n
      BY <1>1
    <3>3. i = j + n
      BY <2>1, <2>2, <3>1, <3>2 DEF Distinct
    <3> QED BY <2>2, <3>2, <3>3, <1>1
  <2> QED BY <2>1, <2>2, <2>3, <1>4
<1>8. ASSUME NEW c \in ToSet(r) PROVE c \in ToSet(q)
  <2>1. PICK j \in 1 .. Len(q) - n : c = q[j + n]
    BY <1>3, <1>4
  <2>2. j + n \in 1 .. Len(q)
    BY <1>1
  <2> QED BY <2>1, <2>2, <1>4
<1>9. ASSUME NEW c \in ToSet(q) PROVE c \in ToSet(a) \/ c \in ToSet(r)
  <2>1. PICK i \in 1 .. Len(q) : c = q[i]
    BY <1>4
  <2>2. CASE i <= n
    <3>1. i \in 1 .. n /\ a[i] = q[i]
      BY <1>1, <1>2, <2>2
    <3> QED BY <2>1, <3>1, <1>2, ToSetHas
  <2>3. CASE ~ (i <= n)
    <3>1. i - n \in 1 .. Len(r) /\ (i - n) + n = i
      BY <1>1, <1>3, <2>3
    <3>2. r[i - n] = q[i]
      BY <3>1, <1>3
    <3> QED BY <2>1, <3>1, <3>2, <1>3, ToSetHas
  <2> QED BY <2>2, <2>3
<1>10. Splits(q, a, r)
  BY <1>2, <1>3, <1>5, <1>6, <1>7, <1>8, <1>9 DEF Splits
<1> QED BY <1>10 DEF a, r

LEMMA Largest ==
  ASSUME NEW n \in Nat, NEW T, T \subseteq 0 .. n, T # {}
  PROVE  Max(T) \in T
<1> DEFINE U == {n - x : x \in T}
<1>1. U \subseteq Nat /\ U # {}
  <2>1. \A x \in T : n - x \in Nat
    OBVIOUS
  <2>2. U # {}
    BY Zenon
  <2> QED BY <2>1, <2>2
<1> HIDE DEF U
<1>2. PICK u \in U : \A v \in U : ~ (<<v, u>> \in OpToRel(<, Nat))
  BY <1>1, NatLessThanWellFounded, WFMin
<1>3. \A v \in U : ~ (v < u)
  BY <1>1, <1>2 DEF OpToRel
<1>4. PICK x \in T : u = n - x
  BY DEF U
<1>5. \A y \in T : x >= y
  <2>1. TAKE y \in T
  <2>2. n - y \in U
    BY DEF U
  <2>3. x \in Int /\ y \in Int /\ ~ (n - y < n - x)
    BY <1>3, <1>4, <2>2
  <2> QED BY <2>3
<1>6. \E z \in T : \A y \in T : z >= y
  BY <1>5
<1> QED BY <1>6 DEF Max

LEMMA GroupIs ==
  ASSUME op.rest \in Seq(Captures)
  PROVE  GroupSize \in 0 .. Len(op.rest)
<1> DEFINE T == {n \in 0 .. Len(op.rest) : n = 0 \/ Fits(n)}
<1>1. Len(op.rest) \in Nat /\ T \subseteq 0 .. Len(op.rest) /\ 0 \in T
  OBVIOUS
<1>2. GroupSize = Max(T)
  BY DEF GroupSize
<1> HIDE DEF T
<1>3. Max(T) \in T
  BY <1>1, Largest
<1> QED BY <1>1, <1>2, <1>3

(* Room for one segment more: memory knows all that have a descriptor.     *)
LEMMA CreateStarts ==
  ASSUME IInv, op.kind = "append", op.todo = <<>>, active = NoSegment, health # "failed",
         Cardinality(Known) < MaxSegments, NEW s \in Segments, Fresh(s),
         UNCHANGED <<disk, mem, active, objects, acked>>,
         op'.kind = op.kind, op'.todo = CreateSegment(s)
  PROVE  AtWork'
<1>1. up /\ op.kind # "open"
  BY WritingAt DEF Writing
<1>2. \A t \in Segments : Agree(t)
  BY <1>1, ServingAt
<1>3. disk[s] = Absent /\ objects[s] = <<>>
  BY DEF Fresh
<1>4. mem[s].state = "None"
  <2>1. disk[s].meta.state = "None"
    BY <1>3, AbsentIs, NoMetaIs
  <2> HIDE <1>3
  <2> QED BY <1>2, <2>1 DEF Agree, Sealed
<1>5. Noted = Known
  <2>1. ASSUME NEW t \in Segments
        PROVE  mem[t].state = "None" <=> (disk[t].meta.state = "None" /\ disk[t].old.state = "None")
    <3>1. Agree(t)
      BY <1>2
    <3> QED BY <3>1, NoMetaIs DEF Agree, Sealed
  <2> QED BY <2>1 DEF Noted, Known
<1>6. \A r \in acked : r[2] # s
  <2>1. Secure(Absent) = {}
    BY AbsentIs DEF Secure
  <2>2. Secure(disk[s]) = {}
    BY <1>3, <2>1
  <2> QED BY <1>3, <2>2, NobodyIn
<1>7. Cardinality(Noted)' < MaxSegments
  <2>1. Noted' = Noted
    BY DEF Noted
  <2> QED BY <1>5, <2>1
<1>8. CreateOK(s)'
  BY <1>3, <1>4, <1>6 DEF CreateOK
<1>9. Create(s)'
  BY <1>3, <1>7, <1>8 DEF Create
<1>10. Head(op'.todo) = Effect("files", s, 0)
  BY CreateIs
<1> QED BY <1>9, <1>10, EffectIs DEF AtWork

(* The first n captures that are left are written; the others stay.        *)
LEMMA CommitStarts ==
  ASSUME IInv, op.kind = "append", op.todo = <<>>, active # NoSegment, NEW n \in 1 .. Len(op.rest),
         UNCHANGED <<disk, mem, active, up, sent, acked, released>>,
         op'.kind = op.kind, op'.batch = op.batch, NEW cs, cs = SubSeq(op.rest, 1, n),
         op'.todo = Commit(active, cs), op'.rest = SubSeq(op.rest, n + 1, Len(op.rest))
  PROVE  AtWork' /\ BatchOK' /\ op'.rest \in Seq(Captures)
<1>1. /\ Writing /\ up /\ op.kind # "open" /\ health # "failed" /\ op.rest \in Seq(Captures)
      /\ \A c \in ToSet(op.batch) : c \in ToSet(op.rest) \/ \E s \in Segments : c \in Secure(disk[s])
  <2>1. Writing
    BY DEF Writing
  <2> QED BY <2>1, WritingAt
<1>2. /\ ToSet(op.batch) \subseteq sent
      /\ \A r \in acked : r[1] \notin ToSet(op.batch)
      /\ \A c \in ToSet(op.batch) : Cites[c] # NoCapture => \E q \in acked : q[1] = Cites[c]
      /\ ToSet(op.rest) \subseteq ToSet(op.batch) /\ Distinct(op.rest)
      /\ \A s \in Segments : ToSet(disk[s].data) \cap ToSet(op.rest) = {}
  BY <1>1 DEF IInv, BatchOK
<1> DEFINE r == op'.rest
<1>3. /\ cs \in Seq(Captures) /\ cs # <<>> /\ r \in Seq(Captures) /\ Distinct(r)
      /\ ToSet(cs) \subseteq ToSet(op.rest) /\ ToSet(r) \subseteq ToSet(op.rest)
      /\ ToSet(op.rest) \subseteq ToSet(cs) \cup ToSet(r) /\ ToSet(cs) \cap ToSet(r) = {}
  <2>1. Splits(op.rest, SubSeq(op.rest, 1, n), SubSeq(op.rest, n + 1, Len(op.rest)))
    BY <1>1, <1>2, SplitAt
  <2>2. Splits(op.rest, cs, r)
    BY <2>1
  <2> QED BY <2>2 DEF Splits
<1>4. active \in Segments /\ mem[active].state = "Open"
  BY DEF IInv, OpTypes, ActiveOK
<1>5. Agree(active)
  BY <1>1, <1>4, ServingAt
<1>6. WriteOK(active)' /\ Whole(disk[active])
  <2>1. disk[active].meta.state = "Open" /\ disk[active].old.state = "Open" /\ Whole(disk[active])
        /\ SameRefs(active)
    BY <1>4, <1>5 DEF Agree, Sealed
  <2>2. SameRefs(active)'
    BY <2>1 DEF SameRefs
  <2> QED BY <1>4, <2>1, <2>2 DEF WriteOK
<1>7. Head(op'.todo) = Effect("write", active, cs) /\ op'.todo # <<>>
  BY CommitIs
<1>8. \A s \in Segments : ToSet(disk'[s].data) \cap ToSet(cs) = {} /\ ToSet(disk'[s].data) \cap ToSet(r) = {}
  BY <1>2, <1>3
<1>9. Write(active, cs)'
  <2>1. /\ op'.todo = Commit(active, cs) /\ WriteOK(active)' /\ Whole(disk'[active]) /\ cs \in Seq(Captures)
        /\ cs # <<>> /\ ToSet(cs) \subseteq ToSet(op'.batch) /\ ToSet(cs) \cap ToSet(op'.rest) = {}
        /\ active' = active
    BY <1>2, <1>3, <1>6
  <2> QED BY <1>8, <2>1 DEF Write
<1>10. AtWork'
  BY <1>7, <1>9, EffectIs DEF AtWork
<1>11. InFlight' = ToSet(cs)
  BY <1>7, EffectIs DEF InFlight
<1>12. \A c \in ToSet(op'.batch) : c \in ToSet(r) \/ c \in InFlight' \/ \E s \in Segments : c \in Secure(disk[s])'
  <2>1. \A s \in Segments : Secure(disk[s])' = Secure(disk[s])
    BY DEF Secure
  <2> QED BY <1>1, <1>3, <1>11, <2>1
<1>13. BatchOK'
  BY <1>2, <1>3, <1>8, <1>12 DEF BatchOK
<1> QED BY <1>3, <1>10, <1>13

LEMMA NextGroupTurn ==
  ASSUME IInv, NextGroup
  PROVE  IInv' /\ UNCHANGED <<disk, objects, acked>>
<1>1. op.kind = "append" /\ op.todo = <<>> /\ Writing /\ op.rest # <<>>
  BY DEF NextGroup, Busy, Writing
<1>2. up /\ op.kind # "open" /\ health # "failed" /\ op.rest \in Seq(Captures) /\ op.pins \subseteq Segments
  BY <1>1, WritingAt
<1>3. op = [kind |-> op.kind, todo |-> op.todo, batch |-> op.batch, rest |-> op.rest, pins |-> op.pins]
  BY DEF IInv, OpTypes
<1> DEFINE c == Head(op.rest)
<1>4. PICK due \in BOOLEAN :
        IF health = "poisoned" \/ Bound[c] > SegmentBytes THEN Refuse("failed")
        ELSE IF Rotates(c, due) THEN Continue([op EXCEPT !.todo = Seal(active)])
        ELSE IF QuotaFull(c) THEN Refuse("failed")
        ELSE IF active = NoSegment
        THEN \E s \in Segments :
               /\ Fresh(s)
               /\ \A t \in Segments : Fresh(t) => s <= t
               /\ Continue([op EXCEPT !.todo = CreateSegment(s)])
        ELSE IF GroupSize = 0 THEN Refuse("failed")
        ELSE Continue([op EXCEPT !.todo = Commit(active, SubSeq(op.rest, 1, GroupSize)),
                                 !.rest = SubSeq(@, GroupSize + 1, Len(@))])
  BY DEF NextGroup
<1> HIDE DEF c
<1>5. CASE Refuse("failed")
  BY <1>2, <1>5, Refuses
<1>6. ASSUME NEW new, Continue(new),
             new = [kind |-> "append", todo |-> new.todo, batch |-> op.batch, rest |-> new.rest,
                    pins |-> op.pins],
             new.rest \in Seq(Captures), AtWork', BatchOK'
      PROVE  IInv' /\ UNCHANGED <<disk, objects, acked>>
  <2>1. op' = new /\ UNCHANGED <<disk, mem, active, health, up, target, pub, objects, sent, acked, released>>
    BY <1>6 DEF Continue
  <2>2. op'.kind = "append" /\ op'.batch = op.batch /\ op'.rest \in Seq(Captures) /\ op'.pins = op.pins
        /\ Shaped'
    BY <1>6, <2>1 DEF Shaped
  <2>3. CitesOK'
    BY <1>1, <2>1, <2>2, StillCites
  <2>4. CatalogOK'
    BY <2>2 DEF CatalogOK
  <2>5. IInv'
    BY <1>1, <1>2, <1>6, <2>1, <2>2, <2>3, <2>4, GoesOn
  <2> QED BY <2>1, <2>5
<1>7. CASE Rotates(c, due) /\ Continue([op EXCEPT !.todo = Seal(active)])
  <2>1. PICK new : new = [op EXCEPT !.todo = Seal(active)]
    OBVIOUS
  <2>2. /\ new = [kind |-> "append", todo |-> new.todo, batch |-> op.batch, rest |-> new.rest,
                  pins |-> op.pins]
        /\ new.rest = op.rest /\ new.todo = Seal(active)
    BY <1>1, <1>3, <2>1
  <2>3. op' = new /\ UNCHANGED <<disk, mem, active, health, up, target, pub, objects, sent, acked, released>>
    BY <1>7, <2>1 DEF Continue
  <2>4. op'.todo = Seal(active) /\ op'.kind = "append" /\ op'.batch = op.batch /\ op'.rest = op.rest
    BY <2>2, <2>3
  <2>5. active # NoSegment
    BY <1>7 DEF Rotates
  <2>6. PICK m : Alters(active, m)
    BY <1>1, <1>2, <2>4, <2>5, SealAlters
  <2>7. Continues
    BY <2>3 DEF Continues
  <2>8. AtWork'
    BY <1>1, <1>2, <2>3, <2>6, <2>7, AltersWork
  <2>9. BatchOK'
    BY <1>1, <2>3, <2>4, StillBatch
  <2>10. Continue(new) /\ new.rest \in Seq(Captures)
    BY <1>2, <1>7, <2>1, <2>2
  <2> QED BY <1>6, <2>2, <2>8, <2>9, <2>10
<1>8. ASSUME active = NoSegment, ~ QuotaFull(c), NEW s \in Segments, Fresh(s),
             Continue([op EXCEPT !.todo = CreateSegment(s)])
      PROVE  IInv' /\ UNCHANGED <<disk, objects, acked>>
  <2>1. PICK new : new = [op EXCEPT !.todo = CreateSegment(s)]
    OBVIOUS
  <2>2. /\ new = [kind |-> "append", todo |-> new.todo, batch |-> op.batch, rest |-> new.rest,
                  pins |-> op.pins]
        /\ new.rest = op.rest /\ new.todo = CreateSegment(s)
    BY <1>1, <1>3, <2>1
  <2>3. op' = new /\ UNCHANGED <<disk, mem, active, health, up, target, pub, objects, sent, acked, released>>
    BY <1>8, <2>1 DEF Continue
  <2>4. op'.todo = CreateSegment(s) /\ op'.kind = op.kind /\ op'.batch = op.batch /\ op'.rest = op.rest
    BY <1>1, <2>2, <2>3
  <2>5. Cardinality(Known) < MaxSegments
    <3>1. \A t \in Segments : Agree(t)
      BY <1>1, <1>2, ServingAt
    <3>2. Known \subseteq Noted
      BY <3>1, NoMetaIs DEF Known, Noted, Agree, Sealed
    <3>3. IsFiniteSet(Known)
      BY <3>2, FewerNoted DEF IInv, DiskInv
    <3>4. Cardinality(Known) \in Nat /\ MaxSegments \in Nat
      BY <3>3, FS_CardinalityType, SpoolAssumptions
    <3>5. ~ (Cardinality(Known) >= MaxSegments)
      BY <1>8 DEF QuotaFull
    <3> QED BY <3>4, <3>5
  <2>6. AtWork'
    BY <1>1, <1>2, <1>8, <2>3, <2>4, <2>5, CreateStarts
  <2>7. BatchOK'
    BY <1>1, <2>3, <2>4, StillBatch
  <2>8. Continue(new) /\ new.rest \in Seq(Captures)
    BY <1>2, <1>8, <2>1, <2>2
  <2> QED BY <1>6, <2>2, <2>6, <2>7, <2>8
<1>9. ASSUME active # NoSegment, GroupSize # 0,
             Continue([op EXCEPT !.todo = Commit(active, SubSeq(op.rest, 1, GroupSize)),
                                 !.rest = SubSeq(@, GroupSize + 1, Len(@))])
      PROVE  IInv' /\ UNCHANGED <<disk, objects, acked>>
  <2>1. PICK n : n = GroupSize
    OBVIOUS
  <2>2. n \in 1 .. Len(op.rest)
    BY <1>2, <1>9, <2>1, GroupIs
  <2>3. PICK cs : cs = SubSeq(op.rest, 1, n)
    OBVIOUS
  <2>4. PICK new : new = [op EXCEPT !.todo = Commit(active, cs),
                                    !.rest = SubSeq(op.rest, n + 1, Len(op.rest))]
    OBVIOUS
  <2>5. Continue(new)
    BY <1>9, <2>1, <2>3, <2>4
  <2>6. /\ new = [kind |-> "append", todo |-> new.todo, batch |-> op.batch, rest |-> new.rest,
                  pins |-> op.pins]
        /\ new.rest = SubSeq(op.rest, n + 1, Len(op.rest)) /\ new.todo = Commit(active, cs)
    BY <1>1, <1>3, <2>4
  <2>7. op' = new /\ UNCHANGED <<disk, mem, active, health, up, target, pub, objects, sent, acked, released>>
    BY <2>5 DEF Continue
  <2>8. /\ op'.todo = Commit(active, cs) /\ op'.kind = op.kind /\ op'.batch = op.batch
        /\ op'.rest = SubSeq(op.rest, n + 1, Len(op.rest)) /\ op'.rest = new.rest
    BY <1>1, <2>6, <2>7
  <2>9. AtWork' /\ BatchOK' /\ op'.rest \in Seq(Captures)
    BY <1>1, <1>9, <2>2, <2>3, <2>7, <2>8, CommitStarts
  <2> QED BY <1>6, <2>5, <2>6, <2>8, <2>9
<1> QED BY <1>4, <1>5, <1>7, <1>8, <1>9
-----------------------------------------------------------------------------
(* The uploading task *)

(* The upload goes on, and an object may be stored of a segment that waits *)
(* for it: nothing that the lock protects changes.                         *)
Uploads ==
  /\ UNCHANGED <<disk, mem, active, op, health, up, target, sent, acked, released>>
  /\ op.todo # <<>> => pub.at # "idle"
  /\ \A t \in Segments : objects'[t] = objects[t] \/ mem[t].state = "Pending"

LEMMA AlterKeeps ==
  ASSUME Uploads, op.todo # <<>>, NEW s, NEW m, Alter(s, m)
  PROVE  Alter(s, m)'
<1>1. UNCHANGED <<disk, mem, active, op, health, up, acked, released>> /\ pub # NoUpload
  BY NoUploadIs DEF Uploads
<1>2. AlterOK(s, m)
  BY DEF Alter
<1>3. AlterOK(s, m)'
  <2>1. \A key \in Keys : Needed(s, key)' => Needed(s, key)
    BY <1>1 DEF Needed
  <2> QED BY <1>1, <1>2, <2>1 DEF AlterOK
<1>4. Agree(s) => Agree(s)'
  BY <1>1 DEF Agree, SameRefs
<1> QED BY <1>1, <1>3, <1>4 DEF Alter

LEMMA CreateKeeps ==
  ASSUME Uploads, NEW s, Create(s)
  PROVE  Create(s)'
<1>1. UNCHANGED <<disk, mem, active, op, acked>>
  BY DEF Uploads
<1>2. CreateOK(s)
  BY DEF Create
<1>3. CreateOK(s)'
  <2>1. objects'[s] = objects[s]
    BY <1>2 DEF Uploads, CreateOK
  <2> QED BY <1>1, <1>2, <2>1 DEF CreateOK
<1>4. Noted' = Noted
  BY <1>1 DEF Noted
<1> QED BY <1>1, <1>3, <1>4 DEF Create

LEMMA WriteKeeps ==
  ASSUME Uploads, NEW s, NEW cs, Write(s, cs)
  PROVE  Write(s, cs)'
<1>1. UNCHANGED <<disk, mem, active, op>>
  BY DEF Uploads
<1>2. WriteOK(s)' /\ Whole(disk[s])' = Whole(disk[s])
  BY <1>1 DEF WriteOK, SameRefs, Write, Whole, LastLine
<1> QED BY <1>1, <1>2 DEF Write, LastLine

LEMMA EraseKeeps ==
  ASSUME Uploads, NEW s, NEW m, Erase(s, m)
  PROVE  Erase(s, m)'
<1>1. UNCHANGED <<disk, mem, active, op, acked, released>>
  BY DEF Uploads
<1>2. Loose(s) => Loose(s)'
  BY <1>1 DEF Loose, Needed
<1>3. (EraseOK(s) => EraseOK(s)') /\ (Condemned(s, m) => Condemned(s, m)') /\ (Doomed(s) => Doomed(s)')
  BY <1>1, <1>2 DEF EraseOK, Condemned, Doomed
<1>4. Agree(s) => Agree(s)'
  BY <1>1 DEF Agree, SameRefs
<1> QED BY <1>1, <1>3, <1>4 DEF Erase

LEMMA UploadsGo ==
  ASSUME IInv, up, op.kind # "open", Uploads, DiskInv',
         pub' \in [segment : Segments \cup {NoSegment}, upload : BOOLEAN, at : Places],
         pub'.at # "idle" => pub'.segment \in Segments /\ mem[pub'.segment].state = "Pending"
  PROVE  IInv'
<1>1. UNCHANGED <<disk, mem, active, op, health, up, target, sent, acked, released>>
  BY DEF Uploads
<1>2. PinsOK'
  <2>1. ASSUME NEW t \in Segments, NEW key \in Keys, Needed(t, key)' PROVE Kept(t, key)'
    <3>1. Needed(t, key)
      BY <1>1, <2>1 DEF Needed
    <3>2. Kept(t, key)
      BY <3>1 DEF IInv, PinsOK
    <3> QED BY <1>1, <3>2, KeptStays
  <2> QED BY <2>1 DEF PinsOK
<1>3. OpTypes'
  BY <1>1 DEF IInv, OpTypes
<1>4. DownOK' /\ ActiveOK' /\ OpeningOK' /\ PubOK'
  BY <1>1 DEF IInv, DownOK, ActiveOK, OpeningOK, Opening, PubOK
<1>5. ServingOK'
  <2>1. ASSUME NEW s \in Segments PROVE Basic(s)'
    <3>1. Basic(s) /\ (objects'[s] = objects[s] \/ mem[s].state = "Pending")
      BY DEF IInv, ServingOK, Serving, Uploads
    <3> QED BY <1>1, <3>1 DEF Basic
  <2>2. ASSUME NEW s \in Segments, health # "failed", ~ Works(s)' PROVE Agree(s)'
    <3>1. Agree(s)
      BY <1>1, <2>2 DEF IInv, ServingOK, Serving, Works
    <3> QED BY <1>1, <3>1 DEF Agree, SameRefs
  <2> QED BY <1>1, <2>1, <2>2 DEF ServingOK
<1>6. BatchOK'
  <2>1. (\A s \in Segments : Secure(disk[s])' = Secure(disk[s])) /\ InFlight' = InFlight
    BY <1>1 DEF Secure, InFlight
  <2> QED BY <1>1, <2>1 DEF IInv, BatchOK, Writing
<1>7. CitesOK' /\ CatalogOK'
  <2>1. ASSUME NEW s \in Segments, NEW key, Given(s, key) PROVE Given(s, key)'
    BY <1>1, <2>1 DEF Given, Kept, Works
  <2>2. CitesOK'
    BY <1>1, <2>1 DEF IInv, CitesOK, Writing
  <2>3. CatalogOK'
    BY <1>1, <2>1 DEF IInv, CatalogOK
  <2> QED BY <2>2, <2>3
<1>8. AtWork'
  <2>1. CASE op.todo = <<>>
    BY <1>1, <2>1 DEF AtWork
  <2>2. CASE op.todo # <<>>
    <3> DEFINE s == Head(op.todo).seg
               x == Head(op.todo).arg
    <3>1. Alter(s, x) \/ Create(s) \/ Write(s, x) \/ Erase(s, x)
      BY <2>2 DEF IInv, AtWork, Salvage, SalvageOK
    <3>2. s' = s /\ x' = x /\ op'.todo # <<>>
      BY <1>1, <2>2
    <3>3. PICK t, y : t = s /\ y = x
      OBVIOUS
    <3>4. Alter(t, y)' \/ Create(t)' \/ Write(t, y)' \/ Erase(t, y)'
      <4>1. Alter(t, y) \/ Create(t) \/ Write(t, y) \/ Erase(t, y)
        BY <3>1, <3>3
      <4> QED BY <2>2, <4>1, AlterKeeps, CreateKeeps, WriteKeeps, EraseKeeps
    <3>5. Head(op'.todo).seg = t /\ Head(op'.todo).arg = y
      BY <3>2, <3>3
    <3> HIDE DEF s, x
    <3> QED BY <3>4, <3>5 DEF AtWork
  <2> QED BY <2>1, <2>2
<1> QED BY <1>2, <1>3, <1>4, <1>5, <1>6, <1>7, <1>8 DEF IInv

(* What an attempt knows of its segment. *)
LEMMA UploadAt ==
  ASSUME IInv, up, pub.at # "idle"
  PROVE  /\ op.kind # "open" /\ pub.segment \in Segments /\ mem[pub.segment].state = "Pending"
         /\ pub = [segment |-> pub.segment, upload |-> pub.upload, at |-> pub.at]
         /\ pub.upload \in BOOLEAN /\ Basic(pub.segment)
<1>1. op.kind # "open"
  <2>1. pub # NoUpload
    BY NoUploadIs
  <2> QED BY <2>1 DEF IInv, OpeningOK, Opening
<1>2. pub.segment \in Segments /\ mem[pub.segment].state = "Pending"
  BY DEF IInv, OpTypes, PubOK
<1>3. pub \in [segment : Segments \cup {NoSegment}, upload : BOOLEAN, at : Places]
  BY DEF IInv, OpTypes
<1>4. Basic(pub.segment)
  BY <1>1, <1>2 DEF IInv, ServingOK, Serving
<1> QED BY <1>1, <1>2, <1>3, <1>4

LEMMA AtIs ==
  ASSUME IInv, up, pub.at # "idle", NEW at \in Places
  PROVE  /\ At(at) \in [segment : Segments \cup {NoSegment}, upload : BOOLEAN, at : Places]
         /\ At(at).segment = pub.segment
<1>1. /\ pub = [segment |-> pub.segment, upload |-> pub.upload, at |-> pub.at]
      /\ pub.segment \in Segments /\ pub.upload \in BOOLEAN
  BY UploadAt
<1> QED BY <1>1 DEF At

(* Nothing is stored. *)
LEMMA UploadTurns ==
  ASSUME IInv, up, pub.at # "idle", NEW new,
         new = NoUpload \/ \E at \in Places : new = At(at),
         pub' = new, UNCHANGED <<disk, mem, active, op, health, up, target, objects, sent, acked, released>>
  PROVE  IInv'
<1>1. op.kind # "open" /\ pub.segment \in Segments /\ mem[pub.segment].state = "Pending"
  BY UploadAt
<1>2. Uploads
  BY DEF Uploads
<1>3. sent \subseteq Captures /\ released \subseteq Segments \X Keys
  BY DEF IInv, DiskInv, DiskTypes
<1>4. DiskInv'
  BY <1>3, SameDisk
<1>5. new \in [segment : Segments \cup {NoSegment}, upload : BOOLEAN, at : Places]
      /\ (new.at # "idle" => new.segment = pub.segment)
  BY AtIs, NoUploadIs
<1> QED BY <1>1, <1>2, <1>4, <1>5, UploadsGo

LEMMA ChooseTurn ==
  ASSUME IInv, NEW s \in Segments, Choose(s)
  PROVE  IInv' /\ UNCHANGED <<disk, objects, acked>>
<1>1. /\ up /\ op.kind # "open" /\ op.todo = <<>> /\ mem[s].state = "Pending"
      /\ pub' = [segment |-> s, upload |-> mem[s].upload, at |-> "head"]
      /\ UNCHANGED <<disk, mem, active, op, health, up, target, objects, sent, acked, released>>
  BY FreeIs DEF Choose, Attempt
<1>2. Uploads
  BY <1>1 DEF Uploads
<1>3. sent \subseteq Captures /\ released \subseteq Segments \X Keys /\ mem[s] \in Metas
  BY DEF IInv, DiskInv, DiskTypes, OpTypes
<1>4. DiskInv'
  BY <1>1, <1>3, SameDisk
<1>5. pub' \in [segment : Segments \cup {NoSegment}, upload : BOOLEAN, at : Places]
      /\ pub'.segment = s
  BY <1>1, <1>3 DEF Metas, Places
<1>6. IInv'
  BY <1>1, <1>2, <1>4, <1>5, UploadsGo
<1> QED BY <1>1, <1>6

(* The segment was stored: what the object store has of it is what is      *)
(* secure of it.                                                           *)
Archives ==
  \E C \in SUBSET Captures :
    /\ C \subseteq UNION {Secure(disk[s]) : s \in Segments}
    /\ UNION {ToSet(objects'[s]) : s \in Segments} = (UNION {ToSet(objects[s]) : s \in Segments}) \cup C

LEMMA StoresAt ==
  ASSUME IInv, NEW s \in Segments, mem[s].state = "Pending", Basic(s),
         objects' = [objects EXCEPT ![s] = disk[s].data], UNCHANGED <<disk, sent, acked, released>>
  PROVE  DiskInv' /\ Archives
<1> DEFINE f == disk[s]
<1>1. /\ f \in Files /\ FileOK(f) /\ ObjectOK(s, f) /\ objects[s] \in Seq(Captures)
      /\ f.data \in Seq(Captures)
  BY DiskAt DEF IInv, Files
<1>2. Whole(f) /\ f.meta.state \in Sealed /\ f.old.state \in Sealed
  BY DEF Basic, Sealed
<1>3. objects[s] # <<>> => objects[s] = f.data
  BY <1>1, <1>2 DEF ObjectOK, Whole
<1>4. f.entry = "kept" /\ f.synced = Len(f.data) /\ f.meta.state # "Open" /\ f.old.state # "Open"
  BY <1>2 DEF Whole, Sealed
<1>5. /\ objects' \in [Segments -> Seq(Captures)] /\ objects'[s] = f.data
      /\ \A t \in Segments : t # s => objects'[t] = objects[t]
  <2>1. objects \in [Segments -> Seq(Captures)]
    BY DEF IInv, DiskInv, DiskTypes
  <2> QED BY <1>1, <2>1
<1>6. ToSet(objects[s]) \subseteq ToSet(f.data) /\ ToSet(f.data) \subseteq sent
  BY <1>3, ToSetNone DEF IInv, DiskInv, CapturesOK
<1>7. ToSet(f.data) = Secure(f)
  <2>1. f.meta.state \in Live /\ f.old.state \in Live
    BY <1>2 DEF Live
  <2> QED BY <1>1, <1>2, <2>1, WholeSecure
<1>8. f.meta.state = "Published" \/ f.old.state = "Published" => f.data # <<>>
  BY <1>1, <1>3 DEF ObjectOK
<1>9. ASSUME NEW t \in Segments PROVE ObjectOK(t, disk[t])' /\ ToSet(objects'[t]) \subseteq sent
  <2>1. CASE t = s
    <3>1. disk'[t] = f /\ objects'[t] = f.data
      BY <1>5, <2>1
    <3> HIDE DEF f
    <3> QED BY <3>1, <1>4, <1>6, <1>8 DEF ObjectOK
  <2>2. CASE t # s
    <3>1. disk'[t] = disk[t] /\ objects'[t] = objects[t]
      BY <1>5, <2>2
    <3> QED BY <3>1 DEF IInv, DiskInv, ObjectsOK, ObjectOK
  <2> QED BY <2>1, <2>2
<1>10. AckedOK'
  <2>1. \A r \in acked : r[2] \in Segments
    BY DEF IInv, DiskInv, DiskTypes
  <2>2. \A t \in Segments : ToSet(objects[t]) \subseteq ToSet(objects'[t])
    BY <1>5, <1>6
  <2>3. \A t \in Segments : Secure(disk[t])' = Secure(disk[t])
    BY DEF Secure
  <2>4. ASSUME NEW r \in acked
        PROVE  r[1] \in sent /\ (r[1] \in Secure(disk[r[2]])' \/ r[1] \in ToSet(objects'[r[2]]))
    <3>1. r[1] \in sent /\ (r[1] \in Secure(disk[r[2]]) \/ r[1] \in ToSet(objects[r[2]]))
      BY DEF IInv, DiskInv, AckedOK
    <3> QED BY <2>1, <2>2, <2>3, <3>1
  <2>5. \A r \in acked : Cites[r[1]] # NoCapture => \E q \in acked : q[1] = Cites[r[1]]
    BY DEF IInv, DiskInv, AckedOK
  <2> QED BY <2>4, <2>5 DEF AckedOK
<1>11. DiskInv'
  <2>1. DiskTypes'
    BY <1>5 DEF IInv, DiskInv, DiskTypes
  <2>2. (\A t \in Segments : FileOK(disk'[t])) /\ NotedOK' /\ CapturesOK'
    BY DEF IInv, DiskInv, NotedOK, Noted, CapturesOK
  <2>3. ObjectsOK'
    BY <1>9 DEF ObjectsOK
  <2> QED BY <1>10, <2>1, <2>2, <2>3 DEF DiskInv
<1>12. Archives
  <2>1. Secure(f) \subseteq UNION {Secure(disk[t]) : t \in Segments}
    OBVIOUS
  <2>2. UNION {ToSet(objects'[t]) : t \in Segments}
        = (UNION {ToSet(objects[t]) : t \in Segments}) \cup Secure(f)
    <3>1. \A t \in Segments : ToSet(objects[t]) \subseteq ToSet(objects'[t])
      BY <1>5, <1>6
    <3>2. \A t \in Segments : ToSet(objects'[t]) \subseteq ToSet(objects[t]) \cup Secure(f)
      BY <1>5, <1>7
    <3>3. Secure(f) \subseteq ToSet(objects'[s])
      BY <1>5, <1>7
    <3> HIDE DEF f
    <3> QED BY <3>1, <3>2, <3>3
  <2>3. Secure(f) \in SUBSET Captures
    BY <1>1, <1>7, ToSetIn
  <2> HIDE DEF f
  <2> QED BY <2>1, <2>2, <2>3 DEF Archives
<1> QED BY <1>11, <1>12

LEMMA ObjectStored ==
  ASSUME IInv, up, pub.at # "idle", NEW new, new = NoUpload \/ new = At("confirm"), pub' = new,
         objects' = [objects EXCEPT ![pub.segment] = disk[pub.segment].data],
         UNCHANGED <<disk, mem, active, op, health, up, target, sent, acked, released>>
  PROVE  IInv' /\ Archives
<1>1. op.kind # "open" /\ pub.segment \in Segments /\ mem[pub.segment].state = "Pending"
      /\ Basic(pub.segment)
  BY UploadAt
<1>2. PICK s \in Segments : s = pub.segment
  BY <1>1
<1>3. DiskInv' /\ Archives
  BY <1>1, <1>2, StoresAt
<1>4. Uploads
  <2>1. \A t \in Segments : t # s => objects'[t] = objects[t]
    BY <1>2 DEF IInv, DiskInv, DiskTypes
  <2> QED BY <1>1, <1>2, <2>1 DEF Uploads
<1>5. new \in [segment : Segments \cup {NoSegment}, upload : BOOLEAN, at : Places]
      /\ (new.at # "idle" => new.segment = pub.segment)
  <2>1. "confirm" \in Places
    BY DEF Places
  <2> QED BY <2>1, AtIs, NoUploadIs
<1>6. IInv'
  BY <1>1, <1>3, <1>4, <1>5, UploadsGo
<1> QED BY <1>3, <1>6
LEMMA LookTurn ==
  ASSUME IInv, Look \/ AbortUpload \/ Initiate
  PROVE  IInv' /\ UNCHANGED <<disk, objects, acked>>
<1>1. \E at \in Places : pub' = At(at)
  BY DEF Look, AbortUpload, Initiate, Attempt, Places
<1>2. up /\ pub.at # "idle"
  BY DEF Look, AbortUpload, Initiate, Uploading
<1>3. UNCHANGED <<disk, mem, active, op, health, up, target, objects, sent, acked, released>>
  BY DEF Look, AbortUpload, Initiate, Attempt
<1>4. PICK new : pub' = new
  OBVIOUS
<1>5. IInv'
  BY <1>1, <1>2, <1>3, <1>4, UploadTurns
<1> QED BY <1>3, <1>5

LEMMA LookLostTurn ==
  ASSUME IInv, LookLost
  PROVE  IInv' /\ UNCHANGED <<disk, objects, acked>>
<1>1. \E at \in Places : pub' = At(at)
  BY DEF LookLost, Places
<1>2. up /\ pub.at # "idle"
  BY DEF LookLost, Uploading
<1>3. UNCHANGED <<disk, mem, active, op, health, up, target, objects, sent, acked, released>>
  BY DEF LookLost
<1>4. PICK new : pub' = new
  OBVIOUS
<1>5. IInv'
  BY <1>1, <1>2, <1>3, <1>4, UploadTurns
<1> QED BY <1>3, <1>5

LEMMA PutTurn ==
  ASSUME IInv, Put
  PROVE  IInv' /\ Archives /\ UNCHANGED <<disk, acked>>
<1>1. up /\ pub.at # "idle"
  BY DEF Put, Uploading
<1>2. /\ objects' = [objects EXCEPT ![pub.segment] = disk[pub.segment].data]
      /\ UNCHANGED <<disk, mem, active, op, health, up, target, sent, acked, released>>
  BY DEF Put
<1>3. PICK new : pub' = new
  OBVIOUS
<1>4. new = At("confirm")
  BY <1>3 DEF Put
<1> QED BY <1>1, <1>2, <1>3, <1>4, ObjectStored

LEMMA AttemptFailsTurn ==
  ASSUME IInv, AttemptFails
  PROVE  IInv' /\ (UNCHANGED objects \/ Archives) /\ UNCHANGED <<disk, acked>>
<1>1. up /\ pub.at # "idle" /\ pub' = NoUpload
      /\ UNCHANGED <<disk, mem, active, op, health, up, target, sent, acked, released>>
  BY DEF AttemptFails
<1>2. PICK new : pub' = new /\ new = NoUpload
  BY <1>1
<1>3. CASE UNCHANGED objects
  BY <1>1, <1>2, <1>3, UploadTurns
<1>4. CASE objects' = [objects EXCEPT ![pub.segment] = disk[pub.segment].data]
  BY <1>1, <1>2, <1>4, ObjectStored
<1> QED BY <1>3, <1>4 DEF AttemptFails

LEMMA RememberTurn ==
  ASSUME IInv, RememberUpload
  PROVE  IInv' /\ UNCHANGED <<disk, objects, acked>>
<1>1. /\ up /\ op.kind # "open" /\ op.todo = <<>> /\ pub.at # "idle"
      /\ UNCHANGED <<disk, mem, active, health, up, target, objects, sent, acked, released>>
      /\ pub' = At("parts")
  BY FreeIs DEF RememberUpload, Uploading
<1>2. PICK s \in Segments : s = pub.segment
  BY <1>1, UploadAt
<1>3. PICK m : m = [mem[s] EXCEPT !.upload = TRUE]
  OBVIOUS
<1>4. op'.kind = "remember" /\ op'.batch = <<>> /\ op'.rest = <<>> /\ op'.pins = {} /\ Shaped'
      /\ op'.todo = Save(s, m)
  BY <1>2, <1>3 DEF RememberUpload, Idle, Shaped
<1>5. mem[s] \in Metas /\ released \subseteq Segments \X Keys /\ sent \subseteq Captures
      /\ mem[s].state = "Pending"
  BY <1>1, <1>2, ServingAt, UploadAt
<1>6. m \in Metas /\ m.state = mem[s].state /\ m.records = mem[s].records
      /\ m.references = mem[s].references
  BY <1>3, <1>5 DEF Metas
<1>7. "remember" \in Kinds \ {"open", "idle"} /\ "Pending" \in Live /\ "parts" \in Places
  BY DEF Kinds, Live, Sealed, Places
<1>8. Alters(s, m)
  BY <1>4, <1>5, <1>6, <1>7 DEF Alters
<1>9. Continues
  BY <1>1 DEF Continues
<1>10. AtWork'
  BY <1>1, <1>8, <1>9, AltersWork
<1>11. BatchOK' /\ CitesOK' /\ CatalogOK'
  BY <1>4, NoBatch
<1>12. pub' \in [segment : Segments \cup {NoSegment}, upload : BOOLEAN, at : Places]
       /\ pub'.segment = s
  BY <1>1, <1>2, <1>7, AtIs
<1>13. /\ mem' \in [Segments -> Metas] /\ active' \in Segments \cup {NoSegment} /\ up' \in BOOLEAN
       /\ target' \in BOOLEAN /\ health' \in {"ok", "poisoned", "failed"}
  BY <1>1 DEF IInv, OpTypes
<1>14. OpTypes'
  BY <1>4, <1>7, <1>12, <1>13, IdleIs, TypesTurn
<1>15. PubOK'
  BY <1>1, <1>5, <1>12 DEF PubOK
<1>16. IInv'
  BY <1>1, <1>4, <1>5, <1>9, <1>10, <1>11, <1>14, <1>15, AtRest, NewOp
<1> QED BY <1>1, <1>16

LEMMA PublishedTurn ==
  ASSUME IInv, Published
  PROVE  IInv' /\ UNCHANGED <<disk, objects, acked>>
<1>1. /\ up /\ op.kind # "open" /\ op.todo = <<>> /\ pub.at # "idle" /\ Stored(pub.segment)
      /\ UNCHANGED <<disk, mem, active, health, up, target, objects, sent, acked, released>>
      /\ pub' = NoUpload
  BY FreeIs DEF Published, Uploading
<1>2. PICK s \in Segments : s = pub.segment
  BY <1>1, UploadAt
<1>3. PICK m : m = [mem[s] EXCEPT !.state = "Published", !.upload = FALSE]
  OBVIOUS
<1>4. op'.kind = "publish" /\ op'.batch = <<>> /\ op'.rest = <<>> /\ op'.pins = {} /\ Shaped'
      /\ op'.todo = Save(s, m)
  BY <1>2, <1>3 DEF Published, Idle, Shaped
<1>5. mem[s] \in Metas /\ released \subseteq Segments \X Keys /\ mem[s].state = "Pending"
  BY <1>1, <1>2, ServingAt, UploadAt
<1>6. m \in Metas /\ m.state = "Published" /\ m.records = mem[s].records
      /\ m.references = mem[s].references
  BY <1>3, <1>5 DEF Metas, States, Live, Sealed
<1>7. "publish" \in Kinds \ {"open", "idle"} /\ {"Pending", "Published"} \subseteq Live
      /\ objects[s] # <<>>
  BY <1>1, <1>2 DEF Kinds, Live, Sealed, Stored
<1>8. Alters(s, m)
  BY <1>1, <1>4, <1>5, <1>6, <1>7 DEF Alters
<1>9. Continues /\ pub' \in {pub, NoUpload} /\ UNCHANGED <<health, sent>>
  BY <1>1 DEF Continues
<1>10. IInv'
  BY <1>1, <1>4, <1>5, <1>8, <1>9, AltersTurn
<1> QED BY <1>1, <1>10
-----------------------------------------------------------------------------
(* The invariant of the specification *)

LEMMA Starts ==
  ASSUME Init
  PROVE  IInv
<1>1. /\ disk = [s \in Segments |-> Absent] /\ mem = [s \in Segments |-> NoMeta]
      /\ active = NoSegment /\ op = Idle /\ health = "ok" /\ up = FALSE /\ target \in BOOLEAN
      /\ pub = NoUpload /\ objects = [s \in Segments |-> <<>>]
      /\ sent = {} /\ acked = {} /\ released = {}
  BY DEF Init
<1>2. \A s \in Segments : disk[s] = Absent /\ objects[s] = <<>>
  BY <1>1
<1>3. FileOK(Absent)
  <2>1. Journaled(Absent) /\ Empty(Absent)
    BY AbsentIs DEF Journaled, Empty
  <2>2. Tells(NoMeta, Absent)
    BY <2>1, NoMetaIs DEF Tells, Sealed
  <2> QED BY <2>1, <2>2, AbsentIs DEF FileOK
<1>4. DiskTypes
  BY <1>1, AbsentIs, IdleIs DEF DiskTypes
<1>5. NotedOK
  <2>1. Noted = {}
    BY <1>2, AbsentIs, NoMetaIs DEF Noted
  <2>2. IsFiniteSet({}) /\ Cardinality({}) = 0
    BY FS_EmptySet
  <2> QED BY <2>1, <2>2, SpoolAssumptions DEF NotedOK
<1>6. CapturesOK
  BY <1>2, AbsentIs, ToSetNone DEF CapturesOK
<1>7. ObjectsOK
  BY <1>2, AbsentIs, NoMetaIs, ToSetNone DEF ObjectsOK, ObjectOK
<1>8. AckedOK /\ PinsOK
  BY <1>1 DEF AckedOK, PinsOK, Needed
<1>9. DiskInv
  BY <1>2, <1>3, <1>4, <1>5, <1>6, <1>7, <1>8 DEF DiskInv
<1>10. OpTypes
  <2>1. mem \in [Segments -> Metas]
    BY <1>1, NoMetaIs
  <2>2. op = [kind |-> op.kind, todo |-> op.todo, batch |-> op.batch, rest |-> op.rest, pins |-> op.pins]
    BY <1>1 DEF Idle
  <2> QED BY <1>1, <2>1, <2>2, IdleIs, NoUploadIs DEF OpTypes
<1>11. DownOK /\ ActiveOK /\ ServingOK /\ OpeningOK /\ PubOK
  BY <1>1, NoUploadIs DEF DownOK, ActiveOK, ServingOK, Serving, OpeningOK, Opening, PubOK
<1>12. BatchOK /\ CitesOK /\ CatalogOK /\ AtWork
  BY <1>1, IdleIs DEF BatchOK, CitesOK, CatalogOK, Writing, AtWork
<1> QED BY <1>8, <1>9, <1>10, <1>11, <1>12 DEF IInv

(* What a step may do to what was promised: nothing but one of these. *)
Acknowledges ==
  \E C \in SUBSET Captures :
    /\ C \subseteq UNION {Secure(disk[s]) : s \in Segments}
    /\ {r[1] : r \in acked'} = {r[1] : r \in acked} \cup C

Moves ==
  \/ UNCHANGED <<disk, objects, acked>>
  \/ (Grows \/ Drops) /\ UNCHANGED <<objects, acked>>
  \/ Archives /\ UNCHANGED <<disk, acked>>
  \/ Acknowledges /\ UNCHANGED <<disk, objects>>

LEMMA ProceedTurn ==
  ASSUME IInv, Proceed
  PROVE  IInv' /\ Moves
<1>1. CASE Step
  BY <1>1, EachStep DEF Step, Moves
<1>2. CASE RecoverNext
  BY <1>2, RecoverTurn DEF RecoverNext, Moves
<1>3. CASE Opens
  BY <1>3, OpensTurn DEF Opens, Moves
<1>4. CASE Cite
  BY <1>4, CiteTurn DEF Moves
<1>5. CASE NextGroup
  BY <1>5, NextGroupTurn DEF Moves
<1>6. CASE Appended
  BY <1>6, AppendedTurn DEF Moves
<1>7. CASE Pin
  BY <1>7, PinTurn DEF Moves
<1>8. CASE Reply({})
  BY <1>8, ReplyTurn DEF Moves, Acknowledges
<1>9. CASE Ends
  BY <1>9, EndsTurn DEF Ends, Continue, Moves
<1>10. CASE Finished
  BY <1>10, KilledTurn DEF Moves
<1> QED BY <1>1, <1>2, <1>3, <1>4, <1>5, <1>6, <1>7, <1>8, <1>9, <1>10 DEF Proceed

LEMMA UploadTurn ==
  ASSUME IInv, Upload
  PROVE  IInv' /\ Moves
<1>1. CASE \E s \in Segments : Choose(s)
  BY <1>1, ChooseTurn DEF Moves
<1>2. CASE Look \/ AbortUpload \/ Initiate
  BY <1>2, LookTurn DEF Moves
<1>3. CASE Put
  BY <1>3, PutTurn DEF Moves
<1>4. CASE RememberUpload
  BY <1>4, RememberTurn DEF Moves
<1>5. CASE Published
  BY <1>5, PublishedTurn DEF Moves
<1> QED BY <1>1, <1>2, <1>3, <1>4, <1>5 DEF Upload

LEMMA NextTurn ==
  ASSUME IInv, Next
  PROVE  IInv' /\ Moves
<1>1. CASE Open
  BY <1>1, OpenStarts DEF Open, Moves
<1>2. CASE Proceed
  BY <1>2, ProceedTurn
<1>3. CASE Upload
  BY <1>3, UploadTurn
<1>4. CASE \E b \in Batches : Submit(b)
  BY <1>4, SubmitTurn DEF Moves
<1>5. CASE \E C \in SUBSET ToSet(op.batch) : Reply(C)
  BY <1>5, ReplyTurn DEF Moves, Acknowledges
<1>6. CASE Tick \/ Finish
  BY <1>6, TickTurn, FinishTurn DEF Moves
<1>7. CASE \E s \in Segments : Gc(s)
  BY <1>7, GcTurn DEF Moves
<1>8. CASE \E s \in Segments, key \in GivenUp : Release(s, key)
  BY <1>8, ReleaseTurn DEF Moves
<1>9. CASE LookLost
  BY <1>9, LookLostTurn DEF Moves
<1>10. CASE AttemptFails
  BY <1>10, AttemptFailsTurn DEF Moves
<1>11. CASE DiskFails
  BY <1>11, DiskFailsTurn DEF Moves
<1>12. CASE Killed
  BY <1>12, KilledTurn DEF Moves
<1>13. CASE PowerLost
  BY <1>13, PowerLoses DEF Moves
<1> QED BY <1>1, <1>2, <1>3, <1>4, <1>5, <1>6, <1>7, <1>8, <1>9, <1>10, <1>11, <1>12, <1>13 DEF Next

LEMMA Stutters ==
  ASSUME IInv, UNCHANGED vars
  PROVE  IInv' /\ UNCHANGED <<disk, objects, acked>>
<1>1. UNCHANGED <<disk, mem, active, op, health, up, target, pub, objects, sent, acked, released>>
  BY DEF vars
<1>2. DiskInv' /\ PinsOK'
  BY <1>1 DEF IInv, DiskInv, DiskTypes, NotedOK, Noted, CapturesOK, ObjectsOK, ObjectOK, AckedOK,
              PinsOK, Needed, Kept
<1>3. OpTypes' /\ DownOK' /\ ActiveOK' /\ PubOK'
  BY <1>1 DEF IInv, OpTypes, DownOK, ActiveOK, PubOK
<1>4. ServingOK' /\ OpeningOK'
  BY <1>1 DEF IInv, ServingOK, Serving, Basic, Works, Agree, SameRefs, OpeningOK, Opening, Told
<1>5. BatchOK' /\ CitesOK' /\ CatalogOK'
  BY <1>1 DEF IInv, BatchOK, Writing, InFlight, CitesOK, CatalogOK, Given, Works, Kept
<1>6. AtWork'
  <2> DEFINE s == Head(op.todo).seg
             x == Head(op.todo).arg
  <2>1. Alter(s, x) => Alter(s, x)'
    BY <1>1 DEF Alter, AlterOK, Agree, SameRefs, Needed
  <2>2. Create(s) => Create(s)'
    BY <1>1 DEF Create, CreateOK, Noted
  <2>3. Write(s, x) => Write(s, x)'
    BY <1>1 DEF Write, WriteOK, SameRefs
  <2>4. Erase(s, x) => Erase(s, x)'
    BY <1>1 DEF Erase, EraseOK, Loose, Needed, Condemned, Doomed, Agree, SameRefs
  <2>5. Salvage(s, x) => Salvage(s, x)'
    BY <1>1 DEF Salvage, SalvageOK, Told, Later, Unused, Loose, Needed, Regained, Recovered, SealedState
  <2> QED BY <1>1, <2>1, <2>2, <2>3, <2>4, <2>5 DEF IInv, AtWork
<1> QED BY <1>1, <1>2, <1>3, <1>4, <1>5, <1>6 DEF IInv
(* Every state of the spool, its two tasks and the disk keeps the           *)
(* invariant, whichever effect a fault falls on.                           *)
THEOREM Inductive == Spec => []IInv
<1>1. Init => IInv
  BY Starts
<1>2. IInv /\ [Next]_vars => IInv'
  BY NextTurn, Stutters
<1> QED BY <1>1, <1>2, PTL DEF Spec

(* Descriptors, files and what was stored are what the code can write; the *)
(* segment in use is one that memory takes for open.                       *)
THEOREM Typed == Spec => []TypeOK
<1>1. IInv => TypeOK
  <2> SUFFICES ASSUME IInv PROVE TypeOK
    OBVIOUS
  <2>1. ASSUME NEW s \in Segments
        PROVE  /\ disk[s].meta.state \in {"None", "Open", "Local", "Pending", "Published", "Deleting"}
               /\ disk[s].synced <= Len(disk[s].data)
               /\ ToSet(objects[s]) \subseteq sent
    <3>1. disk[s] \in Files /\ FileOK(disk[s]) /\ disk[s].meta \in Metas
      BY DiskAt DEF IInv, Files
    <3>2. disk[s].meta.state \in {"None", "Open", "Local", "Pending", "Published", "Deleting"}
      BY <3>1 DEF Metas, States, Live, Sealed
    <3>3. disk[s].synced <= Len(disk[s].data)
      BY <3>1 DEF FileOK, Journaled
    <3> QED BY <3>2, <3>3 DEF IInv, DiskInv, ObjectsOK
  <2>2. /\ active # NoSegment => mem[active].state = "Open"
        /\ health \in {"ok", "poisoned", "failed"} /\ pub.segment \in Segments \cup {NoSegment}
        /\ sent \subseteq Captures /\ acked \subseteq Captures \X Segments
    BY DEF IInv, ActiveOK, OpTypes, DiskInv, DiskTypes
  <2> QED BY <2>1, <2>2 DEF TypeOK
<1> QED BY <1>1, Inductive, PTL

(* Spool::open accepts what an end of the process or a loss of power has    *)
(* left, at whichever effect of whichever operation it came.               *)
THEOREM OpensAlways == Spec => []OpensAgain
<1>1. IInv => OpensAgain
  <2> SUFFICES ASSUME IInv PROVE CanOpen
    BY DEF OpensAgain
  <2>1. Cardinality(Described) <= MaxSegments
    BY FewerNoted DEF IInv, DiskInv, Described, Noted
  <2>2. ASSUME NEW s \in Segments PROVE Readable(s)
    <3> DEFINE f == disk[s]
    <3>1. f \in Files /\ FileOK(f) /\ f.meta \in Metas /\ Tells(f.meta, f)
      BY DiskAt DEF IInv, Files, FileOK
    <3>2. CASE f.meta.state = "None"
      BY <3>1, <3>2 DEF Readable, Tells, Empty
    <3>3. CASE f.meta.state = "Open"
      <4>1. f.entry = "kept" /\ LastLine(f) <= Len(f.data)
        <5>1. LastLine(f) \in Nat /\ LastLine(f) <= f.synced /\ f.synced <= Len(f.data)
          BY <3>1, LastLineIs DEF FileOK, Journaled
        <5>2. f.synced \in Nat /\ Len(f.data) \in Nat
          BY <3>1 DEF Files
        <5> QED BY <3>1, <3>3, <5>1, <5>2 DEF Tells
      <4> QED BY <3>3, <4>1 DEF Readable, Visible
    <3>4. CASE f.meta.state \in Sealed
      BY <3>1, <3>4 DEF Readable, Visible, Tells, Whole, Sealed
    <3>5. CASE f.meta.state = "Deleting"
      BY <3>1, <3>5 DEF Readable, Tells
    <3> QED BY <3>1, <3>2, <3>3, <3>4, <3>5, MetaSplit
  <2> QED BY <2>1, <2>2 DEF CanOpen
<1> QED BY <1>1, Inductive, PTL

(* The references that acknowledged captures need are on the disk, beyond   *)
(* the reach of a loss of power, until they are given up.                  *)
THEOREM PinnedStay == Spec => []PinnedUntilReleased
<1>1. IInv => PinnedUntilReleased
  <2> SUFFICES ASSUME IInv, NEW r \in acked
               PROVE  IF Cites[r[1]] = NoCapture THEN Pinned(r[2], Catalog)
                      ELSE \A s \in PlaceOf(Cites[r[1]]) : Pinned(s, Confirmed)
    BY DEF PinnedUntilReleased
  <2>1. r \in Captures \X Segments /\ Catalog \in Keys /\ Confirmed \in Keys
    BY DEF IInv, DiskInv, DiskTypes, Keys
  <2>2. ASSUME NEW s \in Segments, NEW key \in Keys, Needed(s, key) PROVE Pinned(s, key)
    BY <2>2 DEF IInv, PinsOK, Kept, Pinned
  <2>3. CASE Cites[r[1]] = NoCapture
    <3>1. r[2] \in Segments /\ Needed(r[2], Catalog)
      BY <2>1, <2>3 DEF Needed
    <3> QED BY <2>1, <2>2, <2>3, <3>1
  <2>4. CASE Cites[r[1]] # NoCapture
    <3>1. ASSUME NEW s \in PlaceOf(Cites[r[1]]) PROVE Pinned(s, Confirmed)
      <4>1. s \in Segments /\ Needed(s, Confirmed)
        BY <2>4, <3>1 DEF PlaceOf, Needed
      <4> QED BY <2>1, <2>2, <4>1
    <3> QED BY <2>4, <3>1
  <2> QED BY <2>3, <2>4
<1> QED BY <1>1, Inductive, PTL
-----------------------------------------------------------------------------
(* The promise *)

KeptNow == UNION {Durable(s) : s \in Segments}
AckedNow == {r[1] : r \in acked}
ArchivedNow == UNION {ToSet(objects[s]) : s \in Segments}

LEMMA KeptIs ==
  /\ KeptNow = UNION {Secure(disk[s]) : s \in Segments}
  /\ KeptNow' = UNION {Secure(disk'[s]) : s \in Segments}
<1>1. \A s \in Segments : Durable(s) = Secure(disk[s])
  BY DurableIs
<1>2. \A s \in Segments : Durable(s)' = Secure(disk'[s])
  BY DEF Durable, Secure
<1>3. KeptNow' = UNION {Durable(s)' : s \in Segments}
  BY DEF KeptNow
<1> QED BY <1>1, <1>2, <1>3 DEF KeptNow

LEMMA KeptAre ==
  ASSUME IInv
  PROVE  UNION {Secure(disk[s]) : s \in Segments} \subseteq Captures
<1>1. ASSUME NEW s \in Segments PROVE Secure(disk[s]) \subseteq Captures
  <2>1. disk[s] \in Files /\ FileOK(disk[s]) /\ disk[s].data \in Seq(Captures)
    BY DiskAt DEF IInv, Files
  <2> QED BY <2>1, SecureIn, ToSetIn
<1> QED BY <1>1

(* A step that keeps captures or drops them, for the promise. *)
LEMMA GrowsKeeps ==
  ASSUME IInv', Grows
  PROVE  \E C \in SUBSET Captures : KeptNow' = KeptNow \cup C
<1>1. KeptNow' \subseteq Captures
  <2>1. UNION {Secure(disk'[s]) : s \in Segments} \subseteq Captures
    <3>1. ASSUME NEW s \in Segments PROVE Secure(disk'[s]) \subseteq Captures
      <4>1. DiskInv'
        BY DEF IInv
      <4>2. disk'[s] \in Files /\ FileOK(disk'[s]) /\ disk'[s].data \in Seq(Captures)
        BY <4>1 DEF DiskInv, DiskTypes, Files
      <4> QED BY <4>2, SecureIn, ToSetIn
    <3> QED BY <3>1
  <2> QED BY <2>1, KeptIs
<1>2. KeptNow \subseteq KeptNow'
  BY KeptIs DEF Grows
<1> QED BY <1>1, <1>2

LEMMA DropsDiscards ==
  ASSUME IInv, Drops
  PROVE  \E C \in SUBSET Captures : C \subseteq ArchivedNow /\ KeptNow' = KeptNow \ C
<1>1. PICK s \in Segments :
         /\ Secure(disk[s]) \subseteq ToSet(objects[s]) /\ Secure(disk'[s]) = {}
         /\ \A t \in Segments \ {s} : Secure(disk'[t]) = Secure(disk[t])
  BY DEF Drops
<1>2. Secure(disk[s]) \in SUBSET Captures
  BY KeptAre
<1>3. Secure(disk[s]) \subseteq ArchivedNow
  BY <1>1 DEF ArchivedNow
<1>4. ASSUME NEW t \in Segments \ {s} PROVE Secure(disk[t]) \cap Secure(disk[s]) = {}
  <2>1. Secure(disk[t]) \subseteq ToSet(disk[t].data) /\ Secure(disk[s]) \subseteq ToSet(disk[s].data)
    BY DiskAt, SecureIn DEF IInv
  <2>2. ToSet(disk[t].data) \cap ToSet(disk[s].data) = {}
    BY DEF IInv, DiskInv, CapturesOK
  <2> QED BY <2>1, <2>2
<1>5. (UNION {Secure(disk'[t]) : t \in Segments})
      = (UNION {Secure(disk[t]) : t \in Segments}) \ Secure(disk[s])
  BY <1>1, <1>4
<1> QED BY <1>2, <1>3, <1>5, KeptIs

(* What the spool does is what CaptureArchive promises: an acknowledged     *)
(* capture was durable, stays so until the object store has it, and a      *)
(* fault takes nothing that was durable.                                   *)
THEOREM PromiseKept == Spec => ArchiveKept
<1>1. Init => Promise!Init
  <2> SUFFICES ASSUME Init PROVE Promise!Init
    OBVIOUS
  <2>1. disk = [s \in Segments |-> Absent] /\ acked = {} /\ objects = [s \in Segments |-> <<>>]
    BY DEF Init
  <2>2. Secure(Absent) = {} /\ ToSet(<<>>) = {}
    BY AbsentIs, ToSetNone DEF Secure
  <2>3. KeptNow = {} /\ AckedNow = {} /\ ArchivedNow = {}
    BY <2>1, <2>2, KeptIs DEF AckedNow, ArchivedNow
  <2> QED BY <2>3 DEF Promise!Init, KeptNow, AckedNow, ArchivedNow
<1>2. IInv /\ IInv' /\ [Next]_vars => [Promise!Next]_Promise!vars
  <2> SUFFICES ASSUME IInv, IInv', [Next]_vars PROVE Promise!Next \/ UNCHANGED Promise!vars
    OBVIOUS
  <2>1. Moves
    BY NextTurn, Stutters DEF Moves
  <2>2. CASE UNCHANGED <<disk, objects, acked>>
    <3>1. KeptNow' = KeptNow /\ AckedNow' = AckedNow /\ ArchivedNow' = ArchivedNow
      BY <2>2, KeptIs DEF AckedNow, ArchivedNow
    <3> QED BY <3>1 DEF Promise!vars, KeptNow, AckedNow, ArchivedNow
  <2>3. CASE Grows /\ UNCHANGED <<objects, acked>>
    <3>1. PICK C \in SUBSET Captures : KeptNow' = KeptNow \cup C
      BY <2>3, GrowsKeeps
    <3>2. AckedNow' = AckedNow /\ ArchivedNow' = ArchivedNow
      BY <2>3 DEF AckedNow, ArchivedNow
    <3>3. Promise!Keep(C)
      BY <3>1, <3>2 DEF Promise!Keep, KeptNow, AckedNow, ArchivedNow
    <3> QED BY <3>3 DEF Promise!Next
  <2>4. CASE Drops /\ UNCHANGED <<objects, acked>>
    <3>1. PICK C \in SUBSET Captures : C \subseteq ArchivedNow /\ KeptNow' = KeptNow \ C
      BY <2>4, DropsDiscards
    <3>2. AckedNow' = AckedNow /\ ArchivedNow' = ArchivedNow
      BY <2>4 DEF AckedNow, ArchivedNow
    <3>3. Promise!Discard(C)
      BY <3>1, <3>2 DEF Promise!Discard, KeptNow, AckedNow, ArchivedNow
    <3> QED BY <3>3 DEF Promise!Next
  <2>5. CASE Archives /\ UNCHANGED <<disk, acked>>
    <3>1. PICK C \in SUBSET Captures : C \subseteq KeptNow /\ ArchivedNow' = ArchivedNow \cup C
      BY <2>5, KeptIs DEF Archives, ArchivedNow
    <3>2. AckedNow' = AckedNow /\ KeptNow' = KeptNow
      BY <2>5, KeptIs DEF AckedNow
    <3>3. Promise!Archive(C)
      BY <3>1, <3>2 DEF Promise!Archive, KeptNow, AckedNow, ArchivedNow
    <3> QED BY <3>3 DEF Promise!Next
  <2>6. CASE Acknowledges /\ UNCHANGED <<disk, objects>>
    <3>1. PICK C \in SUBSET Captures : C \subseteq KeptNow /\ AckedNow' = AckedNow \cup C
      BY <2>6, KeptIs DEF Acknowledges, AckedNow
    <3>2. ArchivedNow' = ArchivedNow /\ KeptNow' = KeptNow
      BY <2>6, KeptIs DEF ArchivedNow
    <3>3. Promise!Acknowledge(C)
      BY <3>1, <3>2 DEF Promise!Acknowledge, KeptNow, AckedNow, ArchivedNow
    <3> QED BY <3>3 DEF Promise!Next
  <2> QED BY <2>1, <2>2, <2>3, <2>4, <2>5, <2>6 DEF Moves
<1> QED BY <1>1, <1>2, Inductive, PTL DEF Spec, ArchiveKept, Promise!Spec

(* An acknowledged capture can be read back from the spool after a loss of  *)
(* power, or the object store has it.                                      *)
THEOREM AcknowledgedAreKept == Spec => []Promise!NothingLost
<1>1. IInv => Promise!NothingLost
  <2> SUFFICES ASSUME IInv, NEW r \in acked PROVE r[1] \in KeptNow \/ r[1] \in ArchivedNow
    BY DEF Promise!NothingLost, KeptNow, ArchivedNow
  <2>1. r[2] \in Segments /\ (r[1] \in Secure(disk[r[2]]) \/ r[1] \in ToSet(objects[r[2]]))
    BY DEF IInv, DiskInv, DiskTypes, AckedOK
  <2> QED BY <2>1, KeptIs DEF ArchivedNow
<1> QED BY <1>1, Inductive, PTL
-----------------------------------------------------------------------------
(* Sums.  The folds that Spool adds with are functions of the subsets of    *)
(* what they add up; a set that has no proper subset of its kind takes the  *)
(* place of an induction.                                                  *)

Chosen(S) == CHOOSE x \in S : TRUE
Chains(h, g, S) ==
  h = [s \in SUBSET S |-> IF s = {} THEN 0 ELSE h[s \ {Chosen(s)}] + g[Chosen(s)]]
SumOf(g, S) == (CHOOSE h : Chains(h, g, S))[S]

LEMMA SmallestSet ==
  ASSUME NEW S, IsFiniteSet(S), NEW B, B \subseteq SUBSET S, B # {}
  PROVE  \E s \in B : \A t \in SUBSET s : t # s => t \notin B
<1> DEFINE U == {Cardinality(s) : s \in B}
<1>1. \A s \in B : IsFiniteSet(s) /\ Cardinality(s) \in Nat
  BY FS_Subset, FS_CardinalityType
<1>2. U \subseteq Nat /\ U # {}
  <2>1. U \subseteq Nat
    BY <1>1
  <2>2. U # {}
    BY Zenon
  <2> QED BY <2>1, <2>2
<1> HIDE DEF U
<1>3. PICK u \in U : \A v \in U : ~ (<<v, u>> \in OpToRel(<, Nat))
  BY <1>2, NatLessThanWellFounded, WFMin
<1>4. \A v \in U : ~ (v < u)
  BY <1>2, <1>3 DEF OpToRel
<1>5. PICK s \in B : u = Cardinality(s)
  BY DEF U
<1>6. ASSUME NEW t \in SUBSET s, t # s, t \in B PROVE FALSE
  <2>1. Cardinality(t) < Cardinality(s)
    <3>1. Cardinality(t) <= Cardinality(s) /\ (Cardinality(t) = Cardinality(s) => t = s)
      BY <1>1, <1>6, FS_Subset
    <3> QED BY <3>1, <1>1, <1>6
  <2>2. Cardinality(t) \in U
    BY <1>6 DEF U
  <2> QED BY <2>1, <2>2, <1>4, <1>5
<1> QED BY <1>6

LEMMA ChosenIs ==
  ASSUME NEW S, S # {}
  PROVE  Chosen(S) \in S
  BY DEF Chosen

LEMMA ChainAt ==
  ASSUME NEW g, NEW S, NEW h, Chains(h, g, S), NEW s \in SUBSET S
  PROVE  h[s] = IF s = {} THEN 0 ELSE h[s \ {Chosen(s)}] + g[Chosen(s)]
  BY DEF Chains

LEMMA OneChain ==
  ASSUME NEW g, NEW S, IsFiniteSet(S), NEW h, NEW k, Chains(h, g, S), Chains(k, g, S)
  PROVE  h = k
<1> DEFINE B == {s \in SUBSET S : h[s] # k[s]}
<1>1. B = {}
  <2> SUFFICES ASSUME B # {} PROVE FALSE
    OBVIOUS
  <2>1. B \subseteq SUBSET S
    OBVIOUS
  <2>2. PICK s \in B : \A t \in SUBSET s : t # s => t \notin B
    <3> HIDE DEF B
    <3> QED BY <2>1, SmallestSet
  <2>3. s \in SUBSET S /\ h[s] # k[s]
    BY <2>2
  <2>4. CASE s = {}
    BY <2>3, <2>4, ChainAt
  <2>5. CASE s # {}
    <3>1. Chosen(s) \in s
      BY <2>5, ChosenIs
    <3>2. PICK t : t = s \ {Chosen(s)}
      OBVIOUS
    <3>3. t \in SUBSET s /\ t # s /\ t \in SUBSET S
      BY <2>3, <3>1, <3>2
    <3>4. h[t] = k[t]
      BY <2>2, <3>3
    <3>5. h[s] = h[t] + g[Chosen(s)]
      <4>1. h[s] = IF s = {} THEN 0 ELSE h[s \ {Chosen(s)}] + g[Chosen(s)]
        BY <2>3, ChainAt
      <4> QED BY <2>5, <3>2, <4>1
    <3>6. k[s] = k[t] + g[Chosen(s)]
      <4>1. k[s] = IF s = {} THEN 0 ELSE k[s \ {Chosen(s)}] + g[Chosen(s)]
        BY <2>3, ChainAt
      <4> QED BY <2>5, <3>2, <4>1
    <3> QED BY <2>3, <3>4, <3>5, <3>6
  <2> QED BY <2>4, <2>5
<1>2. \A s \in SUBSET S : h[s] = k[s]
  BY <1>1
<1>3. h = [s \in SUBSET S |-> h[s]] /\ k = [s \in SUBSET S |-> k[s]]
  BY DEF Chains
<1> QED BY <1>2, <1>3

(* A chain has the chains of the subsets in it. *)
LEMMA ChainIn ==
  ASSUME NEW g, NEW S, IsFiniteSet(S), NEW h, Chains(h, g, S), NEW s \in SUBSET S
  PROVE  h[s] = SumOf(g, s)
<1>1. PICK k : k = [t \in SUBSET s |-> h[t]]
  OBVIOUS
<1>2. Chains(k, g, s)
  <2>1. ASSUME NEW t \in SUBSET s
        PROVE  k[t] = IF t = {} THEN 0 ELSE k[t \ {Chosen(t)}] + g[Chosen(t)]
    <3>1. t \in SUBSET S /\ t \ {Chosen(t)} \in SUBSET s
      OBVIOUS
    <3>2. k[t] = h[t] /\ k[t \ {Chosen(t)}] = h[t \ {Chosen(t)}]
      BY <1>1, <3>1
    <3> QED BY <3>1, <3>2, ChainAt
  <2>2. k = [t \in SUBSET s |-> k[t]]
    BY <1>1
  <2>3. k = [t \in SUBSET s |-> IF t = {} THEN 0 ELSE k[t \ {Chosen(t)}] + g[Chosen(t)]]
    BY <2>1, <2>2
  <2> QED BY <2>3 DEF Chains
<1>3. PICK c : c = CHOOSE x : Chains(x, g, s)
  OBVIOUS
<1>4. Chains(c, g, s)
  BY <1>2, <1>3
<1>5. c = k
  BY <1>2, <1>4, FS_Subset, OneChain
<1> QED BY <1>1, <1>3, <1>5 DEF SumOf

LEMMA SomeChain ==
  ASSUME NEW g, NEW S, IsFiniteSet(S)
  PROVE  \E h : Chains(h, g, S)
<1> DEFINE B == {s \in SUBSET S : ~ \E h : Chains(h, g, s)}
<1>1. B = {}
  <2> SUFFICES ASSUME B # {} PROVE FALSE
    OBVIOUS
  <2>1. B \subseteq SUBSET S
    OBVIOUS
  <2>2. PICK s \in B : \A t \in SUBSET s : t # s => t \notin B
    <3> HIDE DEF B
    <3> QED BY <2>1, SmallestSet
  <2>3. s \in SUBSET S /\ ~ \E h : Chains(h, g, s)
    BY <2>2
  <2>4. ASSUME NEW t \in SUBSET s, t # s
        PROVE  SumOf(g, t) = IF t = {} THEN 0 ELSE SumOf(g, t \ {Chosen(t)}) + g[Chosen(t)]
    <3>1. PICK h : Chains(h, g, t)
      BY <2>2, <2>3, <2>4
    <3>2. IsFiniteSet(t)
      BY <2>3, FS_Subset
    <3>3. t \in SUBSET t /\ t \ {Chosen(t)} \in SUBSET t
      OBVIOUS
    <3>4. h[t] = SumOf(g, t)
      BY <3>1, <3>2, <3>3, ChainIn
    <3>5. h[t \ {Chosen(t)}] = SumOf(g, t \ {Chosen(t)})
      BY <3>1, <3>2, <3>3, ChainIn
    <3>6. h[t] = IF t = {} THEN 0 ELSE h[t \ {Chosen(t)}] + g[Chosen(t)]
      BY <3>1, <3>3, ChainAt
    <3> QED BY <3>4, <3>5, <3>6
  <2>5. PICK k : k = [t \in SUBSET s |-> IF t = {} THEN 0 ELSE SumOf(g, t \ {Chosen(t)}) + g[Chosen(t)]]
    OBVIOUS
  <2>6. ASSUME NEW t \in SUBSET s, t # {}
        PROVE  k[t \ {Chosen(t)}] = SumOf(g, t \ {Chosen(t)})
    <3>1. PICK u : u = t \ {Chosen(t)}
      OBVIOUS
    <3>2. u \in SUBSET s /\ u # s
      BY <2>6, <3>1, ChosenIs
    <3>3. k[u] = SumOf(g, u)
      BY <2>4, <2>5, <3>2
    <3> QED BY <3>1, <3>3
  <2>7. k = [t \in SUBSET s |-> IF t = {} THEN 0 ELSE k[t \ {Chosen(t)}] + g[Chosen(t)]]
    BY <2>5, <2>6
  <2> QED BY <2>3, <2>7 DEF Chains
<1> QED BY <1>1

LEMMA SumIs ==
  ASSUME NEW g, NEW S, IsFiniteSet(S)
  PROVE  SumOf(g, S) = IF S = {} THEN 0 ELSE SumOf(g, S \ {Chosen(S)}) + g[Chosen(S)]
<1>1. PICK h : Chains(h, g, S)
  BY SomeChain
<1>2. S \in SUBSET S /\ S \ {Chosen(S)} \in SUBSET S
  OBVIOUS
<1>3. h[S] = SumOf(g, S)
  BY <1>1, <1>2, ChainIn
<1>4. h[S \ {Chosen(S)}] = SumOf(g, S \ {Chosen(S)})
  BY <1>1, <1>2, ChainIn
<1>5. h[S] = IF S = {} THEN 0 ELSE h[S \ {Chosen(S)}] + g[Chosen(S)]
  BY <1>1, <1>2, ChainAt
<1> QED BY <1>3, <1>4, <1>5

Naturals0(g, S) == \A x \in S : g[x] \in Nat

(* Whichever is added last. *)
LEMMA SumWithout ==
  ASSUME NEW g, NEW S, IsFiniteSet(S), Naturals0(g, S)
  PROVE  SumOf(g, S) \in Nat /\ \A x \in S : SumOf(g, S) = SumOf(g, S \ {x}) + g[x]
<1> DEFINE Good(s) == SumOf(g, s) \in Nat /\ \A x \in s : SumOf(g, s) = SumOf(g, s \ {x}) + g[x]
           B == {s \in SUBSET S : ~ Good(s)}
<1>1. B = {}
  <2> SUFFICES ASSUME B # {} PROVE FALSE
    OBVIOUS
  <2>1. B \subseteq SUBSET S
    OBVIOUS
  <2>2. PICK s \in B : \A t \in SUBSET s : t # s => t \notin B
    <3> HIDE DEF B
    <3> QED BY <2>1, SmallestSet
  <2>3. s \in SUBSET S /\ ~ Good(s) /\ IsFiniteSet(s)
    BY <2>2, FS_Subset
  <2>4. \A t \in SUBSET s : t # s => Good(t) /\ IsFiniteSet(t)
    BY <2>2, <2>3, FS_Subset
  <2> HIDE DEF B
  <2>5. CASE s = {}
    <3>1. SumOf(g, s) = 0
      BY <2>3, <2>5, SumIs
    <3> QED BY <2>3, <2>5, <3>1
  <2>6. CASE s # {}
    <3>1. PICK c : c = Chosen(s)
      OBVIOUS
    <3>2. c \in s /\ g[c] \in Nat
      BY <2>3, <2>6, <3>1, ChosenIs DEF Naturals0
    <3>3. SumOf(g, s) = SumOf(g, s \ {c}) + g[c]
      <4>1. SumOf(g, s) = IF s = {} THEN 0 ELSE SumOf(g, s \ {Chosen(s)}) + g[Chosen(s)]
        BY <2>3, SumIs
      <4> QED BY <2>6, <3>1, <4>1
    <3>4. Good(s \ {c})
      BY <2>4, <3>2
    <3>5. SumOf(g, s) \in Nat
      BY <3>2, <3>3, <3>4
    <3>6. ASSUME NEW x \in s PROVE SumOf(g, s) = SumOf(g, s \ {x}) + g[x]
      <4>1. CASE x = c
        BY <3>3, <4>1
      <4>2. CASE x # c
        <5>1. x \in s \ {c} /\ c \in s \ {x} /\ g[x] \in Nat
          BY <2>3, <3>2, <3>6, <4>2 DEF Naturals0
        <5>2. SumOf(g, s \ {c}) = SumOf(g, (s \ {c}) \ {x}) + g[x]
          BY <3>4, <5>1
        <5>3. Good(s \ {x})
          BY <2>4, <3>6
        <5>4. SumOf(g, s \ {x}) = SumOf(g, (s \ {x}) \ {c}) + g[c]
          BY <5>1, <5>3
        <5>5. (s \ {x}) \ {c} = (s \ {c}) \ {x}
          OBVIOUS
        <5>6. PICK rest : rest = SumOf(g, (s \ {c}) \ {x})
          OBVIOUS
        <5>7. Good((s \ {c}) \ {x})
          BY <2>4, <3>2
        <5>8. rest \in Nat
          BY <5>6, <5>7
        <5>9. SumOf(g, s) = (rest + g[x]) + g[c] /\ SumOf(g, s \ {x}) = rest + g[c]
          BY <3>3, <5>2, <5>4, <5>5, <5>6
        <5> QED BY <3>2, <5>1, <5>8, <5>9
      <4> QED BY <4>1, <4>2
    <3> QED BY <2>3, <3>5, <3>6
  <2> QED BY <2>5, <2>6
<1>2. S \in SUBSET S
  OBVIOUS
<1>3. Good(S)
  BY <1>1, <1>2
<1> QED BY <1>3

LEMMA SumWithin ==
  ASSUME NEW g, NEW k, NEW S, IsFiniteSet(S), Naturals0(g, S), Naturals0(k, S),
         \A x \in S : k[x] <= g[x]
  PROVE  SumOf(k, S) <= SumOf(g, S)
<1> DEFINE B == {s \in SUBSET S : ~ (SumOf(k, s) <= SumOf(g, s))}
<1>1. B = {}
  <2> SUFFICES ASSUME B # {} PROVE FALSE
    OBVIOUS
  <2>1. B \subseteq SUBSET S
    OBVIOUS
  <2>2. PICK s \in B : \A t \in SUBSET s : t # s => t \notin B
    <3> HIDE DEF B
    <3> QED BY <2>1, SmallestSet
  <2>3. s \in SUBSET S /\ ~ (SumOf(k, s) <= SumOf(g, s)) /\ IsFiniteSet(s)
    BY <2>2, FS_Subset
  <2>4. \A t \in SUBSET s : t # s => SumOf(k, t) <= SumOf(g, t)
    BY <2>2, <2>3
  <2> HIDE DEF B
  <2>5. CASE s = {}
    <3>1. SumOf(g, s) = 0 /\ SumOf(k, s) = 0
      BY <2>3, <2>5, SumIs
    <3> QED BY <2>3, <3>1
  <2>6. CASE s # {}
    <3>1. PICK x : x \in s
      BY <2>6
    <3>2. PICK t : t = s \ {x}
      OBVIOUS
    <3>3. t \in SUBSET s /\ t # s /\ IsFiniteSet(t)
      BY <2>3, <3>1, <3>2, FS_Subset
    <3>4. Naturals0(g, s) /\ Naturals0(k, s) /\ Naturals0(g, t) /\ Naturals0(k, t)
      BY <2>3, <3>3 DEF Naturals0
    <3>5. SumOf(g, s) = SumOf(g, t) + g[x] /\ SumOf(k, s) = SumOf(k, t) + k[x]
      BY <2>3, <3>1, <3>2, <3>4, SumWithout
    <3>6. SumOf(g, t) \in Nat /\ SumOf(k, t) \in Nat /\ SumOf(k, t) <= SumOf(g, t)
      BY <2>4, <3>3, <3>4, SumWithout
    <3>7. g[x] \in Nat /\ k[x] \in Nat /\ k[x] <= g[x]
      BY <2>3, <3>1, <3>4 DEF Naturals0
    <3> QED BY <2>3, <3>5, <3>6, <3>7
  <2> QED BY <2>5, <2>6
<1>2. S \in SUBSET S
  OBVIOUS
<1> QED BY <1>1, <1>2

(* One of them grows. *)
LEMMA SumGrows ==
  ASSUME NEW g, NEW k, NEW S, IsFiniteSet(S), Naturals0(g, S), Naturals0(k, S),
         NEW x \in S, NEW d \in Nat, k[x] <= g[x] + d, \A y \in S \ {x} : k[y] <= g[y]
  PROVE  SumOf(k, S) <= SumOf(g, S) + d
<1>1. PICK t : t = S \ {x}
  OBVIOUS
<1>2. IsFiniteSet(t) /\ Naturals0(g, t) /\ Naturals0(k, t) /\ \A y \in t : k[y] <= g[y]
  BY <1>1, FS_Subset DEF Naturals0
<1>3. SumOf(k, t) <= SumOf(g, t)
  BY <1>2, SumWithin
<1>4. SumOf(k, t) \in Nat /\ SumOf(g, t) \in Nat
  BY <1>2, SumWithout
<1>5. SumOf(g, S) = SumOf(g, t) + g[x] /\ SumOf(k, S) = SumOf(k, t) + k[x]
  BY <1>1, SumWithout
<1>6. g[x] \in Nat /\ k[x] \in Nat
  BY DEF Naturals0
<1> QED BY <1>3, <1>4, <1>5, <1>6

(* Sums over a sequence. *)
Weights(w, q) == [i \in 1 .. Len(q) |-> w[q[i]]]
Weight(w, q) == SumOf(Weights(w, q), 1 .. Len(q))

LEMMA WeightIs ==
  ASSUME NEW S, NEW w \in [S -> Nat], NEW q \in Seq(S)
  PROVE  /\ IsFiniteSet(1 .. Len(q)) /\ Naturals0(Weights(w, q), 1 .. Len(q))
         /\ Weight(w, q) \in Nat
<1>1. IsFiniteSet(1 .. Len(q))
  BY FS_Interval
<1>2. Naturals0(Weights(w, q), 1 .. Len(q))
  <2>1. ASSUME NEW i \in 1 .. Len(q) PROVE Weights(w, q)[i] \in Nat
    <3>1. q[i] \in S
      OBVIOUS
    <3>2. Weights(w, q)[i] = w[q[i]]
      BY DEF Weights
    <3> QED BY <3>1, <3>2
  <2> QED BY <2>1 DEF Naturals0
<1> QED BY <1>1, <1>2, SumWithout DEF Weight

LEMMA SumSame ==
  ASSUME NEW g, NEW k, NEW S, IsFiniteSet(S), Naturals0(g, S), \A x \in S : k[x] = g[x]
  PROVE  SumOf(k, S) = SumOf(g, S)
<1>1. Naturals0(k, S) /\ \A x \in S : k[x] <= g[x] /\ g[x] <= k[x]
  BY DEF Naturals0
<1>2. SumOf(k, S) <= SumOf(g, S) /\ SumOf(g, S) <= SumOf(k, S)
  BY <1>1, SumWithin
<1>3. SumOf(k, S) \in Nat /\ SumOf(g, S) \in Nat
  BY <1>1, SumWithout
<1> QED BY <1>2, <1>3

LEMMA WeightNone ==
  ASSUME NEW w
  PROVE  Weight(w, <<>>) = 0
<1>1. Len(<<>>) = 0 /\ 1 .. 0 = {}
  OBVIOUS
<1>2. SumOf(Weights(w, <<>>), {}) = 0
  BY FS_EmptySet, SumIs
<1> QED BY <1>1, <1>2 DEF Weight

LEMMA LeastOf ==
  ASSUME NEW U, U \subseteq Nat, U # {}
  PROVE  \E u \in U : \A v \in U : u <= v
<1>1. PICK u \in U : \A v \in U : ~ (<<v, u>> \in OpToRel(<, Nat))
  BY NatLessThanWellFounded, WFMin
<1>2. \A v \in U : ~ (v < u)
  BY <1>1 DEF OpToRel
<1>3. \A v \in U : u <= v
  BY <1>2
<1> QED BY <1>3

LEMMA WeightJoin ==
  ASSUME NEW S, NEW w \in [S -> Nat], NEW q \in Seq(S), NEW r \in Seq(S)
  PROVE  Weight(w, q \o r) = Weight(w, q) + Weight(w, r)
<1>1. PICK n \in Nat, m \in Nat : n = Len(q) /\ m = Len(r)
  OBVIOUS
<1>2. PICK p : p = q \o r
  OBVIOUS
<1>3. p \in Seq(S) /\ Len(p) = n + m
  BY <1>1, <1>2
<1>4. PICK G, Q, R : G = Weights(w, p) /\ Q = Weights(w, q) /\ R = Weights(w, r)
  OBVIOUS
<1>5. Naturals0(G, 1 .. (n + m)) /\ Naturals0(Q, 1 .. n) /\ Naturals0(R, 1 .. m)
  BY <1>1, <1>3, <1>4, WeightIs
<1>6. \A i \in 1 .. n : Q[i] = G[i]
  <2>1. \A i \in 1 .. n : p[i] = q[i] /\ i \in 1 .. Len(p) /\ i \in 1 .. Len(q)
    BY <1>1, <1>2, <1>3
  <2> QED BY <2>1, <1>4 DEF Weights
<1>7. \A i \in 1 .. m : R[i] = G[n + i]
  <2>1. \A i \in 1 .. m : p[n + i] = r[i] /\ n + i \in 1 .. Len(p) /\ i \in 1 .. Len(r)
    BY <1>1, <1>2, <1>3
  <2> QED BY <2>1, <1>4 DEF Weights
<1>8. ASSUME NEW a \in 0 .. (n + m)
      PROVE  IsFiniteSet(1 .. a) /\ Naturals0(G, 1 .. a) /\ SumOf(G, 1 .. a) \in Nat
  <2>1. IsFiniteSet(1 .. a)
    BY FS_Interval
  <2>2. Naturals0(G, 1 .. a)
    BY <1>5 DEF Naturals0
  <2> QED BY <2>1, <2>2, SumWithout
<1>9. ASSUME NEW a \in 0 .. m
      PROVE  IsFiniteSet(1 .. a) /\ Naturals0(R, 1 .. a) /\ SumOf(R, 1 .. a) \in Nat
  <2>1. IsFiniteSet(1 .. a)
    BY FS_Interval
  <2>2. Naturals0(R, 1 .. a)
    BY <1>5 DEF Naturals0
  <2> QED BY <2>1, <2>2, SumWithout
<1>10. SumOf(G, 1 .. n) = SumOf(Q, 1 .. n)
  <2>1. IsFiniteSet(1 .. n)
    BY FS_Interval
  <2> QED BY <1>5, <1>6, <2>1, SumSame
<1> DEFINE U == {a \in 0 .. m : ~ (SumOf(G, 1 .. (n + a)) = SumOf(G, 1 .. n) + SumOf(R, 1 .. a))}
<1>11. U = {}
  <2> SUFFICES ASSUME U # {} PROVE FALSE
    OBVIOUS
  <2>1. U \subseteq Nat
    OBVIOUS
  <2>2. PICK a \in U : \A b \in U : a <= b
    <3> HIDE DEF U
    <3> QED BY <2>1, LeastOf
  <2>3. a \in 0 .. m /\ ~ (SumOf(G, 1 .. (n + a)) = SumOf(G, 1 .. n) + SumOf(R, 1 .. a))
    BY <2>2
  <2>4. CASE a = 0
    <3>1. 1 .. a = {} /\ n + a = n /\ n \in 0 .. (n + m)
      BY <2>4
    <3>2. SumOf(R, 1 .. a) = 0
      BY <3>1, FS_EmptySet, SumIs
    <3>3. SumOf(G, 1 .. n) \in Nat
      BY <3>1, <1>8
    <3> QED BY <2>3, <3>1, <3>2, <3>3
  <2>5. CASE a # 0
    <3>1. PICK b \in 0 .. m : a = b + 1
      <4>1. a - 1 \in 0 .. m /\ a = (a - 1) + 1
        BY <2>3, <2>5
      <4> QED BY <4>1
    <3>2. SumOf(G, 1 .. (n + b)) = SumOf(G, 1 .. n) + SumOf(R, 1 .. b)
      <4>1. ~ (a <= b)
        BY <3>1
      <4> QED BY <4>1, <2>2
    <3>3. /\ n + a \in 1 .. (n + a) /\ (1 .. (n + a)) \ {n + a} = 1 .. (n + b)
          /\ a \in 1 .. a /\ (1 .. a) \ {a} = 1 .. b
          /\ n + a \in 0 .. (n + m) /\ n + b \in 0 .. (n + m) /\ n \in 0 .. (n + m)
      BY <2>3, <3>1
    <3>4. SumOf(G, 1 .. (n + a)) = SumOf(G, 1 .. (n + b)) + G[n + a]
      <4>1. IsFiniteSet(1 .. (n + a)) /\ Naturals0(G, 1 .. (n + a))
        BY <1>8, <3>3
      <4>2. SumOf(G, 1 .. (n + a)) = SumOf(G, (1 .. (n + a)) \ {n + a}) + G[n + a]
        BY <3>3, <4>1, SumWithout
      <4> QED BY <3>3, <4>2
    <3>5. SumOf(R, 1 .. a) = SumOf(R, 1 .. b) + R[a]
      <4>1. IsFiniteSet(1 .. a) /\ Naturals0(R, 1 .. a)
        BY <1>9, <2>3
      <4>2. SumOf(R, 1 .. a) = SumOf(R, (1 .. a) \ {a}) + R[a]
        BY <3>3, <4>1, SumWithout
      <4> QED BY <3>3, <4>2
    <3>6. a \in 1 .. m
      BY <2>3, <2>5
    <3>7. R[a] = G[n + a]
      BY <1>7, <3>6
    <3>8. R[a] \in Nat
      BY <1>5, <3>6 DEF Naturals0
    <3>9. SumOf(G, 1 .. n) \in Nat /\ SumOf(R, 1 .. b) \in Nat
      BY <1>8, <1>9, <3>1, <3>3
    <3> QED BY <2>3, <3>2, <3>4, <3>5, <3>7, <3>8, <3>9
  <2> QED BY <2>4, <2>5
<1>12. m \in 0 .. m
  OBVIOUS
<1>13. SumOf(G, 1 .. (n + m)) = SumOf(G, 1 .. n) + SumOf(R, 1 .. m)
  BY <1>11, <1>12
<1>14. Weight(w, p) = SumOf(G, 1 .. (n + m)) /\ Weight(w, q) = SumOf(Q, 1 .. n)
       /\ Weight(w, r) = SumOf(R, 1 .. m)
  BY <1>1, <1>3, <1>4 DEF Weight
<1> QED BY <1>2, <1>10, <1>13, <1>14

LEMMA WeightPrefix ==
  ASSUME NEW S, NEW w \in [S -> Nat], NEW q \in Seq(S), NEW n \in Nat, n <= Len(q)
  PROVE  Weight(w, SubSeq(q, 1, n)) <= Weight(w, q)
<1>1. PICK a, b : a = SubSeq(q, 1, n) /\ b = SubSeq(q, n + 1, Len(q))
  OBVIOUS
<1>2. a \in Seq(S) /\ b \in Seq(S) /\ q = a \o b
  <2>1. a \in Seq(S) /\ Len(a) = n /\ \A i \in 1 .. n : a[i] = q[i]
    BY <1>1
  <2>2. b \in Seq(S) /\ Len(b) = Len(q) - n /\ \A i \in 1 .. Len(b) : b[i] = q[n + i]
    BY <1>1
  <2>3. PICK p : p = a \o b
    OBVIOUS
  <2>4. a \in Seq(S) /\ b \in Seq(S)
    BY <2>1, <2>2
  <2>5. /\ p \in Seq(S) /\ Len(p) = Len(a) + Len(b)
        /\ \A i \in 1 .. Len(a) + Len(b) : p[i] = IF i <= Len(a) THEN a[i] ELSE b[i - Len(a)]
    BY <2>3, <2>4, ConcatProperties
  <2>6. Len(q) \in Nat /\ Len(p) = Len(q)
    BY <2>1, <2>2, <2>5
  <2>7. ASSUME NEW i \in 1 .. Len(q) PROVE p[i] = q[i]
    <3>1. p[i] = IF i <= n THEN a[i] ELSE b[i - n]
      BY <2>1, <2>2, <2>5, <2>6
    <3>2. CASE i <= n
      BY <2>1, <3>1, <3>2
    <3>3. CASE ~ (i <= n)
      <4>1. i - n \in 1 .. Len(b) /\ n + (i - n) = i
        BY <2>2, <2>6, <3>3
      <4>2. p[i] = b[i - n]
        BY <3>1, <3>3
      <4>3. b[i - n] = q[n + (i - n)]
        BY <2>2, <4>1
      <4> QED BY <4>1, <4>2, <4>3
    <3> QED BY <3>2, <3>3
  <2>8. p = q
    BY <2>5, <2>6, <2>7, SeqEqual
  <2> QED BY <2>3, <2>4, <2>8
<1>3. Weight(w, a) \in Nat /\ Weight(w, b) \in Nat
  BY <1>2, WeightIs
<1>4. Weight(w, q) = Weight(w, a) + Weight(w, b)
  BY <1>2, WeightJoin
<1> QED BY <1>1, <1>3, <1>4

(* Sums of two functions. *)
LEMMA SumSplits ==
  ASSUME NEW g, NEW k, NEW l, NEW S, IsFiniteSet(S),
         Naturals0(g, S), Naturals0(k, S), Naturals0(l, S), \A x \in S : g[x] <= k[x] + l[x]
  PROVE  SumOf(g, S) <= SumOf(k, S) + SumOf(l, S)
<1> DEFINE B == {s \in SUBSET S : ~ (SumOf(g, s) <= SumOf(k, s) + SumOf(l, s))}
<1>1. B = {}
  <2> SUFFICES ASSUME B # {} PROVE FALSE
    OBVIOUS
  <2>1. B \subseteq SUBSET S
    OBVIOUS
  <2>2. PICK s \in B : \A t \in SUBSET s : t # s => t \notin B
    <3> HIDE DEF B
    <3> QED BY <2>1, SmallestSet
  <2>3. s \in SUBSET S /\ ~ (SumOf(g, s) <= SumOf(k, s) + SumOf(l, s)) /\ IsFiniteSet(s)
    BY <2>2, FS_Subset
  <2>4. \A t \in SUBSET s : t # s => SumOf(g, t) <= SumOf(k, t) + SumOf(l, t)
    BY <2>2, <2>3
  <2> HIDE DEF B
  <2>5. CASE s = {}
    <3>1. SumOf(g, s) = 0 /\ SumOf(k, s) = 0 /\ SumOf(l, s) = 0
      BY <2>3, <2>5, SumIs
    <3> QED BY <2>3, <3>1
  <2>6. CASE s # {}
    <3>1. PICK x : x \in s
      BY <2>6
    <3>2. PICK t : t = s \ {x}
      OBVIOUS
    <3>3. t \in SUBSET s /\ t # s /\ IsFiniteSet(t)
      BY <2>3, <3>1, <3>2, FS_Subset
    <3>4. /\ Naturals0(g, s) /\ Naturals0(k, s) /\ Naturals0(l, s)
          /\ Naturals0(g, t) /\ Naturals0(k, t) /\ Naturals0(l, t)
      BY <2>3, <3>3 DEF Naturals0
    <3>5. /\ SumOf(g, s) = SumOf(g, t) + g[x] /\ SumOf(k, s) = SumOf(k, t) + k[x]
          /\ SumOf(l, s) = SumOf(l, t) + l[x]
      BY <2>3, <3>1, <3>2, <3>4, SumWithout
    <3>6. /\ SumOf(g, t) \in Nat /\ SumOf(k, t) \in Nat /\ SumOf(l, t) \in Nat
          /\ SumOf(g, t) <= SumOf(k, t) + SumOf(l, t)
      BY <2>4, <3>3, <3>4, SumWithout
    <3>7. g[x] \in Nat /\ k[x] \in Nat /\ l[x] \in Nat /\ g[x] <= k[x] + l[x]
      BY <2>3, <3>1, <3>4 DEF Naturals0
    <3> QED BY <2>3, <3>5, <3>6, <3>7
  <2> QED BY <2>5, <2>6
<1>2. S \in SUBSET S
  OBVIOUS
<1> QED BY <1>1, <1>2

LEMMA WeightSplits ==
  ASSUME NEW S, NEW v \in [S -> Nat], NEW w \in [S -> Nat], NEW u \in [S -> Nat],
         \A c \in S : v[c] <= w[c] + u[c], NEW q \in Seq(S)
  PROVE  Weight(v, q) <= Weight(w, q) + Weight(u, q)
<1>1. \A i \in 1 .. Len(q) : Weights(v, q)[i] <= Weights(w, q)[i] + Weights(u, q)[i]
  <2>1. ASSUME NEW i \in 1 .. Len(q)
        PROVE  Weights(v, q)[i] <= Weights(w, q)[i] + Weights(u, q)[i]
    <3>1. q[i] \in S
      OBVIOUS
    <3>2. Weights(v, q)[i] = v[q[i]] /\ Weights(w, q)[i] = w[q[i]] /\ Weights(u, q)[i] = u[q[i]]
      BY DEF Weights
    <3> QED BY <3>1, <3>2
  <2> QED BY <2>1
<1> QED BY <1>1, WeightIs, SumSplits DEF Weight

(* ... as FoldSeq reckons them. *)
Folded(w, q) ==
  (CHOOSE h : h = [s \in SUBSET DOMAIN q |->
     IF s = {} THEN 0 ELSE h[s \ {CHOOSE x \in s : TRUE}] + w[q[CHOOSE x \in s : TRUE]]])[DOMAIN q]

LEMMA FoldedIs ==
  ASSUME NEW S, NEW w, NEW q \in Seq(S)
  PROVE  Folded(w, q) = Weight(w, q)
<1>1. DOMAIN q = 1 .. Len(q) /\ IsFiniteSet(1 .. Len(q))
  BY FS_Interval
<1> DEFINE D == DOMAIN q
           g == Weights(w, q)
           Step0(h) == h = [s \in SUBSET D |->
             IF s = {} THEN 0 ELSE h[s \ {CHOOSE x \in s : TRUE}] + w[q[CHOOSE x \in s : TRUE]]]
<1>2. ASSUME NEW h PROVE Chains(h, g, D) <=> Step0(h)
  <2>1. ASSUME NEW s \in SUBSET D, s # {} PROVE g[Chosen(s)] = w[q[CHOOSE x \in s : TRUE]]
    <3>1. Chosen(s) \in 1 .. Len(q)
      BY <1>1, <2>1, ChosenIs
    <3> QED BY <3>1 DEF Weights, Chosen
  <2>2. [s \in SUBSET D |-> IF s = {} THEN 0 ELSE h[s \ {Chosen(s)}] + g[Chosen(s)]]
        = [s \in SUBSET D |->
             IF s = {} THEN 0 ELSE h[s \ {CHOOSE x \in s : TRUE}] + w[q[CHOOSE x \in s : TRUE]]]
    <3>1. ASSUME NEW s \in SUBSET D
          PROVE  (IF s = {} THEN 0 ELSE h[s \ {Chosen(s)}] + g[Chosen(s)])
                 = (IF s = {} THEN 0 ELSE h[s \ {CHOOSE x \in s : TRUE}] + w[q[CHOOSE x \in s : TRUE]])
      <4> HIDE DEF g, D
      <4> QED BY <2>1 DEF Chosen
    <3> HIDE DEF g, D
    <3> QED BY <3>1
  <2> QED BY <2>2 DEF Chains
<1>3. \E h : Chains(h, g, D)
  BY <1>1, SomeChain
<1>4. PICK c : c = CHOOSE h : Step0(h)
  OBVIOUS
<1>5. Step0(c)
  <2> HIDE DEF Step0, g, D
  <2> QED BY <1>2, <1>3, <1>4
<1>6. Chains(c, g, D)
  <2> HIDE DEF Step0, g, D
  <2> QED BY <1>2, <1>5
<1>7. c[D] = SumOf(g, D)
  <2>1. IsFiniteSet(D) /\ D \in SUBSET D
    BY <1>1
  <2> HIDE DEF g, D
  <2> QED BY <1>6, <2>1, ChainIn, ZenonT(60)
<1>8. Folded(w, q) = c[D]
  BY <1>4 DEF Folded
<1> QED BY <1>1, <1>7, <1>8 DEF Weight

(* The bytes of a data file, what a group is reckoned at, and what it is   *)
(* longer than that.                                                       *)
LEMMA BytesIs ==
  ASSUME NEW q \in Seq(Captures)
  PROVE  Bytes(q) = Weight(Size, q) /\ Bytes(q) \in Nat
<1>1. Bytes(q) = Folded(Size, q)
  BY DEF Bytes, FoldSeq, FoldFunction, FoldFunctionOnSet, MapThenFoldSet, Folded
<1>2. Folded(Size, q) = Weight(Size, q)
  BY FoldedIs
<1>3. Size \in [Captures -> Nat]
  BY SpoolAssumptions
<1>4. Weight(Size, q) \in Nat
  BY <1>3, WeightIs
<1> QED BY <1>1, <1>2, <1>4

LEMMA ReckonedIs ==
  ASSUME NEW q \in Seq(Captures)
  PROVE  Reckoned(q) = Weight(Upper, q) /\ Reckoned(q) \in Nat
<1>1. Reckoned(q) = Folded(Upper, q)
  BY DEF Reckoned, FoldSeq, FoldFunction, FoldFunctionOnSet, MapThenFoldSet, Folded
<1>2. Folded(Upper, q) = Weight(Upper, q)
  BY FoldedIs
<1>3. Upper \in [Captures -> Nat]
  BY SpoolAssumptions
<1>4. Weight(Upper, q) \in Nat
  BY <1>3, WeightIs
<1> QED BY <1>1, <1>2, <1>4

LEMMA SurplusIs ==
  /\ Surplus \in [Captures -> Nat]
  /\ \A c \in Captures : Size[c] <= Upper[c] + Surplus[c]
<1>1. ASSUME NEW c \in Captures PROVE Surplus[c] \in Nat /\ Size[c] <= Upper[c] + Surplus[c]
  <2>1. Size[c] \in Nat /\ Upper[c] \in Nat
    BY SpoolAssumptions
  <2>2. Surplus[c] = IF Size[c] > Upper[c] THEN Size[c] - Upper[c] ELSE 0
    BY DEF Surplus
  <2> QED BY <2>1, <2>2
<1>2. Surplus = [c \in Captures |-> Surplus[c]]
  BY DEF Surplus
<1> QED BY <1>1, <1>2

LEMMA BytesSplit ==
  ASSUME NEW q \in Seq(Captures)
  PROVE  Excess(q) \in Nat /\ Bytes(q) <= Reckoned(q) + Excess(q)
<1>1. Excess(q) = Folded(Surplus, q)
  BY DEF Excess, FoldSeq, FoldFunction, FoldFunctionOnSet, MapThenFoldSet, Folded
<1>2. Excess(q) = Weight(Surplus, q) /\ Excess(q) \in Nat
  BY <1>1, FoldedIs, SurplusIs, WeightIs
<1>3. Weight(Size, q) <= Weight(Upper, q) + Weight(Surplus, q)
  BY SurplusIs, WeightSplits, SpoolAssumptions
<1> QED BY <1>2, <1>3, BytesIs, ReckonedIs

(* SpoolBytes adds up what is visible. *)
Shown == [s \in Segments |-> IF Visible(s) THEN Bytes(disk[s].data) ELSE 0]
FoldedSpool ==
  (CHOOSE h : h = [t \in SUBSET Segments |->
     IF t = {} THEN 0
     ELSE LET x == CHOOSE x \in t : TRUE IN
            h[t \ {x}] + IF Visible(x) THEN Bytes(disk[x].data) ELSE 0])[Segments]

LEMMA SpoolBytesIs ==
  ASSUME IsFiniteSet(Segments)
  PROVE  SpoolBytes = SumOf(Shown, Segments)
<1> DEFINE Chained(h) == h = [t \in SUBSET Segments |->
             IF t = {} THEN 0
             ELSE LET x == CHOOSE x \in t : TRUE IN
                    h[t \ {x}] + IF Visible(x) THEN Bytes(disk[x].data) ELSE 0]
<1>1. SpoolBytes = FoldedSpool
  BY DEF SpoolBytes, FoldSet, MapThenFoldSet, FoldedSpool
<1>2. ASSUME NEW h PROVE Chains(h, Shown, Segments) <=> Chained(h)
  <2>1. ASSUME NEW t \in SUBSET Segments, t # {}
        PROVE  Shown[Chosen(t)] = IF Visible(Chosen(t)) THEN Bytes(disk[Chosen(t)].data) ELSE 0
    <3>1. Chosen(t) \in Segments
      BY <2>1, ChosenIs
    <3> QED BY <3>1 DEF Shown
  <2>2. ASSUME NEW t \in SUBSET Segments
        PROVE  (IF t = {} THEN 0 ELSE h[t \ {Chosen(t)}] + Shown[Chosen(t)])
               = IF t = {} THEN 0
                 ELSE LET x == CHOOSE x \in t : TRUE IN
                        h[t \ {x}] + IF Visible(x) THEN Bytes(disk[x].data) ELSE 0
    BY <2>1 DEF Chosen
  <2> QED BY <2>2 DEF Chains
<1>3. \E h : Chains(h, Shown, Segments)
  BY SomeChain
<1>4. PICK c : c = CHOOSE h : Chained(h)
  OBVIOUS
<1>5. Chained(c)
  <2> HIDE DEF Chained
  <2> QED BY <1>2, <1>3, <1>4
<1>6. Chains(c, Shown, Segments)
  <2> HIDE DEF Chained
  <2> QED BY <1>2, <1>5
<1>7. c[Segments] = SumOf(Shown, Segments)
  <2>1. Segments \in SUBSET Segments
    OBVIOUS
  <2> HIDE DEF Chained
  <2> QED BY <1>6, <2>1, ChainIn
<1>8. FoldedSpool = c[Segments]
  BY <1>4 DEF FoldedSpool
<1> QED BY <1>1, <1>7, <1>8
-----------------------------------------------------------------------------
(* The quota *)

(* All that is on the disk, what is unlinked but not yet synced included. *)
Sizes == [s \in Segments |-> Bytes(disk[s].data)]
Total == SumOf(Sizes, Segments)

LEMMA DataBytesIs ==
  ASSUME IsFiniteSet(Segments)
  PROVE  DataBytes = Total
<1> DEFINE Chained(h) == h = [t \in SUBSET Segments |->
             IF t = {} THEN 0
             ELSE LET x == CHOOSE x \in t : TRUE IN h[t \ {x}] + Bytes(disk[x].data)]
           Folds == (CHOOSE h : Chained(h))[Segments]
<1>1. DataBytes = Folds
  BY DEF DataBytes, FoldSet, MapThenFoldSet
<1>2. ASSUME NEW h PROVE Chains(h, Sizes, Segments) <=> Chained(h)
  <2>1. ASSUME NEW t \in SUBSET Segments, t # {}
        PROVE  Sizes[Chosen(t)] = Bytes(disk[Chosen(t)].data)
    <3>1. Chosen(t) \in Segments
      BY <2>1, ChosenIs
    <3> QED BY <3>1 DEF Sizes
  <2>2. ASSUME NEW t \in SUBSET Segments
        PROVE  (IF t = {} THEN 0 ELSE h[t \ {Chosen(t)}] + Sizes[Chosen(t)])
               = IF t = {} THEN 0
                 ELSE LET x == CHOOSE x \in t : TRUE IN h[t \ {x}] + Bytes(disk[x].data)
    BY <2>1 DEF Chosen
  <2> QED BY <2>2 DEF Chains
<1>3. \E h : Chains(h, Sizes, Segments)
  BY SomeChain
<1>4. PICK c : c = CHOOSE h : Chained(h)
  OBVIOUS
<1>5. Chained(c)
  <2> HIDE DEF Chained
  <2> QED BY <1>2, <1>3, <1>4
<1>6. Chains(c, Sizes, Segments)
  <2> HIDE DEF Chained
  <2> QED BY <1>2, <1>5
<1>7. c[Segments] = SumOf(Sizes, Segments)
  <2>1. Segments \in SUBSET Segments
    OBVIOUS
  <2> HIDE DEF Chained
  <2> QED BY <1>6, <2>1, ChainIn
<1> QED BY <1>1, <1>4, <1>7 DEF Total

LEMMA DataBytesIsNext ==
  ASSUME IsFiniteSet(Segments)
  PROVE  DataBytes' = Total'
<1>1. IsFiniteSet(Segments) => DataBytes = Total
  BY DataBytesIs
<1>2. (IsFiniteSet(Segments) => DataBytes = Total)'
  BY <1>1, PTL
<1> QED BY <1>2

(* There is room for what the operation is about to write. *)
AboutToWrite == op.todo # <<>> /\ Head(op.todo).do = "write"
RoomFor(cs) == Total + Reckoned(cs) + Slack <= MaxSpoolBytes
QuotaInv == AboutToWrite => RoomFor(Head(op.todo).arg)

Shorter(d, e) == \E n \in 0 .. Len(d) : e = SubSeq(d, 1, n)
Shrinks == \A s \in Segments : Shorter(disk[s].data, disk'[s].data)

LEMMA SizesAre ==
  ASSUME DiskInv, IsFiniteSet(Segments)
  PROVE  Naturals0(Sizes, Segments) /\ Total \in Nat
<1>1. ASSUME NEW s \in Segments PROVE Sizes[s] \in Nat
  <2>1. disk[s].data \in Seq(Captures)
    BY DiskAt DEF Files
  <2> QED BY <2>1, BytesIs DEF Sizes
<1>2. Naturals0(Sizes, Segments)
  BY <1>1 DEF Naturals0
<1> QED BY <1>2, SumWithout DEF Total

LEMMA ShorterFits ==
  ASSUME NEW d \in Seq(Captures), NEW e, Shorter(d, e)
  PROVE  e \in Seq(Captures) /\ Bytes(e) <= Bytes(d)
<1>1. PICK n \in 0 .. Len(d) : e = SubSeq(d, 1, n)
  BY DEF Shorter
<1>2. n \in Nat /\ n <= Len(d)
  OBVIOUS
<1>3. e \in Seq(Captures)
  BY <1>1, <1>2
<1>4. Weight(Size, SubSeq(d, 1, n)) <= Weight(Size, d)
  BY <1>2, WeightPrefix, SpoolAssumptions
<1> QED BY <1>1, <1>3, <1>4, BytesIs

LEMMA ShrinksFits ==
  ASSUME DiskInv, DiskInv', IsFiniteSet(Segments), Shrinks
  PROVE  Total' <= Total
<1>1. Naturals0(Sizes, Segments) /\ Naturals0(Sizes', Segments)
  <2>1. Naturals0(Sizes, Segments)
    BY SizesAre
  <2>2. ASSUME NEW s \in Segments PROVE Sizes'[s] \in Nat
    <3>1. disk'[s].data \in Seq(Captures)
      BY DEF DiskInv, DiskTypes, Files
    <3>2. Sizes'[s] = Bytes(disk'[s].data)
      BY DEF Sizes
    <3> QED BY <3>1, <3>2, BytesIs
  <2> QED BY <2>1, <2>2 DEF Naturals0
<1>2. ASSUME NEW s \in Segments PROVE Sizes'[s] <= Sizes[s]
  <2>1. disk[s].data \in Seq(Captures)
    BY DiskAt DEF Files
  <2>2. Bytes(disk'[s].data) <= Bytes(disk[s].data)
    BY <2>1, ShorterFits DEF Shrinks
  <2> QED BY <2>2 DEF Sizes
<1>3. SumOf(Sizes', Segments) <= SumOf(Sizes, Segments)
  BY <1>1, <1>2, SumWithin
<1> QED BY <1>3 DEF Total

(* Only a commit writes, and it writes first. *)
Commits == \E s \in Segments, cs \in Seq(Captures) : op.todo = Commit(s, cs)
Alone == AboutToWrite => op.kind = "append" /\ Commits

LEMMA OnlyCommits == IInv => Alone
<1> SUFFICES ASSUME IInv, AboutToWrite PROVE op.kind = "append" /\ Commits
  BY DEF Alone
<1>1. op.todo # <<>> /\ Head(op.todo).do = "write"
  BY DEF AboutToWrite
<1>2. PICK s, x : op.todo = First \/ Alter(s, x) \/ Create(s) \/ Write(s, x) \/ Erase(s, x) \/ Salvage(s, x)
  BY <1>1 DEF IInv, AtWork
<1>3. op.todo # First
  <2>1. Head(First) = Effect("sync", NoSegment, 0)
    BY DEF First
  <2> QED BY <1>1, <2>1, EffectIs
<1>4. ~ Alter(s, x)
  <2>1. Head(Save(s, x)) = Effect("describe", s, x)
    BY SaveIs
  <2>2. Head(<<Effect("remember", s, x)>>) = Effect("remember", s, x)
    OBVIOUS
  <2>3. op.todo # Save(s, x) /\ op.todo # <<Effect("remember", s, x)>>
    BY <1>1, <2>1, <2>2, EffectIs
  <2> QED BY <2>3 DEF Alter
<1>5. ~ Create(s)
  <2>1. Head(CreateSegment(s)) = Effect("files", s, 0)
    BY CreateIs
  <2>2. Head(<<Effect("sync", s, 0)>> \o Save(s, NewMeta)) = Effect("sync", s, 0)
    BY CreateIs
  <2>3. Head(Save(s, NewMeta)) = Effect("describe", s, NewMeta)
    BY SaveIs
  <2>4. Head(<<Effect("remember", s, NewMeta)>>) = Effect("remember", s, NewMeta)
    OBVIOUS
  <2>5. op.todo \notin {CreateSegment(s), <<Effect("sync", s, 0)>> \o Save(s, NewMeta), Save(s, NewMeta),
                        <<Effect("remember", s, NewMeta)>>}
    BY <1>1, <2>1, <2>2, <2>3, <2>4, EffectIs
  <2> QED BY <2>5 DEF Create
<1>6. ~ Erase(s, x)
  <2>1. Head(Save(s, x) \o DeleteFiles(s)) = Effect("describe", s, x)
    BY CollectIs
  <2>2. Head(<<Effect("remember", s, x)>> \o DeleteFiles(s)) = Effect("remember", s, x)
    BY CollectIs
  <2>3. Head(DeleteFiles(s)) = Effect("unlink", s, 0)
    BY DeleteIs
  <2>4. Head(<<Effect("sync", s, 0)>> \o Save(s, NoMeta)) = Effect("sync", s, 0)
    BY DeleteIs
  <2>5. Head(Save(s, NoMeta)) = Effect("describe", s, NoMeta)
    BY SaveIs
  <2>6. Head(<<Effect("remember", s, NoMeta)>>) = Effect("remember", s, NoMeta)
    OBVIOUS
  <2>7. op.todo \notin {Save(s, x) \o DeleteFiles(s), <<Effect("remember", s, x)>> \o DeleteFiles(s),
                        DeleteFiles(s), <<Effect("sync", s, 0)>> \o Save(s, NoMeta), Save(s, NoMeta),
                        <<Effect("remember", s, NoMeta)>>}
    BY <1>1, <2>1, <2>2, <2>3, <2>4, <2>5, <2>6, EffectIs
  <2> QED BY <2>7 DEF Erase
<1>7. ~ Salvage(s, x)
  <2>1. Head(<<Effect("unlink", s, 0)>>) = Effect("unlink", s, 0)
    OBVIOUS
  <2>2. PICK m : m = Later
    OBVIOUS
  <2>3. Head(<<Effect("trim", s, 0)>> \o (Store(s, m) \o DeleteFiles(s))) = Effect("trim", s, 0)
    BY TrimIs
  <2>4. Head(Store(s, x) \o DeleteFiles(s)) = Effect("describe", s, x)
    BY BuryIs
  <2>5. Head(<<Effect("sync", s, 0)>> \o DeleteFiles(s)) = Effect("sync", s, 0)
    BY BuryIs
  <2>6. Head(<<Effect("trim", s, 0)>> \o Save(s, m)) = Effect("trim", s, 0)
    BY TrimIs
  <2>7. Head(Save(s, x)) = Effect("describe", s, x)
    BY SaveIs
  <2>8. Head(<<Effect("remember", s, x)>>) = Effect("remember", s, x)
    OBVIOUS
  <2>9. op.todo \notin {<<Effect("unlink", s, 0)>>, <<Effect("trim", s, 0)>> \o (Store(s, m) \o DeleteFiles(s)),
                        Store(s, x) \o DeleteFiles(s), <<Effect("sync", s, 0)>> \o DeleteFiles(s),
                        <<Effect("trim", s, 0)>> \o Save(s, m), Save(s, x), <<Effect("remember", s, x)>>}
    BY <1>1, <2>1, <2>3, <2>4, <2>5, <2>6, <2>7, <2>8, EffectIs
  <2> QED BY <2>2, <2>9 DEF Salvage
<1>8. Write(s, x)
  BY <1>2, <1>3, <1>4, <1>5, <1>6, <1>7
<1>9. op.todo = Commit(s, x) /\ WriteOK(s) /\ x \in Seq(Captures)
  <2>1. Head(<<Effect("sync_data", s, 0), Effect("line", s, 0), Effect("count", s, 0)>>).do = "sync_data"
        /\ Head(<<Effect("line", s, 0), Effect("count", s, 0)>>).do = "line"
        /\ Head(<<Effect("count", s, 0)>>).do = "count"
    BY DEF Effect
  <2> QED BY <1>1, <1>8, <2>1 DEF Write
<1> QED BY <1>9 DEF WriteOK, Commits

LEMMA OnlyCommitsNext == IInv' => Alone'
  BY OnlyCommits, PTL

(* The effects that follow do not write. *)
LEMMA WritesOnce ==
  ASSUME IInv, Step
  PROVE  ~ AboutToWrite'
<1>0. PICK q : op.todo # <<>> /\ op'.todo = q /\ q = Tail(op.todo)
  BY StepGoes DEF IInv, Goes
<1>1. PICK s, x : op.todo = First \/ Alter(s, x) \/ Create(s) \/ Write(s, x) \/ Erase(s, x) \/ Salvage(s, x)
  BY <1>0 DEF IInv, AtWork
<1> DEFINE Still == q = <<>> \/ Head(q).do # "write"
<1> SUFFICES Still
  BY <1>0 DEF AboutToWrite
<1>2. ASSUME NEW m, q \in {Save(s, m), Store(s, m) \o DeleteFiles(s)} PROVE Still
  <2>1. Head(Save(s, m)) = Effect("describe", s, m)
    BY SaveIs
  <2>2. Head(Store(s, m) \o DeleteFiles(s)) = Effect("describe", s, m)
    BY BuryIs
  <2> QED BY <1>2, <2>1, <2>2, EffectIs
<1>3. CASE op.todo = First
  BY <1>0, <1>3 DEF First
<1>4. ASSUME NEW m, op.todo = Save(s, m) PROVE Still
  <2>1. q = <<Effect("remember", s, m)>>
    BY <1>0, <1>4, SaveIs
  <2>2. Head(<<Effect("remember", s, m)>>) = Effect("remember", s, m)
    OBVIOUS
  <2>3. Effect("remember", s, m).do = "remember"
    BY EffectIs
  <2> QED BY <2>1, <2>2, <2>3
<1>5. ASSUME NEW e, op.todo = <<e>> PROVE Still
  BY <1>0, <1>5
<1>6. ASSUME q \in {DeleteFiles(s), <<Effect("sync", s, 0)>> \o Save(s, NoMeta),
                    <<Effect("sync", s, 0)>> \o Save(s, NewMeta), <<Effect("sync", s, 0)>> \o DeleteFiles(s),
                    <<Effect("remember", s, x)>> \o DeleteFiles(s)} PROVE Still
  <2>1. Head(DeleteFiles(s)) = Effect("unlink", s, 0)
    BY DeleteIs
  <2>2. Head(<<Effect("sync", s, 0)>> \o Save(s, NoMeta)) = Effect("sync", s, 0)
    BY DeleteIs
  <2>3. Head(<<Effect("sync", s, 0)>> \o Save(s, NewMeta)) = Effect("sync", s, 0)
    BY CreateIs
  <2>4. Head(<<Effect("sync", s, 0)>> \o DeleteFiles(s)) = Effect("sync", s, 0)
    BY BuryIs
  <2>5. Head(<<Effect("remember", s, x)>> \o DeleteFiles(s)) = Effect("remember", s, x)
    BY CollectIs
  <2> QED BY <1>6, <2>1, <2>2, <2>3, <2>4, <2>5, EffectIs
<1>7. CASE Alter(s, x)
  <2>1. op.todo = Save(s, x) \/ op.todo = <<Effect("remember", s, x)>>
    BY <1>7 DEF Alter
  <2> HIDE DEF Still
  <2> QED BY <2>1, <1>4, <1>5
<1>8. CASE Create(s)
  <2>1. CASE op.todo = CreateSegment(s)
    BY <1>0, <2>1, <1>6, CreateIs
  <2>2. CASE op.todo = <<Effect("sync", s, 0)>> \o Save(s, NewMeta)
    <3>1. q = Save(s, NewMeta)
      <4>1. Tail(<<Effect("sync", s, 0)>> \o Save(s, NewMeta)) = Save(s, NewMeta)
        BY CreateIs
      <4> QED BY <1>0, <2>2, <4>1
    <3> HIDE DEF Still
    <3> QED BY <3>1, <1>2
  <2>3. op.todo \in {CreateSegment(s), <<Effect("sync", s, 0)>> \o Save(s, NewMeta), Save(s, NewMeta),
                     <<Effect("remember", s, NewMeta)>>}
    BY <1>8 DEF Create
  <2> HIDE DEF Still
  <2> QED BY <2>1, <2>2, <2>3, <1>4, <1>5
<1>9. CASE Write(s, x)
  <2>1. op.todo \in {Commit(s, x), <<Effect("sync_data", s, 0), Effect("line", s, 0), Effect("count", s, 0)>>,
                     <<Effect("line", s, 0), Effect("count", s, 0)>>, <<Effect("count", s, 0)>>}
    BY <1>9 DEF Write
  <2>2. q \in {<<Effect("sync_data", s, 0), Effect("line", s, 0), Effect("count", s, 0)>>,
               <<Effect("line", s, 0), Effect("count", s, 0)>>, <<Effect("count", s, 0)>>, <<>>}
    <3>1. Tail(<<Effect("sync_data", s, 0), Effect("line", s, 0), Effect("count", s, 0)>>)
            = <<Effect("line", s, 0), Effect("count", s, 0)>>
          /\ Tail(<<Effect("line", s, 0), Effect("count", s, 0)>>) = <<Effect("count", s, 0)>>
          /\ Tail(<<Effect("count", s, 0)>>) = <<>>
      OBVIOUS
    <3>2. Tail(Commit(s, x)) = <<Effect("sync_data", s, 0), Effect("line", s, 0), Effect("count", s, 0)>>
      BY CommitIs
    <3> QED BY <1>0, <2>1, <3>1, <3>2
  <2>3. Head(<<Effect("sync_data", s, 0), Effect("line", s, 0), Effect("count", s, 0)>>).do = "sync_data"
        /\ Head(<<Effect("line", s, 0), Effect("count", s, 0)>>).do = "line"
        /\ Head(<<Effect("count", s, 0)>>).do = "count"
    BY DEF Effect
  <2> QED BY <2>2, <2>3
<1>10. CASE Erase(s, x)
  <2>1. op.todo \in {Save(s, x) \o DeleteFiles(s), <<Effect("remember", s, x)>> \o DeleteFiles(s),
                     DeleteFiles(s), <<Effect("sync", s, 0)>> \o Save(s, NoMeta), Save(s, NoMeta),
                     <<Effect("remember", s, NoMeta)>>}
    BY <1>10 DEF Erase
  <2>2. CASE op.todo = Save(s, x) \o DeleteFiles(s)
    BY <1>0, <2>2, <1>6, CollectIs
  <2>3. CASE op.todo = <<Effect("remember", s, x)>> \o DeleteFiles(s)
    BY <1>0, <2>3, <1>6, CollectIs
  <2>4. CASE op.todo = DeleteFiles(s)
    BY <1>0, <2>4, <1>6, DeleteIs
  <2>5. CASE op.todo = <<Effect("sync", s, 0)>> \o Save(s, NoMeta)
    <3>1. q = Save(s, NoMeta)
      <4>1. Tail(<<Effect("sync", s, 0)>> \o Save(s, NoMeta)) = Save(s, NoMeta)
        BY DeleteIs
      <4> QED BY <1>0, <2>5, <4>1
    <3> HIDE DEF Still
    <3> QED BY <3>1, <1>2
  <2> HIDE DEF Still
  <2> QED BY <2>1, <2>2, <2>3, <2>4, <2>5, <1>4, <1>5
<1>11. CASE Salvage(s, x)
  <2>1. PICK m : m = Later
    OBVIOUS
  <2>2. op.todo \in {<<Effect("unlink", s, 0)>>, <<Effect("trim", s, 0)>> \o (Store(s, m) \o DeleteFiles(s)),
                     Store(s, x) \o DeleteFiles(s), <<Effect("sync", s, 0)>> \o DeleteFiles(s),
                     <<Effect("trim", s, 0)>> \o Save(s, m), Save(s, x), <<Effect("remember", s, x)>>}
    BY <1>11, <2>1 DEF Salvage
  <2>3. CASE op.todo = <<Effect("trim", s, 0)>> \o (Store(s, m) \o DeleteFiles(s))
    <3>1. q = Store(s, m) \o DeleteFiles(s)
      <4>0. PICK e : e = Effect("trim", s, 0)
        OBVIOUS
      <4>1. Tail(<<e>> \o (Store(s, m) \o DeleteFiles(s))) = Store(s, m) \o DeleteFiles(s)
        BY TrimIs, SMTT(30)
      <4>2. op.todo = <<e>> \o (Store(s, m) \o DeleteFiles(s))
        BY <4>0, <2>3
      <4> QED BY <1>0, <4>1, <4>2
    <3> HIDE DEF Still
    <3> QED BY <3>1, <1>2
  <2>4. CASE op.todo = Store(s, x) \o DeleteFiles(s)
    BY <1>0, <2>4, <1>6, BuryIs
  <2>5. CASE op.todo = <<Effect("sync", s, 0)>> \o DeleteFiles(s)
    BY <1>0, <2>5, <1>6, BuryIs
  <2>6. CASE op.todo = <<Effect("trim", s, 0)>> \o Save(s, m)
    <3>1. q = Save(s, m)
      <4>0. PICK e : e = Effect("trim", s, 0)
        OBVIOUS
      <4>1. Tail(<<e>> \o Save(s, m)) = Save(s, m)
        BY TrimIs, SMTT(30)
      <4>2. op.todo = <<e>> \o Save(s, m)
        BY <4>0, <2>6, SMTT(30)
      <4> QED BY <1>0, <4>1, <4>2
    <3> HIDE DEF Still
    <3> QED BY <3>1, <1>2
  <2> HIDE DEF Still
  <2> QED BY <2>2, <2>3, <2>4, <2>5, <2>6, <1>4, <1>5
<1> HIDE DEF Still
<1> QED BY <1>1, <1>3, <1>7, <1>8, <1>9, <1>10, <1>11

(* Any other effect leaves the data alone, or takes what no line counts.   *)
LEMMA WholeShorter ==
  ASSUME NEW d \in Seq(Captures)
  PROVE  Shorter(d, d) /\ Shorter(d, <<>>)
<1>1. Len(d) \in 0 .. Len(d) /\ 0 \in 0 .. Len(d)
  OBVIOUS
<1>2. d = SubSeq(d, 1, Len(d)) /\ <<>> = SubSeq(d, 1, 0)
  OBVIOUS
<1> QED BY <1>1, <1>2 DEF Shorter

LEMMA StepShrinks ==
  ASSUME IInv, Step, Head(op.todo).do # "write"
  PROVE  Shrinks
<1>1. PICK e : e = Head(op.todo)
  OBVIOUS
<1>2. disk' = OnDisk(e) /\ DiskInv /\ disk \in [Segments -> Files] /\ e.do # "write"
  BY <1>1, StepGoes DEF IInv, DiskInv, DiskTypes
<1> SUFFICES ASSUME NEW t \in Segments PROVE Shorter(disk[t].data, disk'[t].data)
  BY DEF Shrinks
<1>3. disk[t] \in Files /\ FileOK(disk[t]) /\ disk[t].data \in Seq(Captures)
  BY <1>2, DiskAt DEF Files
<1>4. disk'[t].data = disk[t].data \/ disk'[t].data = <<>> => Shorter(disk[t].data, disk'[t].data)
  BY <1>3, WholeShorter
<1>5. CASE e.do = "files"
  <2>1. disk' = [disk EXCEPT ![e.seg].entry = "new"]
    BY <1>2, <1>5, DidFiles
  <2> QED BY <1>2, <1>3, <1>4, <2>1 DEF Files
<1>6. CASE e.do = "describe"
  <2>1. disk' = [disk EXCEPT ![e.seg].meta = e.arg]
    BY <1>2, <1>6, DidDescribe
  <2> QED BY <1>2, <1>3, <1>4, <2>1 DEF Files
<1>7. CASE e.do \in {"sync", "remember"}
  <2>1. disk' = Sync(disk)
    BY <1>2, <1>7, DidSync, DidRemember
  <2>2. disk'[t] = Synced(disk[t])
    BY <1>2, <2>1, SyncDisk
  <2>3. Synced(disk[t]).data = <<>> \/ Synced(disk[t]).data = disk[t].data
    BY <1>3 DEF Synced, Absent, Files
  <2> QED BY <1>4, <2>2, <2>3
<1>8. CASE e.do = "sync_data"
  <2>1. disk' = [disk EXCEPT ![e.seg].synced = Len(disk[e.seg].data)]
    BY <1>2, <1>8, DidSyncData
  <2> QED BY <1>2, <1>3, <1>4, <2>1 DEF Files
<1>9. CASE e.do = "line"
  <2>1. disk' = [disk EXCEPT ![e.seg].lines = Append(@, Len(disk[e.seg].data))]
    BY <1>2, <1>9, DidLine
  <2> QED BY <1>2, <1>3, <1>4, <2>1 DEF Files
<1>10. CASE e.do \in {"sync_lines", "count"}
  <2>1. disk' = [disk EXCEPT ![e.seg].linesSynced = Len(disk[e.seg].lines)]
    BY <1>2, <1>10 DEF OnDisk
  <2> QED BY <1>2, <1>3, <1>4, <2>1 DEF Files
<1>11. CASE e.do = "trim"
  <2>1. disk' = [disk EXCEPT ![e.seg].data = SubSeq(@, 1, LastLine(disk[e.seg])),
                             ![e.seg].synced = LastLine(disk[e.seg]),
                             ![e.seg].linesSynced = Len(disk[e.seg].lines)]
    BY <1>2, <1>11, DidTrim
  <2>2. disk'[t].data = disk[t].data \/ disk'[t].data = SubSeq(disk[t].data, 1, LastLine(disk[t]))
    <3>1. PICK u, n, l : u = e.seg /\ n = LastLine(disk[u]) /\ l = Len(disk[u].lines)
      OBVIOUS
    <3>2. PICK a : a = [disk EXCEPT ![u].data = SubSeq(@, 1, n)]
      OBVIOUS
    <3>3. PICK b : b = [a EXCEPT ![u].synced = n]
      OBVIOUS
    <3>4. disk' = [b EXCEPT ![u].linesSynced = l]
      BY <2>1, <3>1, <3>2, <3>3
    <3>5. DOMAIN a = Segments /\ DOMAIN b = Segments /\ DOMAIN disk = Segments
      BY <1>2, <3>2, <3>3
    <3>6. a[t].data = IF t = u THEN SubSeq(disk[t].data, 1, n) ELSE disk[t].data
      BY <1>3, <3>2, <3>5 DEF Files
    <3>7. DOMAIN a[t] = DOMAIN disk[t] /\ "data" \in DOMAIN disk[t]
      BY <1>3, <3>2, <3>5 DEF Files
    <3>8. b[t].data = a[t].data /\ DOMAIN b[t] = DOMAIN a[t]
      BY <3>3, <3>5, <3>7
    <3>9. disk'[t].data = b[t].data
      BY <3>4, <3>5, <3>7, <3>8
    <3> QED BY <3>1, <3>6, <3>8, <3>9
  <2>3. LastLine(disk[t]) \in 0 .. Len(disk[t].data)
    <3>1. LastLine(disk[t]) \in Nat /\ LastLine(disk[t]) <= disk[t].synced
      BY <1>3, LastLineIs
    <3>2. disk[t].synced \in Nat /\ disk[t].synced <= Len(disk[t].data)
      BY <1>3 DEF Files, FileOK, Journaled
    <3> QED BY <1>3, <3>1, <3>2
  <2>4. disk'[t].data = SubSeq(disk[t].data, 1, LastLine(disk[t])) => Shorter(disk[t].data, disk'[t].data)
    BY <2>3 DEF Shorter
  <2> QED BY <1>4, <2>2, <2>4, SMTT(40)
<1>12. CASE e.do = "unlink"
  <2>1. disk' = [disk EXCEPT ![e.seg].entry = IF @ = "none" THEN @ ELSE "gone"]
    BY <1>2, <1>12, DidUnlink
  <2> QED BY <1>2, <1>3, <1>4, <2>1 DEF Files
<1>13. CASE e.do \notin {"files", "describe", "sync", "remember", "sync_data", "line", "sync_lines",
                         "count", "trim", "unlink"}
  <2>1. disk' = disk
    BY <1>2, <1>13 DEF OnDisk
  <2> QED BY <1>4, <2>1
<1> QED BY <1>5, <1>6, <1>7, <1>8, <1>9, <1>10, <1>11, <1>12, <1>13

LEMMA TailOfJoin ==
  ASSUME NEW q \in Seq(Captures), NEW r \in Seq(Captures)
  PROVE  SubSeq(q \o r, Len(q) + 1, Len(q \o r)) = r
<1>1. PICK p : p = q \o r
  OBVIOUS
<1>2. p \in Seq(Captures) /\ Len(p) = Len(q) + Len(r) /\ \A i \in 1 .. Len(r) : p[Len(q) + i] = r[i]
  BY <1>1
<1>3. PICK t : t = SubSeq(p, Len(q) + 1, Len(p))
  OBVIOUS
<1>4. t \in Seq(Captures) /\ Len(t) = Len(r) /\ \A i \in 1 .. Len(r) : t[i] = p[Len(q) + i]
  BY <1>2, <1>3
<1>5. t = r
  BY <1>2, <1>4, SeqEqual
<1> QED BY <1>1, <1>3, <1>5

(* A write takes the room that was found for it. *)
LEMMA StepWrites ==
  ASSUME IInv, IInv', Step, AboutToWrite, IsFiniteSet(Segments)
  PROVE  \E s \in Segments :
           Written(s) = Head(op.todo).arg /\ Written(s) \in Seq(Captures) /\ Total' <= Total + Bytes(Written(s))
<1>1. Alone
  BY OnlyCommits
<1>2. PICK s \in Segments, cs \in Seq(Captures) : op.todo = Commit(s, cs)
  BY <1>1 DEF Alone, Commits
<1>3. PICK e : e = Head(op.todo)
  OBVIOUS
<1>4. e.do = "write" /\ e.seg = s /\ e.arg = cs
  BY <1>2, <1>3, CommitIs, EffectIs, SMTT(30)
<1>5. disk' = [disk EXCEPT ![s].data = @ \o cs]
  <2>1. OnDisk(e) = [disk EXCEPT ![e.seg].data = @ \o e.arg]
    BY <1>4, DidWrite
  <2> QED BY <1>3, <1>4, <2>1, StepGoes DEF IInv
<1>6. disk \in [Segments -> Files] /\ DiskInv /\ DiskInv'
  BY DEF IInv, DiskInv, DiskTypes
<1>7. disk[s].data \in Seq(Captures)
  BY <1>6 DEF Files
<1>8. disk'[s].data = disk[s].data \o cs
  BY <1>5, <1>6, <1>7 DEF Files
<1>9. \A t \in Segments \ {s} : disk'[t].data = disk[t].data
  BY <1>5, <1>6
<1>10. Bytes(disk[s].data \o cs) = Bytes(disk[s].data) + Bytes(cs) /\ Bytes(cs) \in Nat
       /\ Bytes(disk[s].data) \in Nat
  <2>1. PICK d : d = disk[s].data
    OBVIOUS
  <2>2. d \in Seq(Captures) /\ d \o cs \in Seq(Captures)
    BY <1>7, <2>1
  <2>3. Weight(Size, d \o cs) = Weight(Size, d) + Weight(Size, cs)
    <3>1. Size \in [Captures -> Nat] /\ d \in Seq(Captures) /\ cs \in Seq(Captures)
      BY <2>2, SpoolAssumptions
    <3> QED BY <3>1, WeightJoin
  <2> QED BY <2>1, <2>2, <2>3, BytesIs
<1>11. Naturals0(Sizes, Segments)
  BY <1>6, SizesAre
<1>12. PICK k : k = Sizes'
  OBVIOUS
<1>13. \A t \in Segments : k[t] = Bytes(disk'[t].data)
  BY <1>12 DEF Sizes
<1>14. \A t \in Segments : Sizes[t] = Bytes(disk[t].data) /\ Sizes[t] \in Nat
  BY <1>11 DEF Sizes, Naturals0
<1>15. k[s] <= Sizes[s] + Bytes(cs) /\ k[s] \in Nat
  <2>1. k[s] = Bytes(disk[s].data \o cs)
    BY <1>8, <1>13
  <2>2. Sizes[s] = Bytes(disk[s].data)
    BY <1>14
  <2> QED BY <1>10, <2>1, <2>2
<1>16. \A t \in Segments \ {s} : k[t] <= Sizes[t] /\ k[t] \in Nat
  BY <1>9, <1>13, <1>14
<1>17. Naturals0(k, Segments)
  BY <1>15, <1>16 DEF Naturals0
<1>18. SumOf(k, Segments) <= SumOf(Sizes, Segments) + Bytes(cs)
  BY <1>10, <1>11, <1>15, <1>16, <1>17, SumGrows
<1>19. Written(s) = cs
  <2>1. PICK d : d = disk[s].data
    OBVIOUS
  <2>2. d \in Seq(Captures) /\ disk'[s].data = d \o cs
    BY <1>7, <1>8, <2>1
  <2>3. SubSeq(d \o cs, Len(d) + 1, Len(d \o cs)) = cs
    BY <2>2, TailOfJoin
  <2> QED BY <2>1, <2>2, <2>3 DEF Written
<1> QED BY <1>3, <1>4, <1>12, <1>18, <1>19 DEF Total

LEMMA SizesAreNext ==
  ASSUME DiskInv', IsFiniteSet(Segments)
  PROVE  Total' \in Nat
<1>1. ASSUME NEW s \in Segments PROVE Sizes'[s] \in Nat
  <2>1. disk'[s].data \in Seq(Captures)
    BY DEF DiskInv, DiskTypes, Files
  <2>2. Sizes'[s] = Bytes(disk'[s].data)
    BY DEF Sizes
  <2> QED BY <2>1, <2>2, BytesIs
<1>2. Naturals0(Sizes', Segments)
  BY <1>1 DEF Naturals0
<1>3. SumOf(Sizes', Segments) \in Nat
  BY <1>2, SumWithout
<1> QED BY <1>3 DEF Total

(* What a step may do with the bytes on the disk. *)
GrowsWithin == Total' > Total => \E s \in Segments : Total' + Slack <= MaxSpoolBytes + Excess(Written(s))

LEMMA NoGrowth ==
  ASSUME DiskInv, DiskInv', IsFiniteSet(Segments), Total' <= Total
  PROVE  GrowsWithin
  BY SizesAre, SizesAreNext DEF GrowsWithin

LEMMA StepQuota ==
  ASSUME IInv, IInv', QuotaInv, Step, IsFiniteSet(Segments)
  PROVE  QuotaInv' /\ GrowsWithin
<1>1. QuotaInv'
  BY WritesOnce DEF QuotaInv
<1>2. Total \in Nat /\ Total' \in Nat /\ {Slack, MaxSpoolBytes} \subseteq Nat
  BY SizesAre, SizesAreNext, SpoolAssumptions DEF IInv
<1>3. CASE AboutToWrite
  <2>1. PICK s \in Segments :
          Written(s) = Head(op.todo).arg /\ Written(s) \in Seq(Captures) /\ Total' <= Total + Bytes(Written(s))
    BY <1>3, StepWrites
  <2>2. Total + Reckoned(Written(s)) + Slack <= MaxSpoolBytes
    BY <1>3, <2>1 DEF QuotaInv, RoomFor
  <2>3. PICK cs \in Seq(Captures) : cs = Written(s)
    BY <2>1
  <2>4. Bytes(cs) \in Nat /\ Reckoned(cs) \in Nat /\ Excess(cs) \in Nat
        /\ Bytes(cs) <= Reckoned(cs) + Excess(cs)
    BY BytesIs, ReckonedIs, BytesSplit
  <2>5. PICK b \in Nat, r \in Nat, x \in Nat : b = Bytes(cs) /\ r = Reckoned(cs) /\ x = Excess(cs)
    BY <2>4
  <2>6. Total' <= Total + b /\ b <= r + x /\ Total + r + Slack <= MaxSpoolBytes
    BY <2>1, <2>2, <2>3, <2>4, <2>5
  <2>7. Total' + Slack <= MaxSpoolBytes + x
    BY <1>2, <2>6
  <2> QED BY <1>1, <2>3, <2>5, <2>7 DEF GrowsWithin
<1>4. CASE ~ AboutToWrite
  <2>1. Head(op.todo).do # "write"
    BY <1>4, StepGoes DEF AboutToWrite, IInv
  <2>2. Shrinks
    BY <2>1, StepShrinks
  <2>3. Total' <= Total
    BY <2>2, ShrinksFits DEF IInv
  <2> QED BY <1>1, <2>3, NoGrowth DEF IInv
<1> QED BY <1>3, <1>4

(* What the other actions leave alone; only NextGroup starts a commit.     *)
Elsewhere == op' = op \/ op'.todo = <<>> \/ op'.kind # "append"

LEMMA TurnsAway ==
  ASSUME Shaped
  PROVE  /\ \A kind, todo : [Idle EXCEPT !.kind = kind, !.todo = todo].kind = kind
         /\ \A kind, b, c, p : [Idle EXCEPT !.kind = kind, !.batch = b, !.rest = c, !.pins = p].kind = kind
         /\ \A kind : [Idle EXCEPT !.kind = kind].kind = kind
         /\ \A todo, pins : [op EXCEPT !.todo = todo, !.pins = pins].kind = op.kind
         /\ \A todo : [op EXCEPT !.todo = todo].kind = op.kind
         /\ \A kind, pins : [Then(kind) EXCEPT !.pins = pins].kind = kind
         /\ \A kind : Then(kind).todo = <<>>
         /\ Idle.todo = <<>>
<1> USE DEF Idle, Then
<1>1. \A kind, todo : [Idle EXCEPT !.kind = kind, !.todo = todo].kind = kind
  OBVIOUS
<1>2. \A kind, b, c, p : [Idle EXCEPT !.kind = kind, !.batch = b, !.rest = c, !.pins = p].kind = kind
  OBVIOUS
<1>3. \A kind : [Idle EXCEPT !.kind = kind].kind = kind
  OBVIOUS
<1>4. \A todo, pins : [op EXCEPT !.todo = todo, !.pins = pins].kind = op.kind
  BY DEF Shaped
<1>5. \A todo : [op EXCEPT !.todo = todo].kind = op.kind
  BY DEF Shaped
<1>6. \A kind, pins : [Then(kind) EXCEPT !.pins = pins].kind = kind
  BY DEF Shaped
<1>7. \A kind : Then(kind).todo = <<>>
  BY DEF Shaped
<1>8. Idle.todo = <<>>
  OBVIOUS
<1> QED BY <1>1, <1>2, <1>3, <1>4, <1>5, <1>6, <1>7, <1>8

LEMMA ProceedsElsewhere ==
  ASSUME IInv, Proceed, ~ Step, ~ NextGroup
  PROVE  Elsewhere /\ disk' = disk
<1>0. Shaped
  BY DEF IInv, OpTypes, Shaped
<1>1. CASE RecoverNext
  <2>1. PICK s : op' = [op EXCEPT !.todo = Recover(s)]
    BY <1>1 DEF RecoverNext
  <2>2. op.kind = "open" /\ disk' = disk
    BY <1>1 DEF RecoverNext, Busy
  <2>3. op'.kind = op.kind
    BY <1>0, <2>1, TurnsAway
  <2> QED BY <2>2, <2>3 DEF Elsewhere
<1>2. CASE Opens
  BY <1>0, <1>2, TurnsAway DEF Opens, Elsewhere
<1>3. CASE Cite
  <2>1. op.kind = "cite"
    BY <1>3 DEF Cite, Busy
  <2>2. CASE Continue(Then("append")) \/ Refuse("failed")
    BY <1>0, <2>2, TurnsAway DEF Continue, Refuse, Elsewhere
  <2>3. CASE \E s : Continue([op EXCEPT !.todo = Reference(s, Confirmed), !.pins = @ \ {s}])
    <3>1. PICK todo, pins : op' = [op EXCEPT !.todo = todo, !.pins = pins] /\ disk' = disk
      <4>1. PICK s : Continue([op EXCEPT !.todo = Reference(s, Confirmed), !.pins = @ \ {s}])
        BY <2>3
      <4> QED BY <4>1 DEF Continue
    <3>2. op'.kind = op.kind
      BY <1>0, <3>1, TurnsAway
    <3> QED BY <2>1, <3>1, <3>2 DEF Elsewhere
  <2> QED BY <1>3, <2>2, <2>3 DEF Cite
<1>4. CASE Appended
  <2>1. PICK pins : Continue([Then("pin") EXCEPT !.pins = pins])
    BY <1>4 DEF Appended
  <2>2. op' = [Then("pin") EXCEPT !.pins = pins] /\ disk' = disk
    BY <2>1 DEF Continue
  <2>3. op'.kind = "pin"
    BY <1>0, <2>2, TurnsAway
  <2> QED BY <2>2, <2>3 DEF Elsewhere
<1>5. CASE Pin
  <2>1. op.kind = "pin"
    BY <1>5 DEF Pin, Busy
  <2>2. PICK todo, pins : op' = [op EXCEPT !.todo = todo, !.pins = pins] /\ disk' = disk
    BY <1>5 DEF Pin, Continue
  <2>3. op'.kind = op.kind
    BY <1>0, <2>2, TurnsAway
  <2> QED BY <2>1, <2>2, <2>3 DEF Elsewhere
<1>6. CASE Reply({}) \/ Ends
  BY <1>0, <1>6, TurnsAway DEF Reply, Ends, Continue, Elsewhere
<1>7. CASE Finished
  BY <1>0, <1>7, TurnsAway DEF Finished, Down, Elsewhere
<1> QED BY <1>1, <1>2, <1>3, <1>4, <1>5, <1>6, <1>7 DEF Proceed

LEMMA UploadsElsewhere ==
  ASSUME IInv, Upload \/ LookLost \/ AttemptFails
  PROVE  Elsewhere /\ disk' = disk
<1>0. Shaped
  BY DEF IInv, OpTypes, Shaped
<1>1. CASE (\E s \in Segments : Choose(s)) \/ Look \/ AbortUpload \/ Initiate
  BY <1>1 DEF Choose, Look, AbortUpload, Initiate, Attempt, Elsewhere
<1>2. CASE Put \/ LookLost \/ AttemptFails
  BY <1>2 DEF Put, LookLost, AttemptFails, Elsewhere
<1>3. CASE RememberUpload
  <2>1. PICK todo : op' = [Idle EXCEPT !.kind = "remember", !.todo = todo] /\ disk' = disk
    BY <1>3 DEF RememberUpload
  <2>2. op'.kind = "remember"
    BY <1>0, <2>1, TurnsAway
  <2> QED BY <2>1, <2>2 DEF Elsewhere
<1>4. CASE Published
  <2>1. PICK todo : op' = [Idle EXCEPT !.kind = "publish", !.todo = todo] /\ disk' = disk
    BY <1>4 DEF Published
  <2>2. op'.kind = "publish"
    BY <1>0, <2>1, TurnsAway
  <2> QED BY <2>1, <2>2 DEF Elsewhere
<1> QED BY <1>1, <1>2, <1>3, <1>4 DEF Upload

LEMMA ActsElsewhere ==
  ASSUME IInv, Next, ~ Proceed, ~ Upload, ~ LookLost, ~ AttemptFails, ~ PowerLost
  PROVE  Elsewhere /\ disk' = disk
<1>0. Shaped
  BY DEF IInv, OpTypes, Shaped
<1> DEFINE Begins == \E kind, todo : kind # "append" /\ op' = [Idle EXCEPT !.kind = kind, !.todo = todo]
                                  /\ disk' = disk
<1>1. ASSUME Begins PROVE Elsewhere /\ disk' = disk
  <2>1. PICK kind, todo : kind # "append" /\ op' = [Idle EXCEPT !.kind = kind, !.todo = todo]
                          /\ disk' = disk
    BY <1>1
  <2>2. op'.kind = kind
    BY <1>0, <2>1, TurnsAway
  <2> QED BY <2>1, <2>2 DEF Elsewhere
<1>2. ASSUME op' = Idle, disk' = disk PROVE Elsewhere /\ disk' = disk
  BY <1>0, <1>2, TurnsAway DEF Elsewhere
<1>3. CASE Open
  <2>1. Begins
    BY <1>3 DEF Open
  <2> QED BY <1>1, <2>1
<1>4. CASE \E b \in Batches : Submit(b)
  <2>1. PICK b, p : op' = [Idle EXCEPT !.kind = "cite", !.batch = b, !.rest = b, !.pins = p] /\ disk' = disk
    BY <1>4 DEF Submit
  <2>2. op'.kind = "cite"
    BY <1>0, <2>1, TurnsAway
  <2> QED BY <2>1, <2>2 DEF Elsewhere
<1>5. CASE \E C \in SUBSET ToSet(op.batch) : Reply(C)
  BY <1>2, <1>5 DEF Reply
<1>6. CASE Tick
  <2>1. CASE Refuse("failed")
    BY <1>2, <2>1 DEF Refuse
  <2>2. CASE Continue([Idle EXCEPT !.kind = "tick", !.todo = Seal(active)])
    <3>1. Begins
      BY <2>2 DEF Continue
    <3> QED BY <1>1, <3>1
  <2> QED BY <1>6, <2>1, <2>2 DEF Tick
<1>7. CASE Finish
  <2>1. Begins
    BY <1>7 DEF Finish
  <2> QED BY <1>1, <2>1
<1>8. CASE \E s \in Segments : Gc(s)
  <2>1. Begins
    BY <1>8 DEF Gc, Continue
  <2> QED BY <1>1, <2>1
<1>9. CASE \E s \in Segments, key \in GivenUp : Release(s, key)
  <2>1. Begins
    BY <1>9 DEF Release
  <2> QED BY <1>1, <2>1
<1>10. CASE DiskFails
  BY <1>2, <1>10 DEF DiskFails, Down
<1>11. CASE Killed
  BY <1>2, <1>11 DEF Killed, Down
<1> QED BY <1>3, <1>4, <1>5, <1>6, <1>7, <1>8, <1>9, <1>10, <1>11 DEF Next

(* The next group fits: all that takes up space is visible when there is   *)
(* no error.                                                               *)
LEMMA GroupFitsSpool ==
  ASSUME IInv, op.kind = "append", op.todo = <<>>, IsFiniteSet(Segments),
         GroupSize # 0, NEW cs, cs = SubSeq(op.rest, 1, GroupSize)
  PROVE  RoomFor(cs)
<1>1. up /\ op.kind # "open" /\ health # "failed" /\ op.rest \in Seq(Captures)
  BY WritingAt DEF Writing
<1>2. PICK n : n = GroupSize
  OBVIOUS
<1>3. Fits(n) /\ n \in 0 .. Len(op.rest)
  <2> DEFINE T == {k \in 0 .. Len(op.rest) : k = 0 \/ Fits(k)}
  <2>1. Len(op.rest) \in Nat /\ T \subseteq 0 .. Len(op.rest) /\ 0 \in T
    BY <1>1
  <2>2. n = Max(T)
    BY <1>2 DEF GroupSize
  <2> HIDE DEF T
  <2>3. n \in T
    BY <2>1, <2>2, Largest
  <2> QED BY <1>2, <2>3 DEF T
<1>4. cs \in Seq(Captures)
  BY <1>1, <1>2, <1>3
<1>5. SpoolBytes + Reckoned(cs) + Slack <= MaxSpoolBytes
  BY <1>2, <1>3 DEF Fits
<1>6. SpoolBytes = Total
  <2>1. ASSUME NEW s \in Segments PROVE Shown[s] = Sizes[s]
    <3>1. Agree(s) /\ disk[s] \in Files /\ FileOK(disk[s])
      BY <1>1, ServingAt
    <3>2. Visible(s) \/ disk[s].data = <<>>
      BY <3>1 DEF Agree, FileOK, Tells, Whole, Empty, Visible, NoMeta
    <3>3. Bytes(<<>>) = 0
      <4>1. PICK q : q = <<>>
        OBVIOUS
      <4>2. q \in Seq(Captures) /\ Weight(Size, q) = 0
        BY <4>1, WeightNone
      <4> QED BY <4>1, <4>2, BytesIs
    <3> QED BY <3>2, <3>3 DEF Shown, Sizes
  <2>2. SumOf(Shown, Segments) = SumOf(Sizes, Segments)
    BY <2>1, SizesAre, SumSame DEF IInv
  <2> QED BY <2>2, SpoolBytesIs DEF Total
<1> QED BY <1>5, <1>6 DEF RoomFor

LEMMA NextGroupQuota ==
  ASSUME IInv, NextGroup, IsFiniteSet(Segments)
  PROVE  disk' = disk /\ (AboutToWrite' => RoomFor(Head(op'.todo).arg))
<1>0. op.kind = "append" /\ op.todo = <<>> /\ Shaped
  BY DEF NextGroup, Busy, IInv, OpTypes, Shaped
<1> DEFINE c == Head(op.rest)
<1>1. PICK due \in BOOLEAN :
        IF health = "poisoned" \/ Bound[c] > SegmentBytes THEN Refuse("failed")
        ELSE IF Rotates(c, due) THEN Continue([op EXCEPT !.todo = Seal(active)])
        ELSE IF QuotaFull(c) THEN Refuse("failed")
        ELSE IF active = NoSegment
        THEN \E s \in Segments :
               /\ Fresh(s)
               /\ \A t \in Segments : Fresh(t) => s <= t
               /\ Continue([op EXCEPT !.todo = CreateSegment(s)])
        ELSE IF GroupSize = 0 THEN Refuse("failed")
        ELSE Continue([op EXCEPT !.todo = Commit(active, SubSeq(op.rest, 1, GroupSize)),
                                 !.rest = SubSeq(@, GroupSize + 1, Len(@))])
  BY DEF NextGroup
<1> HIDE DEF c
<1>2. ASSUME NEW e, e.do # "write", Head(op'.todo) = e PROVE ~ AboutToWrite'
  BY <1>2 DEF AboutToWrite
<1>3. CASE Refuse("failed")
  <2>1. disk' = disk /\ op'.todo = <<>>
    BY <1>3 DEF Refuse, Idle
  <2> QED BY <2>1 DEF AboutToWrite
<1>4. CASE Continue([op EXCEPT !.todo = Seal(active)])
  <2>1. disk' = disk /\ op'.todo = Seal(active)
    BY <1>0, <1>4 DEF Continue, Shaped
  <2>2. PICK m : Seal(active) = Save(active, m)
    BY DEF Seal
  <2>3. Head(op'.todo) = Effect("describe", active, m)
    BY <2>1, <2>2, SaveIs
  <2>4. Effect("describe", active, m).do # "write"
    BY EffectIs
  <2> QED BY <1>2, <2>1, <2>3, <2>4
<1>5. ASSUME NEW s \in Segments, Continue([op EXCEPT !.todo = CreateSegment(s)])
      PROVE  disk' = disk /\ ~ AboutToWrite'
  <2>1. disk' = disk /\ op'.todo = CreateSegment(s)
    BY <1>0, <1>5 DEF Continue, Shaped
  <2>2. Head(op'.todo) = Effect("files", s, 0)
    BY <2>1, CreateIs
  <2>3. Effect("files", s, 0).do # "write"
    BY EffectIs
  <2> QED BY <1>2, <2>1, <2>2, <2>3
<1>6. ASSUME GroupSize # 0,
             Continue([op EXCEPT !.todo = Commit(active, SubSeq(op.rest, 1, GroupSize)),
                                 !.rest = SubSeq(@, GroupSize + 1, Len(@))])
      PROVE  disk' = disk /\ RoomFor(Head(op'.todo).arg)
  <2>1. PICK cs : cs = SubSeq(op.rest, 1, GroupSize)
    OBVIOUS
  <2>2. PICK r : op' = [op EXCEPT !.todo = Commit(active, cs), !.rest = r] /\ disk' = disk
    BY <1>6, <2>1 DEF Continue
  <2>3. op'.todo = Commit(active, cs)
    BY <1>0, <2>2 DEF Shaped
  <2>4. Head(op'.todo).arg = cs
    BY <2>3, CommitIs, EffectIs
  <2>5. RoomFor(cs)
    BY <1>0, <1>6, <2>1, GroupFitsSpool
  <2> QED BY <2>2, <2>4, <2>5
<1> QED BY <1>1, <1>3, <1>4, <1>5, <1>6

LEMMA QuotaTurn ==
  ASSUME IInv, IInv', Alone', QuotaInv, [Next]_vars, IsFiniteSet(Segments)
  PROVE  QuotaInv' /\ GrowsWithin
<1>1. CASE Step
  BY <1>1, StepQuota
<1>2. ASSUME disk' = disk PROVE Total' = Total /\ GrowsWithin
  <2>1. Sizes' = Sizes
    BY <1>2 DEF Sizes
  <2>2. Total' = Total
    BY <2>1 DEF Total
  <2> QED BY <2>2, SizesAre, NoGrowth DEF IInv
<1>3. CASE NextGroup
  <2>1. disk' = disk /\ (AboutToWrite' => RoomFor(Head(op'.todo).arg))
    BY <1>3, NextGroupQuota
  <2> QED BY <1>2, <2>1 DEF QuotaInv, RoomFor
<1>4. ASSUME Elsewhere, disk' = disk PROVE QuotaInv' /\ GrowsWithin
  <2>1. Total' = Total /\ GrowsWithin
    BY <1>2, <1>4
  <2>2. CASE op' = op
    BY <2>1, <2>2 DEF QuotaInv, AboutToWrite, RoomFor
  <2>3. CASE op'.todo = <<>> \/ op'.kind # "append"
    <3>1. ~ AboutToWrite'
      BY <2>3 DEF Alone, AboutToWrite
    <3> QED BY <2>1, <3>1 DEF QuotaInv
  <2> QED BY <1>4, <2>1, <2>2, <2>3 DEF Elsewhere
<1>5. CASE PowerLost
  <2>1. Shrinks
    <3>1. ASSUME NEW s \in Segments PROVE Shorter(disk[s].data, disk'[s].data)
      <4>1. disk[s] \in Files /\ FileOK(disk[s]) /\ disk[s].data \in Seq(Captures)
        BY DiskAt DEF IInv, Files
      <4>2. disk'[s] \in Remains(disk[s])
        BY <1>5 DEF PowerLost
      <4>3. PICK d \in disk[s].synced .. Len(disk[s].data) :
               disk'[s].data = <<>> \/ disk'[s].data = SubSeq(disk[s].data, 1, d)
        <5>1. PICK f, g : f = disk[s] /\ g = disk'[s]
          OBVIOUS
        <5>2. f \in Files /\ g \in Remains(f)
          BY <4>1, <4>2, <5>1
        <5>3. PICK m \in {f.meta, f.old}, d \in f.synced .. Len(f.data), l \in f.linesSynced .. Len(f.lines) :
                 \/ /\ f.entry # "kept"
                    /\ g = [Absent EXCEPT !.meta = m, !.old = m]
                 \/ /\ f.entry \in {"new", "kept", "gone"}
                    /\ g = [f EXCEPT !.entry = "kept", !.meta = m, !.old = m,
                                     !.data = SubSeq(f.data, 1, d), !.synced = d,
                                     !.lines = SubSeq(f.lines, 1, l), !.linesSynced = l]
          BY <5>2, RemainsIs
        <5>4. g.data = <<>> \/ g.data = SubSeq(f.data, 1, d)
          BY <5>2, <5>3 DEF Absent, Files
        <5> QED BY <5>1, <5>3, <5>4
      <4>4. d \in 0 .. Len(disk[s].data)
        BY <4>1 DEF Files
      <4> QED BY <4>1, <4>3, <4>4, WholeShorter DEF Shorter
    <3> QED BY <3>1 DEF Shrinks
  <2>2. Total' <= Total
    BY <2>1, ShrinksFits DEF IInv
  <2>3. op'.todo = <<>>
    BY <1>5 DEF PowerLost, Down, Idle
  <2>4. ~ AboutToWrite'
    BY <2>3 DEF AboutToWrite
  <2>5. GrowsWithin
    BY <2>2, NoGrowth DEF IInv
  <2> QED BY <2>4, <2>5 DEF QuotaInv
<1>6. CASE UNCHANGED vars
  BY <1>4, <1>6 DEF vars, Elsewhere
<1>7. CASE Next /\ ~ Step /\ ~ NextGroup /\ ~ PowerLost
  BY <1>4, <1>7, ProceedsElsewhere, UploadsElsewhere, ActsElsewhere
<1> QED BY <1>1, <1>3, <1>5, <1>6, <1>7

(* A step that adds to what is on the disk leaves it within the quota less *)
(* its slack, but for what the captures that it writes are longer than     *)
(* they were reckoned at: whatever that is, and whatever stays behind      *)
(* after a fault, the next group is written only once there is room.       *)
THEOREM QuotaHolds ==
  ASSUME IsFiniteSet(Segments)
  PROVE  Spec => WithinQuota
<1>1. Init => QuotaInv
  BY DEF Init, QuotaInv, AboutToWrite, Idle
<1>2. IInv => Alone
  BY OnlyCommits
<1>3. IInv /\ IInv' /\ Alone' /\ QuotaInv /\ [Next]_vars => QuotaInv'
  BY QuotaTurn
<1>4. IInv /\ IInv' /\ Alone' /\ QuotaInv /\ [Next]_vars
        => [DataBytes' > DataBytes =>
              \E s \in Segments : DataBytes' + Slack <= MaxSpoolBytes + Excess(Written(s))]_vars
  <2> SUFFICES ASSUME IInv, IInv', Alone', QuotaInv, [Next]_vars, DataBytes' > DataBytes
               PROVE  \E s \in Segments : DataBytes' + Slack <= MaxSpoolBytes + Excess(Written(s))
    OBVIOUS
  <2>1. DataBytes = Total /\ DataBytes' = Total'
    BY DataBytesIs, DataBytesIsNext
  <2> QED BY <2>1, QuotaTurn DEF GrowsWithin
<1>5. Spec => []IInv
  BY Inductive
<1> QED BY <1>1, <1>2, <1>3, <1>4, <1>5, PTL DEF Spec, WithinQuota
=============================================================================
