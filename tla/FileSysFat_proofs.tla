-------------------------- MODULE FileSysFat_proofs --------------------------
(***************************************************************************)
(* Proofs about the FAT file system, for every volume, set of files and    *)
(* client: the types, that a file's location is that of its position, that *)
(* a read returns the data of the file, and that directories are listed in *)
(* order and paths resolved rightly.  The inductive invariant says of each *)
(* TFile where it is in the chain of its clusters, of the file at the head *)
(* of the queue what the storage transaction is for, and of a search in a  *)
(* directory what it has passed.                                           *)
(***************************************************************************)
EXTENDS FileSysFat, FiniteSetTheorems, SequenceTheorems, WellFoundedInduction, TLAPS

-----------------------------------------------------------------------------
(* Numbers. *)

\* What the assumptions say of the sizes.
LEMMA Sizes ==
  /\ SectorUnits \in Nat /\ SectorUnits > 1
  /\ ClusterUnits \in Nat /\ ClusterUnits > 0 /\ ClusterUnits < Wide
  /\ DataStart \in Nat /\ DataStart > 0
  /\ clustercount \in Nat /\ clustercount > 0
  /\ Wide = 65536
<1>1. Wide = 65536 /\ Wide \in Nat
  BY DEF Wide
<1>2. /\ SectorUnits \in Nat /\ SectorUnits > 1
      /\ DataStart \in Nat /\ DataStart > 0
      /\ clustercount \in Nat /\ clustercount > 0
  BY UnitsAssumption
<1>3. ClusterUnits \in Nat /\ ClusterUnits > 0 /\ ClusterUnits < Wide
  <2>1. ClusterUnits \in 1 .. (Wide - 1)
    BY UnitsAssumption
  <2>2. Wide \in Nat
    BY <1>1
  <2> QED BY ONLY <2>1, <2>2
<1> QED BY <1>1, <1>2, <1>3

\* The data area does not end before it starts.
LEMMA Ends0 == DataEnd \in Nat /\ InvalidAddr \in Nat
<1>1. \A x, y \in Nat : x * y \in Nat
  OBVIOUS
<1>2. clustercount * ClusterUnits \in Nat
  BY <1>1, Sizes
<1> QED BY <1>2, Sizes DEF DataEnd, InvalidAddr

\* Quotient and remainder of a place in a cluster.
LEMMA Divided ==
  ASSUME NEW n \in Nat, n > 0, NEW m \in Int, NEW k \in 0 .. n - 1
  PROVE  (m * n + k) \div n = m /\ (m * n + k) % n = k
OBVIOUS

\* A number is its quotient and remainder.
LEMMA Division ==
  ASSUME NEW n \in Nat, n > 0, NEW x \in Nat
  PROVE  x \div n \in Nat /\ x % n \in 0 .. n - 1 /\ x = (x \div n) * n + (x % n)
OBVIOUS

\* Multiples are in the order of their factors.
LEMMA Multiples ==
  ASSUME NEW n \in Nat, n > 0, NEW x \in Int, NEW y \in Int, x * n < y * n
  PROVE  x < y
OBVIOUS

\* A sequence with another one behind it.
LEMMA Appended ==
  ASSUME NEW s \in Seq(Nat), NEW t \in Seq(Nat)
  PROVE  /\ s \o t \in Seq(Nat) /\ Len(s \o t) = Len(s) + Len(t)
         /\ \A i \in 1 .. Len(s) : (s \o t)[i] = s[i]
         /\ \A i \in 1 .. Len(t) : (s \o t)[Len(s) + i] = t[i]
BY ConcatProperties
-----------------------------------------------------------------------------
(* Places in the volume. *)

\* The clusters that the code takes for such.
Inside(c) == c \in 2 .. clustercount - 1

\* Addresses and clusters are numbers.
LEMMA PlaceTypes ==
  /\ \A c \in Nat : ClusterToAddr(c) \in Nat
  /\ \A a \in Nat : AddrToCluster(a) \in Nat
<1>1. ASSUME NEW c \in Nat PROVE ClusterToAddr(c) \in Nat
  <2>1. \A x, y \in Nat : x * y \in Nat
    OBVIOUS
  <2>2. CASE c < 2 \/ c >= clustercount
    BY <2>2, Ends0 DEF ClusterToAddr
  <2>3. CASE ~(c < 2 \/ c >= clustercount)
    <3>1. c - 2 \in Nat
      BY <2>3, Sizes
    <3>2. (c - 2) * ClusterUnits \in Nat
      BY <3>1, <2>1, Sizes
    <3> QED BY <2>3, <3>2, Sizes DEF ClusterToAddr
  <2> QED BY <2>2, <2>3
<1>2. ASSUME NEW a \in Nat PROVE AddrToCluster(a) \in Nat
  <2>1. CASE a < DataStart
    BY <2>1 DEF AddrToCluster
  <2>2. CASE a >= DataStart
    <3>1. a - DataStart \in Nat
      BY <2>2, Sizes
    <3>2. (a - DataStart) \div ClusterUnits \in Nat
      BY <3>1, Division, Sizes
    <3> QED BY <3>2, Sizes DEF AddrToCluster
  <2> QED BY <2>1, <2>2, Sizes
<1> QED BY <1>1, <1>2

\* The first address of a cluster and the address behind its last unit.
LEMMA ClusterOf ==
  ASSUME NEW c, Inside(c)
  PROVE  /\ c \in Nat /\ c \in DOMAIN Fat /\ ~EndOfChain(c)
         /\ ClusterToAddr(c) = DataStart + (c - 2) * ClusterUnits
         /\ AddrToCluster(ClusterToAddr(c)) = c
         /\ AddrToCluster(ClusterToAddr(c) + ClusterUnits) = c + 1
<1>1. c \in Nat /\ c >= 2 /\ c < clustercount
  BY Sizes DEF Inside
<1>2. c \in DOMAIN Fat /\ ~EndOfChain(c)
  BY <1>1, Sizes, VolumeAssumption DEF EndOfChain
<1>3. ClusterToAddr(c) = DataStart + (c - 2) * ClusterUnits
  BY <1>1, Sizes DEF ClusterToAddr
<1> DEFINE x == (c - 2) * ClusterUnits
           y == (c - 1) * ClusterUnits
<1>4. x \in Nat /\ y = x + ClusterUnits /\ x \div ClusterUnits = c - 2 /\ y \div ClusterUnits = c - 1
  <2>1. c - 2 \in Nat /\ c - 1 \in Nat
    BY <1>1
  <2>2. \A u, v \in Nat : u * v \in Nat
    OBVIOUS
  <2>3. (c - 2) * ClusterUnits \in Nat
    BY <2>1, <2>2, Sizes
  <2>4. (c - 1) * ClusterUnits = (c - 2) * ClusterUnits + ClusterUnits
    BY <1>1, Sizes
  <2>5. \A m \in Int : (m * ClusterUnits) \div ClusterUnits = m
    <3> TAKE m \in Int
    <3>1. (m * ClusterUnits + 0) \div ClusterUnits = m
      BY Divided, Sizes
    <3>2. m * ClusterUnits \in Int
      BY Sizes
    <3> QED BY <3>1, <3>2
  <2> QED BY <2>1, <2>3, <2>4, <2>5
<1> HIDE DEF x, y
<1>5. ClusterToAddr(c) = DataStart + x
  BY <1>3 DEF x
<1>6. AddrToCluster(DataStart + x) = c
  <2>1. (DataStart + x) - DataStart = x /\ ~(DataStart + x < DataStart)
    BY <1>4, Sizes
  <2> QED BY <2>1, <1>1, <1>4, Sizes DEF AddrToCluster
<1>7. AddrToCluster(DataStart + x + ClusterUnits) = c + 1
  <2>1. (DataStart + x + ClusterUnits) - DataStart = y /\ ~(DataStart + x + ClusterUnits < DataStart)
    BY <1>4, Sizes
  <2> QED BY <2>1, <1>1, <1>4, Sizes DEF AddrToCluster
<1> QED BY <1>1, <1>2, <1>3, <1>5, <1>6, <1>7

\* A chain of clusters and the links of the FAT.
LEMMA ChainIs ==
  ASSUME NEW c \in DOMAIN Chain
  PROVE  /\ Chain[c] \in Seq(Nat) /\ Len(Chain[c]) \in Nat /\ Len(Chain[c]) > 0 /\ Chain[c][1] = c
         /\ \A i \in 1 .. Len(Chain[c]) : Inside(Chain[c][i])
         /\ \A i \in 1 .. Len(Chain[c]) - 1 : Fat[Chain[c][i]] = Chain[c][i + 1]
BY ChainAssumption DEF Inside

\* Unit j of the cluster m of a chain, counted from 0.
LEMMA DataAtIs ==
  ASSUME NEW c \in DOMAIN Chain, NEW m \in 0 .. Len(Chain[c]) - 1, NEW j \in 0 .. ClusterUnits - 1
  PROVE  /\ DataAt(c, m * ClusterUnits + j) = ClusterToAddr(Chain[c][m + 1]) + j
         /\ StartOf(m * ClusterUnits + j) = m * ClusterUnits
<1>1. m \in Int /\ 1 + m = m + 1 /\ ClusterUnits \in Nat /\ ClusterUnits > 0 /\ j \in Int
  BY ChainIs, Sizes
<1>2. (m * ClusterUnits + j) \div ClusterUnits = m /\ (m * ClusterUnits + j) % ClusterUnits = j
  BY <1>1, Divided
<1>3. m * ClusterUnits \in Int
  BY <1>1
<1> QED BY <1>1, <1>2, <1>3 DEF DataAt, StartOf, Reminder
-----------------------------------------------------------------------------
(* The members of a TFile. *)

Segments == {<<>>} \cup {p.segments : p \in UNION {Paths[f] : f \in File}}

FileRecord ==
  [finished : BOOLEAN, result : Results, tratype : {"NONE", "OPEN", "READ", "SEEK"},
   opened : BOOLEAN, directory : BOOLEAN, path : Segments, location : Nat, size : Nat,
   filepos : Nat, curlocation : Nat, cluster_end : Nat, remaining : Nat, targetpos : Nat,
   datalen : Nat, got : Seq(Nat), from : Nat, strayed : BOOLEAN, listed : Seq(Int)]

\* The data of the file r are those of the chain from cluster c on.
Holds(r, c) ==
  c \in DOMAIN Chain /\ r.location = ClusterToAddr(c) /\ r.size <= Len(Chain[c]) * ClusterUnits

\* The position is k units into the cluster m of the chain of c, counted from 0, and
\* so is the location.  At its end (k = ClusterUnits) both are still said to be in it.
At(r, c, m, k) ==
  /\ r.filepos = m * ClusterUnits + k /\ m * ClusterUnits < r.size
  /\ r.curlocation = ClusterToAddr(Chain[c][m + 1]) + k
  /\ r.cluster_end = ClusterToAddr(Chain[c][m + 1]) + ClusterUnits
Located(r, c) == \E m \in 0 .. Len(Chain[c]) - 1 : \E k \in 0 .. ClusterUnits : At(r, c, m, k)

\* An open file, that no Seek has led astray.
PlaceOK(r) ==
  r.opened /\ ~r.directory =>
    /\ r.filepos <= r.size
    /\ r.size > 0 => \E c \in DOMAIN Chain : Holds(r, c) /\ (r.strayed \/ Located(r, c))

\* What a Read of len units from position pos on is to deliver.
ToRead(r) == IF r.from + r.datalen > r.size THEN r.size - r.from ELSE r.datalen

\* A Read that has not ended has delivered the data from its beginning to the position.
GotData(r) ==
  /\ Len(r.got) = r.filepos - r.from
  /\ r.strayed \/ \A i \in 1 .. Len(r.got) : r.got[i] = DataAt(AddrToCluster(r.location), r.from + i - 1)
ReadOK(r) ==
  ~r.finished /\ r.tratype = "READ" /\ ~r.directory =>
    /\ r.opened /\ r.from <= r.filepos /\ r.filepos + r.remaining = r.from + ToRead(r)
    /\ GotData(r)

\* A Seek that has not ended is at the beginning of a cluster before the target.
SeekOK(r) ==
  ~r.finished /\ r.tratype = "SEEK" =>
    /\ r.opened /\ ~r.directory /\ ~r.strayed
    /\ r.filepos < r.targetpos /\ r.targetpos <= r.size
    /\ \E c \in DOMAIN Chain : Holds(r, c) /\ \E m \in 0 .. Len(Chain[c]) - 1 : At(r, c, m, 0)

Good(r) == r \in FileRecord /\ PlaceOK(r) /\ ReadOK(r) /\ SeekOK(r)

\* The record of a transaction that ended.
Over(r, result) ==
  [r EXCEPT !.finished = TRUE, !.result = result, !.path = <<>>, !.datalen = 0,
            !.from = 0, !.remaining = 0, !.targetpos = 0]

\* What a file's place depends on.
SamePlace(t, r) ==
  /\ t.opened = r.opened /\ t.directory = r.directory /\ t.size = r.size
  /\ t.location = r.location /\ t.filepos = r.filepos /\ t.curlocation = r.curlocation
  /\ t.cluster_end = r.cluster_end /\ (r.strayed => t.strayed)

\* The place is kept with the members it depends on.
LEMMA PlaceSame ==
  ASSUME NEW t, NEW r, PlaceOK(r), SamePlace(t, r)
  PROVE  PlaceOK(t)
<1>1. \A c : Holds(r, c) => Holds(t, c)
  BY DEF Holds, SamePlace
<1>2. \A c : Located(r, c) => Located(t, c)
  BY DEF Located, At, SamePlace
<1> QED BY <1>1, <1>2 DEF PlaceOK, SamePlace

\* A transaction that ends leaves the file where it is.
LEMMA OverGood ==
  ASSUME NEW r \in FileRecord, PlaceOK(r), NEW result \in Results
  PROVE  Good(Over(r, result))
<1> DEFINE t == Over(r, result)
<1>1. t \in FileRecord /\ t.finished /\ SamePlace(t, r)
  <2>1. <<>> \in Segments
    BY DEF Segments
  <2> QED BY <2>1 DEF FileRecord, Over, SamePlace
<1> HIDE DEF t
<1>2. PlaceOK(t)
  BY <1>1, PlaceSame
<1>3. Good(t)
  BY <1>1, <1>2 DEF Good, ReadOK, SeekOK
<1> QED BY <1>3 DEF t
-----------------------------------------------------------------------------
(* A Read. *)

\* A chunk is a part of what remains, and of the cluster the file is in.
LEMMA ChunkIs ==
  ASSUME NEW r \in FileRecord
  PROVE  /\ Chunk(r) \in Nat /\ Chunk(r) <= r.remaining
         /\ \A c \in DOMAIN Chain : \A m \in 0 .. Len(Chain[c]) - 1, k \in 0 .. ClusterUnits :
              At(r, c, m, k) => /\ Chunk(r) <= ClusterUnits - k
                                /\ Chunk(r) = 0 /\ r.remaining > 0 => k = ClusterUnits
<1> DEFINE size == (r.cluster_end - r.curlocation) % Wide
<1>1. r.cluster_end - r.curlocation \in Int /\ r.remaining \in Nat
  BY DEF FileRecord
<1>2. size \in Nat
  BY <1>1, Sizes
<1>3. Chunk(r) = IF size > r.remaining THEN r.remaining ELSE size
  BY DEF Chunk
<1>4. ASSUME NEW c \in DOMAIN Chain, NEW m \in 0 .. Len(Chain[c]) - 1, NEW k \in 0 .. ClusterUnits,
             At(r, c, m, k)
      PROVE  size = ClusterUnits - k
  <2>1. ClusterUnits - k \in Nat /\ ClusterUnits - k < Wide /\ k \in Nat
    BY Sizes
  <2>2. r.cluster_end - r.curlocation = ClusterUnits - k
    <3> DEFINE a == ClusterToAddr(Chain[c][m + 1])
    <3>1. r.curlocation = a + k /\ r.cluster_end = a + ClusterUnits
      BY <1>4 DEF At
    <3>2. a \in Nat
      <4>1. m + 1 \in 1 .. Len(Chain[c])
        BY ChainIs
      <4>2. Chain[c][m + 1] \in Nat
        BY <4>1, ChainIs
      <4> QED BY <4>2, PlaceTypes
    <3> HIDE DEF a
    <3> QED BY <3>1, <3>2, <2>1, Sizes
  <2>3. \A x \in Nat : x < Wide => x % Wide = x
    BY Sizes
  <2> QED BY <2>1, <2>2, <2>3
<1> HIDE DEF size
<1> QED BY <1>1, <1>2, <1>3, <1>4, Sizes

\* The record after n units of a chunk at address a were moved.
Advanced(r, n, a) ==
  [r EXCEPT !.curlocation = @ + n, !.filepos = @ + n, !.remaining = @ - n,
            !.got = @ \o [i \in 1 .. n |-> a + i - 1]]

\* A chunk that was moved: all of it or nothing.
LEMMA AdvancedGood ==
  ASSUME NEW r, Good(r), ~r.finished, r.tratype = "READ", ~r.directory,
         NEW n \in Nat, NEW a \in Nat, n = 0 \/ (n = Chunk(r) /\ a = r.curlocation)
  PROVE  Good(Advanced(r, n, a))
<1> DEFINE t == Advanced(r, n, a)
           new == [i \in 1 .. n |-> a + i - 1]
           got == r.got \o new
           location == r.curlocation + n
           pos == r.filepos + n
           left == r.remaining - n
<1>1. r \in FileRecord /\ PlaceOK(r) /\ ReadOK(r)
  BY DEF Good
<1>2. /\ r.curlocation \in Nat /\ r.filepos \in Nat /\ r.remaining \in Nat /\ r.got \in Seq(Nat)
      /\ r.from \in Nat /\ r.size \in Nat /\ r.datalen \in Nat /\ r.strayed \in BOOLEAN
  BY <1>1 DEF FileRecord
<1>3. n <= r.remaining
  BY <1>1, <1>2, ChunkIs
<1>4. new \in Seq(Nat) /\ Len(new) = n /\ \A i \in 1 .. n : new[i] = a + i - 1
  OBVIOUS
<1> HIDE DEF new
<1>5. /\ got \in Seq(Nat) /\ Len(got) = Len(r.got) + n
      /\ \A i \in 1 .. Len(r.got) : got[i] = r.got[i]
      /\ \A i \in 1 .. n : got[Len(r.got) + i] = a + i - 1
  BY <1>2, <1>4, Appended
<1> HIDE DEF got
<1>6. location \in Nat /\ pos \in Nat /\ left \in Nat
  BY <1>2, <1>3
<1>7. t = [r EXCEPT !.curlocation = location, !.filepos = pos, !.remaining = left, !.got = got]
  BY DEF Advanced, new, got
<1> HIDE DEF t, location, pos, left
<1>8. t \in FileRecord
  BY <1>1, <1>5, <1>6, <1>7 DEF FileRecord
<1>9. t.curlocation = location /\ t.filepos = pos /\ t.remaining = left /\ t.got = got
  BY <1>1, <1>7 DEF FileRecord
<1>10. /\ t.finished = r.finished /\ t.tratype = r.tratype /\ t.opened = r.opened
       /\ t.directory = r.directory /\ t.size = r.size /\ t.location = r.location
       /\ t.cluster_end = r.cluster_end /\ t.strayed = r.strayed /\ t.from = r.from
       /\ t.datalen = r.datalen
  BY <1>1, <1>7 DEF FileRecord
<1>11. /\ r.opened /\ r.from <= r.filepos /\ r.filepos + r.remaining = r.from + ToRead(r)
       /\ GotData(r) /\ r.filepos <= r.size
  BY <1>1 DEF ReadOK, PlaceOK
<1>12. ToRead(t) = ToRead(r) /\ r.from + ToRead(r) <= r.size
  BY <1>2, <1>10, <1>11 DEF ToRead
<1>13. t.filepos + t.remaining = t.from + ToRead(t) /\ t.from <= t.filepos /\ t.filepos <= t.size
  <2>1. t.filepos = r.filepos + n /\ t.remaining = r.remaining - n
    BY <1>9 DEF pos, left
  <2>2. t.filepos + t.remaining = r.from + ToRead(r)
    BY <2>1, <1>2, <1>11
  <2>3. r.filepos <= t.filepos /\ t.filepos <= r.filepos + r.remaining
    BY <2>1, <1>2, <1>3
  <2>4. ToRead(r) \in Int
    BY <1>2 DEF ToRead
  <2>5. t.from = r.from /\ t.size = r.size /\ ToRead(t) = ToRead(r)
    BY <1>10, <1>12
  <2>6. r.from <= t.filepos /\ t.filepos <= r.size
    <3>1. r.from <= r.filepos /\ r.filepos + r.remaining = r.from + ToRead(r) /\ r.from + ToRead(r) <= r.size
      BY <1>11, <1>12
    <3>2. t.filepos = r.filepos + n /\ t.filepos <= r.filepos + r.remaining /\ r.filepos <= t.filepos
      BY <2>1, <2>3
    <3>3. r.from \in Nat /\ r.filepos \in Nat /\ r.remaining \in Nat /\ r.size \in Nat /\ n \in Nat
      BY <1>2
    <3> QED BY ONLY <2>4, <3>1, <3>2, <3>3
  <2> QED BY <2>2, <2>5, <2>6
\* Where it is in an open file.
<1>14. ASSUME r.size > 0, ~r.strayed
       PROVE  \E c \in DOMAIN Chain :
                /\ Holds(t, c) /\ Located(t, c) /\ AddrToCluster(r.location) = c
                /\ \A i \in 1 .. n : a + i - 1 = DataAt(c, r.filepos + i - 1)
  <2>1. PICK c \in DOMAIN Chain : Holds(r, c) /\ Located(r, c)
    BY <1>1, <1>11, <1>14 DEF PlaceOK
  <2>2. PICK m \in 0 .. Len(Chain[c]) - 1 : \E k \in 0 .. ClusterUnits : At(r, c, m, k)
    BY <2>1 DEF Located
  <2>3. PICK k \in 0 .. ClusterUnits : At(r, c, m, k)
    BY <2>2
  <2> DEFINE first == ClusterToAddr(Chain[c][m + 1])
             before == m * ClusterUnits
  <2>4. m \in Nat /\ m + 1 \in 1 .. Len(Chain[c]) /\ k \in Nat
    BY ChainIs, Sizes
  <2>5. first \in Nat /\ before \in Nat
    <3>1. Chain[c][m + 1] \in Nat
      BY <2>4, ChainIs
    <3>2. \A x, y \in Nat : x * y \in Nat
      OBVIOUS
    <3>3. m * ClusterUnits \in Nat
      BY <3>2, <2>4, Sizes
    <3> QED BY <3>1, <3>3, PlaceTypes
  <2>6. /\ r.filepos = before + k /\ before < r.size /\ r.curlocation = first + k
        /\ r.cluster_end = first + ClusterUnits
    BY <2>3 DEF At
  <2>7. \A j \in 0 .. ClusterUnits - 1 : DataAt(c, before + j) = first + j
    BY DataAtIs
  <2> HIDE DEF first, before
  <2>8. n <= ClusterUnits - k
    BY <1>1, <2>3, <2>4, ChunkIs, Sizes
  <2>9. At(t, c, m, k + n) /\ k + n \in 0 .. ClusterUnits
    <3>1. k + n \in 0 .. ClusterUnits
      BY <2>4, <2>8, Sizes
    <3>2. t.filepos = before + (k + n) /\ t.curlocation = first + (k + n)
      BY <1>9, <2>4, <2>5, <2>6 DEF pos, location
    <3> QED BY <3>1, <3>2, <2>6, <1>10 DEF At, first, before
  <2>10. Located(t, c) /\ Holds(t, c)
    BY <2>1, <2>9, <1>10 DEF Located, Holds
  <2>11. AddrToCluster(r.location) = c
    <3>1. Inside(c)
      <4>1. 1 \in 1 .. Len(Chain[c]) /\ Chain[c][1] = c
        BY ChainIs
      <4> QED BY <4>1, ChainIs
    <3> QED BY <3>1, <2>1, ClusterOf DEF Holds
  <2>12. \A i \in 1 .. n : a + i - 1 = DataAt(c, r.filepos + i - 1)
    <3> TAKE i \in 1 .. n
    <3>1. k + i - 1 \in 0 .. ClusterUnits - 1 /\ r.filepos + i - 1 = before + (k + i - 1)
          /\ a + i - 1 = first + (k + i - 1)
      BY <2>4, <2>5, <2>6, <2>8, Sizes
    <3> QED BY <3>1, <2>7
  <2> QED BY <2>10, <2>11, <2>12
<1>15. PlaceOK(t)
  <2>1. CASE r.size > 0 /\ ~r.strayed
    BY <2>1, <1>10, <1>13, <1>14 DEF PlaceOK
  <2>2. CASE r.size > 0 /\ r.strayed
    <3>1. PICK c \in DOMAIN Chain : Holds(r, c)
      BY <1>1, <1>11, <2>2 DEF PlaceOK
    <3>2. Holds(t, c)
      BY <3>1, <1>10 DEF Holds
    <3> QED BY <3>2, <2>2, <1>10, <1>13 DEF PlaceOK
  <2>3. CASE ~(r.size > 0)
    BY <2>3, <1>10, <1>13 DEF PlaceOK
  <2> QED BY <2>1, <2>2, <2>3, <1>2
<1>16. GotData(t)
  <2>1. Len(t.got) = t.filepos - t.from
    <3>1. t.got = got /\ t.filepos = r.filepos + n /\ t.from = r.from
      BY <1>9, <1>10 DEF pos
    <3>2. Len(r.got) = r.filepos - r.from
      BY <1>11 DEF GotData
    <3>3. Len(got) = Len(r.got) + n
      BY <1>5
    <3>4. r.filepos \in Nat /\ r.from \in Nat
      BY <1>2
    <3> DEFINE p == r.filepos
               b == r.from
    <3>5. Len(got) = (p + n) - b
      BY <3>2, <3>3, <3>4
    <3> QED BY <3>1, <3>5
  <2>2. ASSUME ~t.strayed, NEW i \in 1 .. Len(t.got)
        PROVE  t.got[i] = DataAt(AddrToCluster(t.location), t.from + i - 1)
    <3>1. ~r.strayed
      BY <2>2, <1>10
    <3>2. CASE i <= Len(r.got)
      <4>1. i \in Nat /\ i > 0
        BY <2>2, <1>5, <1>9
      <4>2. Len(r.got) \in Nat
        BY <1>2
      <4>3. i \in 1 .. Len(r.got)
        BY <4>1, <4>2, <3>2
      <4>4. r.got[i] = DataAt(AddrToCluster(r.location), r.from + i - 1)
        BY <4>3, <3>1, <1>11 DEF GotData
      <4>5. got[i] = r.got[i]
        BY <4>3, <1>5
      <4> QED BY <4>4, <4>5, <1>9, <1>10
    <3>3. CASE i > Len(r.got)
      <4> DEFINE j == i - Len(r.got)
      <4>1. j \in 1 .. n /\ i = Len(r.got) + j /\ r.filepos + j - 1 = r.from + i - 1
        <5>1. Len(r.got) = r.filepos - r.from /\ Len(r.got) \in Nat
          BY <1>2, <1>11 DEF GotData
        <5>2. i \in Nat /\ i <= Len(r.got) + n
          BY <2>2, <1>5, <1>9
        <5>3. r.filepos \in Nat /\ r.from \in Nat /\ i > Len(r.got)
          BY <1>2, <3>3
        <5> DEFINE l == Len(r.got)
                   p == r.filepos
                   b == r.from
        <5>4. /\ l \in Nat /\ i \in Nat /\ p \in Nat /\ b \in Nat
              /\ l = p - b /\ i <= l + n /\ i > l
          BY <5>1, <5>2, <5>3
        <5> HIDE DEF l, p, b
        <5>5. i - l \in 1 .. n /\ i = l + (i - l) /\ p + (i - l) - 1 = b + i - 1
          BY ONLY <5>4, n \in Nat
        <5> QED BY <5>5 DEF l, p, b
      <4> HIDE DEF j
      <4>2. r.size > 0
        BY <4>1, <1>2, <1>3, <1>11, <1>12
      <4>3. a + j - 1 = DataAt(AddrToCluster(r.location), r.filepos + j - 1)
        BY <4>1, <4>2, <3>1, <1>14
      <4>4. got[i] = a + j - 1
        BY <4>1, <1>5
      <4> QED BY <4>1, <4>3, <4>4, <1>9, <1>10
    <3> QED BY <3>2, <3>3, <2>2, <1>2, <1>5, <1>9
  <2> QED BY <2>1, <2>2, <1>8 DEF GotData, FileRecord
<1>17. Good(t)
  BY <1>8, <1>10, <1>11, <1>13, <1>15, <1>16 DEF Good, ReadOK, SeekOK
<1> QED BY <1>17 DEF t

-----------------------------------------------------------------------------
(* From one cluster to the next. *)

\* The next cluster of the chain, when the file goes on in it.
LEMMA NextInChain ==
  ASSUME NEW r \in FileRecord, NEW c \in DOMAIN Chain, Holds(r, c),
         NEW m \in 0 .. Len(Chain[c]) - 1, (m + 1) * ClusterUnits < r.size
  PROVE  /\ m + 1 \in 0 .. Len(Chain[c]) - 1
         /\ Inside(Chain[c][m + 1]) /\ Fat[Chain[c][m + 1]] = Chain[c][(m + 1) + 1]
<1>1. m \in Nat /\ Len(Chain[c]) \in Nat
  BY ChainIs
<1>2. r.size \in Nat /\ r.size <= Len(Chain[c]) * ClusterUnits
  BY DEF FileRecord, Holds
<1>3. \A x \in Int : x * ClusterUnits \in Int
  BY Sizes
<1>4. (m + 1) * ClusterUnits < Len(Chain[c]) * ClusterUnits
  <2> DEFINE x == (m + 1) * ClusterUnits
             y == Len(Chain[c]) * ClusterUnits
  <2>1. x \in Int /\ y \in Int
    BY <1>1, <1>3
  <2>2. x < r.size /\ r.size <= y
    BY <1>2
  <2> HIDE DEF x, y
  <2>3. x < y
    BY ONLY <2>1, <2>2, <1>2
  <2> QED BY <2>3 DEF x, y
<1>5. m + 1 < Len(Chain[c])
  BY <1>1, <1>4, Multiples, Sizes
<1>6. m + 1 \in 1 .. Len(Chain[c]) - 1 /\ m + 1 \in 1 .. Len(Chain[c]) /\ m + 1 \in 0 .. Len(Chain[c]) - 1
  BY <1>1, <1>5
<1> QED BY <1>6, ChainIs

\* The place at the beginning of the cluster that follows.
LEMMA AtNext ==
  ASSUME NEW r \in FileRecord, NEW t \in FileRecord, NEW c \in DOMAIN Chain, Holds(r, c),
         NEW m \in 0 .. Len(Chain[c]) - 1, (m + 1) * ClusterUnits < r.size,
         NEW next, next = Fat[Chain[c][m + 1]],
         t.filepos = (m + 1) * ClusterUnits, t.size = r.size, t.location = r.location,
         t.curlocation = ClusterToAddr(next), t.cluster_end = ClusterToAddr(next) + ClusterUnits
  PROVE  m + 1 \in 0 .. Len(Chain[c]) - 1 /\ Holds(t, c) /\ At(t, c, m + 1, 0)
<1>1. /\ m + 1 \in 0 .. Len(Chain[c]) - 1
      /\ Inside(Chain[c][m + 1]) /\ Fat[Chain[c][m + 1]] = Chain[c][(m + 1) + 1]
  BY NextInChain
<1>2. Holds(t, c)
  BY DEF Holds
<1>3. ClusterToAddr(next) + 0 = ClusterToAddr(next) /\ (m + 1) * ClusterUnits + 0 = (m + 1) * ClusterUnits
  <2>1. t.curlocation \in Nat /\ t.filepos \in Nat
    BY DEF FileRecord
  <2> QED BY <2>1
<1>4. At(t, c, m + 1, 0)
  BY <1>1, <1>3 DEF At
<1> QED BY <1>1, <1>2, <1>4

\* A Read goes on in the cluster the FAT says.
Enters(r, next) ==
  [r EXCEPT !.curlocation = ClusterToAddr(next), !.cluster_end = ClusterToAddr(next) + ClusterUnits]

\* The cluster that a Read enters is the next one of its file.
LEMMA EntersGood ==
  ASSUME NEW r, Good(r), ~r.finished, r.tratype = "READ", ~r.directory,
         Chunk(r) = 0, r.remaining # 0, NEW next \in Nat,
         AddrToCluster(r.curlocation) - 1 \in DOMAIN Fat => next = Fat[AddrToCluster(r.curlocation) - 1]
  PROVE  Good(Enters(r, next))
<1> DEFINE t == Enters(r, next)
           start == ClusterToAddr(next)
           end == start + ClusterUnits
<1>1. r \in FileRecord /\ PlaceOK(r) /\ ReadOK(r)
  BY DEF Good
<1>2. start \in Nat /\ end \in Nat
  BY PlaceTypes, Sizes
<1>3. t = [r EXCEPT !.curlocation = start, !.cluster_end = end]
  BY DEF Enters
<1> HIDE DEF t, start, end
<1>4. t \in FileRecord /\ t.curlocation = start /\ t.cluster_end = end
  BY <1>1, <1>2, <1>3 DEF FileRecord
<1>5. /\ t.finished = r.finished /\ t.tratype = r.tratype /\ t.opened = r.opened
      /\ t.directory = r.directory /\ t.size = r.size /\ t.location = r.location
      /\ t.filepos = r.filepos /\ t.strayed = r.strayed /\ t.from = r.from
      /\ t.datalen = r.datalen /\ t.got = r.got /\ t.remaining = r.remaining
  BY <1>1, <1>3 DEF FileRecord
<1>6. ReadOK(t)
  BY <1>1, <1>5 DEF ReadOK, GotData, ToRead
<1>7. /\ r.filepos \in Nat /\ r.size \in Nat /\ r.remaining \in Nat /\ r.remaining > 0 /\ r.from \in Nat
      /\ r.datalen \in Nat /\ r.curlocation \in Nat
  BY <1>1 DEF FileRecord
<1>8. r.opened /\ r.filepos <= r.size /\ r.filepos < r.size
  <2>1. r.opened /\ r.filepos <= r.size /\ r.from <= r.filepos /\ r.filepos + r.remaining = r.from + ToRead(r)
    BY <1>1 DEF PlaceOK, ReadOK
  <2>2. r.from + ToRead(r) <= r.size
    BY <2>1, <1>7 DEF ToRead
  <2>3. ToRead(r) \in Int
    BY <1>7 DEF ToRead
  <2> QED BY <2>1, <2>2, <2>3, <1>7
<1>9. PICK c \in DOMAIN Chain : Holds(r, c) /\ (r.strayed \/ Located(r, c))
  BY <1>1, <1>7, <1>8 DEF PlaceOK
<1>10. Holds(t, c)
  BY <1>5, <1>9 DEF Holds
<1>11. ASSUME ~r.strayed PROVE Located(t, c)
  <2>1. PICK m \in 0 .. Len(Chain[c]) - 1 : \E k \in 0 .. ClusterUnits : At(r, c, m, k)
    BY <1>9, <1>11 DEF Located
  <2>2. PICK k \in 0 .. ClusterUnits : At(r, c, m, k)
    BY <2>1
  <2>3. k = ClusterUnits
    BY <1>1, <1>7, <2>2, ChunkIs
  <2>4. m \in Nat /\ m + 1 \in 1 .. Len(Chain[c])
    BY ChainIs
  <2>5. r.filepos = (m + 1) * ClusterUnits
    <3>1. r.filepos = m * ClusterUnits + ClusterUnits
      BY <2>2, <2>3 DEF At
    <3> QED BY <3>1, <2>4, Sizes
  <2> DEFINE x == Chain[c][m + 1]
  <2>6. Inside(x)
    BY <2>4, ChainIs
  <2>7. r.curlocation = ClusterToAddr(x) + ClusterUnits
    BY <2>2, <2>3 DEF At
  <2> HIDE DEF x
  <2>8. next = Fat[x]
    <3>1. AddrToCluster(r.curlocation) = x + 1 /\ x \in Nat /\ x \in DOMAIN Fat
      BY <2>6, <2>7, ClusterOf
    <3>2. AddrToCluster(r.curlocation) - 1 = x
      BY <3>1
    <3> QED BY <3>1, <3>2
  <2>9. m + 1 \in 0 .. Len(Chain[c]) - 1 /\ At(t, c, m + 1, 0)
    BY <2>5, <2>8, <1>1, <1>4, <1>5, <1>8, <1>9, AtNext DEF x, start, end
  <2> QED BY <2>9, Sizes DEF Located
<1>12. PlaceOK(t)
  BY <1>5, <1>8, <1>9, <1>10, <1>11 DEF PlaceOK
<1>13. Good(t)
  BY <1>4, <1>5, <1>6, <1>12 DEF Good, SeekOK
<1> QED BY <1>13 DEF t

-----------------------------------------------------------------------------
(* A Seek. *)

\* A place in a cluster: aligned, or some units behind its beginning.
LEMMA Aligned ==
  ASSUME NEW m \in Int, NEW k \in 0 .. ClusterUnits - 1
  PROVE  /\ m * ClusterUnits \in Int /\ Reminder(m * ClusterUnits + k) = k
         /\ StartOf(m * ClusterUnits + k) = m * ClusterUnits
<1>1. (m * ClusterUnits + k) % ClusterUnits = k /\ m * ClusterUnits \in Int
  BY Divided, Sizes
<1> QED BY <1>1, Sizes DEF Reminder, StartOf

\* Every position has such a place.
LEMMA Splits ==
  ASSUME NEW x \in Nat
  PROVE  /\ Reminder(x) \in 0 .. ClusterUnits - 1 /\ StartOf(x) \in Nat
         /\ x = StartOf(x) + Reminder(x)
         /\ \E m \in Nat : StartOf(x) = m * ClusterUnits
<1>1. /\ x \div ClusterUnits \in Nat /\ x % ClusterUnits \in 0 .. ClusterUnits - 1
      /\ x = (x \div ClusterUnits) * ClusterUnits + (x % ClusterUnits)
  BY Division, Sizes
<1> DEFINE m == x \div ClusterUnits
           k == x % ClusterUnits
<1>2. m * ClusterUnits \in Nat
  <2>1. \A u, v \in Nat : u * v \in Nat
    OBVIOUS
  <2> QED BY <2>1, <1>1, Sizes
<1>3. StartOf(x) = x - k /\ Reminder(x) = k
  BY DEF StartOf, Reminder
<1> HIDE DEF m, k
<1>4. m \in Nat /\ k \in 0 .. ClusterUnits - 1 /\ x = m * ClusterUnits + k
  BY <1>1 DEF m, k
<1>5. x - k = m * ClusterUnits
  <2> DEFINE y == m * ClusterUnits
  <2>1. y \in Nat /\ x = y + k
    BY <1>2, <1>4
  <2>2. k \in Int
    BY <1>4, Sizes
  <2> HIDE DEF y
  <2>3. x - k = y
    BY <2>1, <2>2
  <2> QED BY <2>3 DEF y
<1> QED BY <1>2, <1>3, <1>4, <1>5

\* The walk of a Seek, one cluster on.
Steps(r, next) ==
  [r EXCEPT !.filepos = @ + ClusterUnits, !.curlocation = ClusterToAddr(next),
            !.cluster_end = ClusterToAddr(next) + ClusterUnits]

\* The walk arrives at the beginning of the next cluster of the file.
LEMMA StepsGood ==
  ASSUME NEW r, Good(r), ~r.finished, r.tratype = "SEEK", r.filepos + ClusterUnits < r.targetpos,
         NEW next \in Nat,
         AddrToCluster(r.curlocation) \in DOMAIN Fat => next = Fat[AddrToCluster(r.curlocation)]
  PROVE  Good(Steps(r, next))
<1> DEFINE t == Steps(r, next)
           start == ClusterToAddr(next)
           end == start + ClusterUnits
           pos == r.filepos + ClusterUnits
<1>1. r \in FileRecord /\ PlaceOK(r) /\ SeekOK(r)
  BY DEF Good
<1>2. /\ start \in Nat /\ end \in Nat /\ pos \in Nat /\ r.filepos \in Nat /\ r.targetpos \in Nat
      /\ r.size \in Nat
  <2>1. start \in Nat /\ end \in Nat
    BY PlaceTypes, Sizes
  <2>2. r.filepos \in Nat /\ r.targetpos \in Nat /\ r.size \in Nat
    BY <1>1 DEF FileRecord
  <2> QED BY <2>1, <2>2, Sizes
<1>3. t = [r EXCEPT !.filepos = pos, !.curlocation = start, !.cluster_end = end]
  BY DEF Steps
<1> HIDE DEF t, start, end, pos
<1>4. t \in FileRecord /\ t.curlocation = start /\ t.cluster_end = end /\ t.filepos = pos
  BY <1>1, <1>2, <1>3 DEF FileRecord
<1>5. /\ t.finished = r.finished /\ t.tratype = r.tratype /\ t.opened = r.opened
      /\ t.directory = r.directory /\ t.size = r.size /\ t.location = r.location
      /\ t.strayed = r.strayed /\ t.targetpos = r.targetpos
  BY <1>1, <1>3 DEF FileRecord
<1>6. /\ r.opened /\ ~r.directory /\ ~r.strayed /\ r.targetpos <= r.size
      /\ \E c \in DOMAIN Chain : Holds(r, c) /\ \E m \in 0 .. Len(Chain[c]) - 1 : At(r, c, m, 0)
  BY <1>1 DEF SeekOK
<1>7. PICK c \in DOMAIN Chain : Holds(r, c) /\ \E m \in 0 .. Len(Chain[c]) - 1 : At(r, c, m, 0)
  BY <1>6
<1>8. PICK m \in 0 .. Len(Chain[c]) - 1 : At(r, c, m, 0)
  BY <1>7
<1>9. m \in Nat /\ m + 1 \in 1 .. Len(Chain[c])
  BY ChainIs
<1> DEFINE x == Chain[c][m + 1]
<1>10. Inside(x)
  BY <1>9, ChainIs
<1>11. r.curlocation = ClusterToAddr(x) /\ pos = (m + 1) * ClusterUnits
  <2>1. r.curlocation = ClusterToAddr(x) + 0 /\ r.filepos = m * ClusterUnits + 0
    BY <1>8 DEF At
  <2>2. ClusterToAddr(x) \in Nat
    BY <1>10, ClusterOf, PlaceTypes
  <2>3. r.filepos + ClusterUnits = (m + 1) * ClusterUnits
    BY <2>1, <1>9, Sizes
  <2> HIDE DEF x
  <2> QED BY <2>1, <2>2, <2>3 DEF pos
<1> HIDE DEF x
<1>12. next = Fat[x]
  BY <1>10, <1>11, ClusterOf
<1>13. pos < r.targetpos /\ pos < r.size
  BY <1>2, <1>6 DEF pos
<1>14. m + 1 \in 0 .. Len(Chain[c]) - 1 /\ Holds(t, c) /\ At(t, c, m + 1, 0)
  BY <1>1, <1>4, <1>5, <1>7, <1>11, <1>12, <1>13, AtNext DEF x, start, end
<1>15. PlaceOK(t)
  <2>1. 0 \in 0 .. ClusterUnits
    BY Sizes
  <2>2. Located(t, c)
    BY <2>1, <1>14 DEF Located
  <2>3. t.filepos <= t.size
    BY <1>2, <1>4, <1>5, <1>13
  <2> QED BY <2>2, <2>3, <1>14 DEF PlaceOK
<1>16. SeekOK(t)
  BY <1>4, <1>5, <1>6, <1>13, <1>14 DEF SeekOK
<1>17. Good(t)
  BY <1>4, <1>5, <1>15, <1>16 DEF Good, ReadOK
<1> QED BY <1>17 DEF t

\* The end of the walk: the target is in the cluster reached, or it is the first of the
\* next one, and then the file has strayed.
Arrives(r) ==
  [r EXCEPT !.curlocation = @ + Reminder(r.targetpos), !.filepos = r.targetpos,
            !.strayed = Reminder(r.targetpos) = 0]

\* Where a Seek ends is the place of its target, unless that begins a cluster.
LEMMA ArrivesGood ==
  ASSUME NEW r, Good(r), ~r.finished, r.tratype = "SEEK", r.filepos + ClusterUnits >= r.targetpos
  PROVE  Arrives(r) \in FileRecord /\ PlaceOK(Arrives(r))
<1> DEFINE t == Arrives(r)
           j == Reminder(r.targetpos)
           location == r.curlocation + j
           strayed == j = 0
<1>1. r \in FileRecord /\ PlaceOK(r) /\ SeekOK(r)
  BY DEF Good
<1>2. r.curlocation \in Nat /\ r.filepos \in Nat /\ r.targetpos \in Nat /\ r.size \in Nat
  BY <1>1 DEF FileRecord
<1>3. j \in 0 .. ClusterUnits - 1 /\ j \in Nat
  <2>1. Reminder(r.targetpos) \in 0 .. ClusterUnits - 1
    BY <1>2, Splits, Zenon
  <2> QED BY <2>1, Sizes
<1>4. location \in Nat /\ strayed \in BOOLEAN
  BY <1>2, <1>3
<1>5. t = [r EXCEPT !.curlocation = location, !.filepos = r.targetpos, !.strayed = strayed]
  BY DEF Arrives
<1>6. j > 0 <=> ~strayed
  BY <1>3
<1> HIDE DEF t, location, strayed
<1>7. t \in FileRecord
  BY <1>1, <1>2, <1>4, <1>5 DEF FileRecord
<1>8. t.curlocation = location /\ t.filepos = r.targetpos /\ t.strayed = strayed
  BY <1>1, <1>5 DEF FileRecord
<1>9. /\ t.opened = r.opened /\ t.directory = r.directory /\ t.size = r.size
      /\ t.location = r.location /\ t.cluster_end = r.cluster_end
  BY <1>1, <1>5 DEF FileRecord
<1>10. /\ r.filepos < r.targetpos /\ r.targetpos <= r.size
       /\ \E c \in DOMAIN Chain : Holds(r, c) /\ \E m \in 0 .. Len(Chain[c]) - 1 : At(r, c, m, 0)
  BY <1>1 DEF SeekOK
<1>11. PICK c \in DOMAIN Chain : Holds(r, c) /\ \E m \in 0 .. Len(Chain[c]) - 1 : At(r, c, m, 0)
  BY <1>10
<1>12. PICK m \in 0 .. Len(Chain[c]) - 1 : At(r, c, m, 0)
  BY <1>11
<1>13. Holds(t, c)
  BY <1>9, <1>11 DEF Holds
<1>14. ASSUME ~strayed PROVE Located(t, c)
  <2> DEFINE first == ClusterToAddr(Chain[c][m + 1])
             before == m * ClusterUnits
  <2>1. m \in Nat /\ before \in Int /\ m + 1 \in 1 .. Len(Chain[c])
    BY ChainIs, Sizes
  <2>2. first \in Nat
    BY <2>1, ChainIs, ClusterOf, PlaceTypes
  <2>3. /\ r.filepos = before + 0 /\ before < r.size /\ r.curlocation = first + 0
        /\ r.cluster_end = first + ClusterUnits
    BY <1>12 DEF At
  <2> DEFINE d == r.targetpos - before
  <2>4. d \in 1 .. ClusterUnits /\ r.targetpos = before + d
    <3> HIDE DEF before, first
    <3>1. ClusterUnits \in Nat
      BY Sizes
    <3>2. r.filepos = before
      BY <2>1, <2>3
    <3>3. /\ r.filepos \in Nat /\ r.targetpos \in Nat /\ r.filepos < r.targetpos
          /\ r.filepos + ClusterUnits >= r.targetpos
      BY <1>2, <1>10
    <3> QED BY ONLY <3>1, <3>2, <3>3
  <2>5. d = j
    <3>1. d # ClusterUnits
      <4> SUFFICES ASSUME d = ClusterUnits PROVE FALSE
        OBVIOUS
      <4>1. r.targetpos = (m + 1) * ClusterUnits + 0
        BY <2>1, <2>4, Sizes
      <4>2. m + 1 \in Int /\ 0 \in 0 .. ClusterUnits - 1
        BY <2>1, Sizes
      <4>3. j = 0
        BY <4>1, <4>2, Aligned
      <4> QED BY <4>3, <1>3, <1>6, <1>14
    <3>2. d \in 0 .. ClusterUnits - 1
      BY <3>1, <2>4, Sizes
    <3>3. m \in Int /\ r.targetpos = m * ClusterUnits + d
      BY <2>1, <2>4
    <3> HIDE DEF d
    <3> QED BY <3>2, <3>3, Aligned
  <2> HIDE DEF d, first, before
  <2>6. t.filepos = before + j /\ t.curlocation = first + j /\ t.cluster_end = first + ClusterUnits
        /\ before < t.size
    <3>1. r.curlocation = first /\ location = r.curlocation + j
      BY <2>2, <2>3 DEF location
    <3>2. r.targetpos = before + j
      BY <2>4, <2>5
    <3> HIDE DEF j
    <3> QED BY <3>1, <3>2, <2>3, <1>8, <1>9
  <2>7. At(t, c, m, j) /\ j \in 0 .. ClusterUnits
    BY <2>6, <1>3, Sizes DEF At, first, before
  <2> QED BY <2>7 DEF Located
<1>15. PlaceOK(t)
  BY <1>4, <1>8, <1>9, <1>10, <1>13, <1>14 DEF PlaceOK
<1> QED BY <1>7, <1>15 DEF t

\* A target in the cluster of the position.
InCluster(r, pos) ==
  [r EXCEPT !.targetpos = pos, !.filepos = pos, !.curlocation = StartOf(@) + Reminder(pos),
            !.strayed = @ \/ Reminder(DataStart) # 0
                          \/ (r.curlocation = r.cluster_end /\ pos # r.filepos)]

\* The clusters begin at multiples of their size when the data area does.
LEMMA ClustersAligned ==
  ASSUME Reminder(DataStart) = 0, NEW c, Inside(c), NEW k \in 0 .. ClusterUnits - 1
  PROVE  StartOf(ClusterToAddr(c) + k) = ClusterToAddr(c)
<1>1. PICK d \in Nat : DataStart = d * ClusterUnits
  <2>1. DataStart \in Nat
    BY Sizes
  <2>2. DataStart = StartOf(DataStart) + Reminder(DataStart) /\ StartOf(DataStart) \in Nat
    BY <2>1, Splits, Zenon
  <2>3. \E m \in Nat : StartOf(DataStart) = m * ClusterUnits
    BY <2>1, Splits, Zenon
  <2>4. DataStart = StartOf(DataStart)
    BY <2>2
  <2> QED BY <2>3, <2>4
<1>2. c \in Nat /\ ClusterToAddr(c) = DataStart + (c - 2) * ClusterUnits
  BY ClusterOf
<1>3. ClusterToAddr(c) = (d + (c - 2)) * ClusterUnits
  BY <1>1, <1>2, Sizes
<1>4. d + (c - 2) \in Int
  BY <1>2
<1>5. StartOf((d + (c - 2)) * ClusterUnits + k) = (d + (c - 2)) * ClusterUnits
  BY <1>4, Aligned, Zenon
<1> QED BY <1>3, <1>5, Zenon

\* The place in the same cluster is that of the target, unless the file has strayed.
LEMMA InClusterGood ==
  ASSUME NEW r \in FileRecord, PlaceOK(r), r.opened, ~r.directory, NEW pos \in Nat, pos <= r.size,
         StartOf(pos) = StartOf(r.filepos)
  PROVE  InCluster(r, pos) \in FileRecord /\ PlaceOK(InCluster(r, pos))
<1> DEFINE t == InCluster(r, pos)
           j == Reminder(pos)
           location == StartOf(r.curlocation) + j
           strayed == r.strayed \/ Reminder(DataStart) # 0
                        \/ (r.curlocation = r.cluster_end /\ pos # r.filepos)
<1>1. /\ r.curlocation \in Nat /\ r.filepos \in Nat /\ r.size \in Nat /\ r.cluster_end \in Nat
      /\ r.strayed \in BOOLEAN
  BY DEF FileRecord
<1>2. j \in 0 .. ClusterUnits - 1 /\ j \in Nat /\ pos = StartOf(pos) + j /\ StartOf(pos) \in Nat
  <2>1. Reminder(pos) \in 0 .. ClusterUnits - 1 /\ pos = StartOf(pos) + Reminder(pos) /\ StartOf(pos) \in Nat
    BY Splits, Zenon
  <2> QED BY <2>1, Sizes
<1>3. StartOf(r.curlocation) \in Nat
  BY <1>1, Splits, Zenon
<1>4. location \in Nat /\ strayed \in BOOLEAN
  BY <1>1, <1>2, <1>3
<1>5. t = [r EXCEPT !.targetpos = pos, !.filepos = pos, !.curlocation = location, !.strayed = strayed]
  BY DEF InCluster
<1> HIDE DEF t, location, strayed, j
<1>6. t \in FileRecord
  BY <1>4, <1>5 DEF FileRecord
<1>7. t.curlocation = location /\ t.filepos = pos /\ t.strayed = strayed
  BY <1>5 DEF FileRecord
<1>8. /\ t.opened = r.opened /\ t.directory = r.directory /\ t.size = r.size
      /\ t.location = r.location /\ t.cluster_end = r.cluster_end
  BY <1>5 DEF FileRecord
<1>9. ASSUME NEW c \in DOMAIN Chain, Holds(r, c), r.strayed \/ Located(r, c)
      PROVE  Holds(t, c) /\ (t.strayed \/ Located(t, c))
  <2>1. Holds(t, c)
    BY <1>8, <1>9 DEF Holds
  <2>2. ASSUME ~strayed PROVE Located(t, c)
    <3>1. ~r.strayed /\ Reminder(DataStart) = 0 /\ (r.curlocation = r.cluster_end => pos = r.filepos)
      BY <2>2 DEF strayed
    <3>2. PICK m \in 0 .. Len(Chain[c]) - 1 : \E k \in 0 .. ClusterUnits : At(r, c, m, k)
      BY <1>9, <3>1 DEF Located
    <3>3. PICK k \in 0 .. ClusterUnits : At(r, c, m, k)
      BY <3>2
    <3> DEFINE x == Chain[c][m + 1]
               first == ClusterToAddr(x)
               before == m * ClusterUnits
    <3>4. m \in Nat /\ k \in Nat /\ m + 1 \in 1 .. Len(Chain[c])
      BY ChainIs, Sizes
    <3>5. Inside(x) /\ first \in Nat /\ before \in Int
      <4>1. Inside(x)
        BY <3>4, ChainIs
      <4>2. x \in Nat
        BY <4>1, ClusterOf
      <4>3. before \in Int
        BY <3>4, Sizes
      <4> QED BY <4>1, <4>2, <4>3, PlaceTypes
    <3>6. /\ r.filepos = before + k /\ before < r.size /\ r.curlocation = first + k
          /\ r.cluster_end = first + ClusterUnits
      BY <3>3 DEF At
    <3>7. CASE k < ClusterUnits
      <4>1. k \in 0 .. ClusterUnits - 1
        BY <3>4, <3>7, Sizes
      <4>2. StartOf(first + k) = first
        BY <3>1, <3>5, <4>1, ClustersAligned, Zenon
      <4>3. StartOf(m * ClusterUnits + k) = m * ClusterUnits
        BY <3>4, <4>1, Aligned
      <4> HIDE DEF first, x
      <4>4. location = first + j
        BY <3>6, <4>2 DEF location
      <4>5. pos = before + j
        BY <3>6, <4>3, <1>2
      <4> HIDE DEF before
      <4>6. At(t, c, m, j)
        BY <3>6, <4>4, <4>5, <1>7, <1>8 DEF At, first, x, before
      <4>7. j \in 0 .. ClusterUnits
        BY <1>2, Sizes
      <4> QED BY <4>6, <4>7 DEF Located
    <3>8. CASE k = ClusterUnits
      <4>1. pos = r.filepos
        BY <3>1, <3>6, <3>8
      <4>2. r.filepos = (m + 1) * ClusterUnits + 0 /\ r.curlocation = first + ClusterUnits
        BY <3>4, <3>6, <3>8, Sizes
      <4>3. j = 0
        <5>1. m + 1 \in Int /\ 0 \in 0 .. ClusterUnits - 1
          BY <3>4, Sizes
        <5> QED BY <5>1, <4>1, <4>2, Aligned DEF j
      <4>4. StartOf(first + ClusterUnits) = first + ClusterUnits
        <5>1. PICK d \in Nat : DataStart = d * ClusterUnits
          <6>1. DataStart \in Nat
            BY Sizes
          <6>2. DataStart = StartOf(DataStart) + Reminder(DataStart) /\ StartOf(DataStart) \in Nat
            BY <6>1, Splits, Zenon
          <6>3. \E y \in Nat : StartOf(DataStart) = y * ClusterUnits
            BY <6>1, Splits, Zenon
          <6>4. DataStart = StartOf(DataStart)
            BY <6>2, <3>1
          <6> QED BY <6>3, <6>4
        <5>2. x \in Nat /\ first = DataStart + (x - 2) * ClusterUnits
          BY <3>5, ClusterOf
        <5> HIDE DEF x, first
        <5>3. first + ClusterUnits = (d + (x - 1)) * ClusterUnits + 0
          BY <5>1, <5>2, Sizes
        <5>4. d + (x - 1) \in Int /\ 0 \in 0 .. ClusterUnits - 1
          BY <5>2, Sizes
        <5>5. StartOf((d + (x - 1)) * ClusterUnits + 0) = (d + (x - 1)) * ClusterUnits
          BY <5>4, Aligned, Zenon
        <5>6. (d + (x - 1)) * ClusterUnits + 0 = (d + (x - 1)) * ClusterUnits
          BY <5>2, <5>3, <5>4, Sizes
        <5> QED BY <5>3, <5>5, <5>6
      <4>5. location = r.curlocation
        BY <4>2, <4>3, <4>4, <1>1 DEF location
      <4> HIDE DEF first, x, before
      <4>6. At(t, c, m, k)
        BY <3>6, <4>1, <4>5, <1>7, <1>8 DEF At, first, x, before
      <4> QED BY <4>6 DEF Located
    <3> QED BY <3>4, <3>7, <3>8, Sizes
  <2> QED BY <2>1, <2>2, <1>4, <1>7
<1>10. PlaceOK(t)
  BY <1>1, <1>7, <1>8, <1>9 DEF PlaceOK
<1> QED BY <1>6, <1>10 DEF t
-----------------------------------------------------------------------------
(* What the calls of the clients leave in a TFile. *)

\* The record of a transaction that was put into the queue.
Starts(r, type) == [r EXCEPT !.finished = FALSE, !.result = "OK", !.tratype = type]

\* Its members.
LEMMA StartsIs ==
  ASSUME NEW r \in FileRecord, NEW type \in {"OPEN", "READ", "SEEK"}
  PROVE  /\ Starts(r, type) \in FileRecord /\ SamePlace(Starts(r, type), r)
         /\ ~Starts(r, type).finished /\ Starts(r, type).tratype = type
         /\ Starts(r, type).from = r.from /\ Starts(r, type).datalen = r.datalen
         /\ Starts(r, type).remaining = r.remaining /\ Starts(r, type).got = r.got
         /\ Starts(r, type).targetpos = r.targetpos /\ Starts(r, type).strayed = r.strayed
<1> DEFINE t == Starts(r, type)
<1>1. t \in FileRecord
  BY DEF FileRecord, Starts, Results
<1>2. SamePlace(t, r) /\ ~t.finished /\ t.tratype = type
  BY DEF FileRecord, Starts, SamePlace
<1>3. /\ t.from = r.from /\ t.datalen = r.datalen /\ t.remaining = r.remaining
      /\ t.got = r.got /\ t.targetpos = r.targetpos /\ t.strayed = r.strayed
  BY DEF FileRecord, Starts
<1> QED BY <1>1, <1>2, <1>3

\* The record an Open starts with.
Opening(r, path) ==
  [r EXCEPT !.opened = FALSE, !.path = path.segments, !.directory = path.directory,
            !.strayed = FALSE, !.got = <<>>, !.listed = <<>>]

\* An Open: the file is in no place until it is found.
LEMMA OpenGood ==
  ASSUME NEW r \in FileRecord, NEW f \in File, NEW path \in Paths[f]
  PROVE  Good(Starts(Opening(r, path), "OPEN"))
<1> DEFINE t == Opening(r, path)
<1>1. path.segments \in Segments /\ path.directory \in BOOLEAN
  BY ClientAssumption DEF Segments
<1>2. t \in FileRecord
  <2>1. <<>> \in Seq(Nat) /\ <<>> \in Seq(Int)
    OBVIOUS
  <2> QED BY <1>1, <2>1 DEF FileRecord, Opening
<1>20. t.opened = FALSE
  BY DEF FileRecord, Opening
<1> HIDE DEF t
<1> DEFINE u == Starts(t, "OPEN")
<1>3. u \in FileRecord /\ ~u.opened /\ u.tratype = "OPEN"
  BY <1>2, <1>20, StartsIs DEF SamePlace
<1> HIDE DEF u
<1>4. Good(u)
  BY <1>3 DEF Good, PlaceOK, ReadOK, SeekOK
<1> QED BY <1>4 DEF u, t

\* The record a Read starts with.
Reading(r, len, pos, left) ==
  [r EXCEPT !.datalen = len, !.got = <<>>, !.filepos = pos, !.from = pos, !.remaining = left]

\* A Read of an open file: it is to deliver what is asked for and is left.
LEMMA ReadGood ==
  ASSUME NEW r \in FileRecord, PlaceOK(r), r.opened, NEW len \in Nat, NEW pos, NEW left,
         LET cut == ~r.directory /\ r.filepos + len > r.size
         IN /\ pos = IF cut /\ r.filepos > r.size THEN r.size ELSE r.filepos
            /\ left = IF cut THEN r.size - pos ELSE len
  PROVE  Good(Starts(Reading(r, len, pos, left), "READ"))
<1> DEFINE t == Reading(r, len, pos, left)
<1>1. r.filepos \in Nat /\ r.size \in Nat /\ r.directory \in BOOLEAN
  BY DEF FileRecord
<1>2. pos \in Nat /\ left \in Nat /\ (~r.directory => pos = r.filepos)
  BY <1>1 DEF PlaceOK
<1>3. t \in FileRecord
  <2> DEFINE none == <<>>
  <2>1. none \in Seq(Nat)
    OBVIOUS
  <2>2. t = [r EXCEPT !.datalen = len, !.got = none, !.filepos = pos, !.from = pos, !.remaining = left]
    BY DEF Reading
  <2>3. r \in FileRecord /\ len \in Nat /\ pos \in Nat /\ left \in Nat
    BY <1>2
  <2> HIDE DEF none, t
  <2> QED BY ONLY <2>1, <2>2, <2>3 DEF FileRecord
<1>4. /\ t.from = pos /\ t.datalen = len /\ t.remaining = left /\ t.got = <<>> /\ t.filepos = pos
      /\ t.size = r.size /\ t.directory = r.directory /\ t.opened = r.opened
  BY DEF FileRecord, Reading
<1>5. ~r.directory => SamePlace(t, r)
  BY <1>2 DEF FileRecord, Reading, SamePlace
<1> HIDE DEF t
<1> DEFINE u == Starts(t, "READ")
<1>6. /\ u \in FileRecord /\ SamePlace(u, t) /\ ~u.finished /\ u.tratype = "READ"
      /\ u.from = pos /\ u.datalen = len /\ u.remaining = left /\ u.got = <<>>
  BY <1>3, <1>4, StartsIs
<1> HIDE DEF u
<1>7. /\ u.filepos = pos /\ u.size = r.size /\ u.directory = r.directory /\ u.opened
  BY <1>4, <1>6 DEF SamePlace
<1>8. PlaceOK(u)
  <2>1. CASE r.directory
    BY <2>1, <1>7 DEF PlaceOK
  <2>2. CASE ~r.directory
    BY <2>2, <1>5, <1>6, PlaceSame
  <2> QED BY <2>1, <2>2
<1>9. ReadOK(u)
  <2>1. ~r.directory => pos + left = pos + ToRead(u)
    BY <1>1, <1>2, <1>6, <1>7 DEF ToRead
  <2>2. GotData(u)
    <3>1. Len(u.got) = 0
      BY <1>6
    <3> QED BY <3>1, <1>2, <1>6, <1>7 DEF GotData
  <2> QED BY <2>1, <2>2, <1>2, <1>6, <1>7 DEF ReadOK
<1>10. Good(u)
  BY <1>6, <1>8, <1>9 DEF Good, SeekOK
<1> QED BY <1>10 DEF u, t

\* A place k units behind the beginning of an open file.
LEMMA FirstCluster ==
  ASSUME NEW r \in FileRecord, PlaceOK(r), r.opened, ~r.directory,
         NEW k \in 0 .. ClusterUnits, k <= r.size,
         NEW t, t.opened = r.opened, t.directory = r.directory, t.size = r.size,
         t.location = r.location, t.filepos = k, t.curlocation = r.location + k,
         t.cluster_end = r.location + ClusterUnits
  PROVE  /\ PlaceOK(t)
         /\ r.size > 0 => \E c \in DOMAIN Chain : Holds(t, c) /\ At(t, c, 0, k)
<1>1. ASSUME r.size > 0
      PROVE  \E c \in DOMAIN Chain : Holds(t, c) /\ At(t, c, 0, k) /\ Located(t, c)
  <2>1. PICK c \in DOMAIN Chain : Holds(r, c)
    BY <1>1 DEF PlaceOK
  <2>2. Chain[c][0 + 1] = c /\ 0 \in 0 .. Len(Chain[c]) - 1
    BY ChainIs
  <2>3. 0 * ClusterUnits = 0 /\ 0 + k = k
    BY Sizes
  <2>4. At(t, c, 0, k)
    BY <2>1, <2>2, <2>3, <1>1 DEF At, Holds
  <2> QED BY <2>1, <2>2, <2>4 DEF Holds, Located
<1> QED BY <1>1 DEF PlaceOK

\* The records of the search for a position from the beginning of the file on.
FromStart(r, pos) ==
  [r EXCEPT !.targetpos = pos, !.filepos = 0, !.curlocation = r.location,
            !.cluster_end = r.location + ClusterUnits, !.strayed = FALSE]
InFirst(s, pos) == [s EXCEPT !.filepos = pos, !.curlocation = @ + pos]

\* Their members.
LEMMA FromStartIs ==
  ASSUME NEW r \in FileRecord, NEW pos \in Nat
  PROVE  LET s == FromStart(r, pos)
         IN /\ s \in FileRecord /\ s.opened = r.opened /\ s.directory = r.directory
            /\ s.size = r.size /\ s.location = r.location /\ s.filepos = 0
            /\ s.curlocation = r.location /\ s.cluster_end = r.location + ClusterUnits
            /\ s.strayed = FALSE /\ s.targetpos = pos
<1> DEFINE s == FromStart(r, pos)
           start == r.location
           end == start + ClusterUnits
<1>1. start \in Nat /\ end \in Nat /\ FALSE \in BOOLEAN /\ 0 \in Nat
  BY Sizes DEF FileRecord
<1>2. s = [r EXCEPT !.targetpos = pos, !.filepos = 0, !.curlocation = start,
                    !.cluster_end = end, !.strayed = FALSE]
  BY DEF FromStart
<1> HIDE DEF s, start, end
<1>3. s \in FileRecord
  BY <1>1, <1>2 DEF FileRecord
<1>4. /\ s.opened = r.opened /\ s.directory = r.directory /\ s.size = r.size
      /\ s.location = r.location /\ s.filepos = 0 /\ s.curlocation = start
      /\ s.cluster_end = end /\ s.strayed = FALSE /\ s.targetpos = pos
  BY <1>2 DEF FileRecord
<1> QED BY <1>3, <1>4 DEF s, start, end

\* A target in the first cluster.
LEMMA InFirstGood ==
  ASSUME NEW r \in FileRecord, PlaceOK(r), r.opened, ~r.directory,
         NEW pos \in Nat, pos <= r.size, pos < ClusterUnits
  PROVE  LET t == InFirst(FromStart(r, pos), pos) IN t \in FileRecord /\ PlaceOK(t)
<1> DEFINE s == FromStart(r, pos)
           t == InFirst(s, pos)
           location == r.location + pos
<1>1. /\ s \in FileRecord /\ s.opened = r.opened /\ s.directory = r.directory
      /\ s.size = r.size /\ s.location = r.location
      /\ s.curlocation = r.location /\ s.cluster_end = r.location + ClusterUnits
  BY FromStartIs
<1> HIDE DEF s
<1>2. location \in Nat
  BY DEF FileRecord
<1>3. t = [s EXCEPT !.filepos = pos, !.curlocation = location]
  BY <1>1 DEF InFirst
<1> HIDE DEF t, location
<1>4. t \in FileRecord
  BY <1>1, <1>2, <1>3 DEF FileRecord
<1>5. /\ t.opened = r.opened /\ t.directory = r.directory /\ t.size = r.size
      /\ t.location = r.location /\ t.filepos = pos /\ t.curlocation = location
      /\ t.cluster_end = r.location + ClusterUnits
  BY <1>1, <1>3 DEF FileRecord
<1>6. PlaceOK(t)
  <2>1. pos \in 0 .. ClusterUnits
    BY Sizes
  <2> QED BY <2>1, <1>5, FirstCluster DEF location
<1> QED BY <1>4, <1>6 DEF t, s

\* A target behind the first cluster.
LEMMA FromStartGood ==
  ASSUME NEW r \in FileRecord, PlaceOK(r), r.opened, ~r.directory,
         NEW pos \in Nat, pos <= r.size, ~(pos < ClusterUnits)
  PROVE  Good(Starts(FromStart(r, pos), "SEEK"))
<1> DEFINE s == FromStart(r, pos)
           t == Starts(s, "SEEK")
<1>1. /\ s \in FileRecord /\ s.opened = r.opened /\ s.directory = r.directory
      /\ s.size = r.size /\ s.location = r.location /\ s.filepos = 0
      /\ s.curlocation = r.location /\ s.cluster_end = r.location + ClusterUnits
      /\ s.strayed = FALSE /\ s.targetpos = pos
  BY FromStartIs
<1> HIDE DEF s
<1>2. /\ t \in FileRecord /\ SamePlace(t, s) /\ ~t.finished /\ t.tratype = "SEEK"
      /\ t.targetpos = s.targetpos /\ t.strayed = s.strayed
  BY <1>1, StartsIs
<1> HIDE DEF t
<1>3. /\ t.opened = r.opened /\ t.directory = r.directory /\ t.size = r.size
      /\ t.location = r.location /\ t.filepos = 0 /\ t.curlocation = r.location + 0
      /\ t.cluster_end = r.location + ClusterUnits /\ t.targetpos = pos /\ ~t.strayed
  <2>1. r.location + 0 = r.location
    BY DEF FileRecord
  <2> QED BY <2>1, <1>1, <1>2 DEF SamePlace
<1>4. r.size > 0 /\ 0 < pos /\ 0 <= r.size
  <2>1. r.size \in Nat
    BY DEF FileRecord
  <2> QED BY <2>1, Sizes
<1>5. PlaceOK(t) /\ \E c \in DOMAIN Chain : Holds(t, c) /\ At(t, c, 0, 0)
  <2>1. 0 \in 0 .. ClusterUnits
    BY Sizes
  <2> QED BY <2>1, <1>3, <1>4, FirstCluster
<1>6. \E c \in DOMAIN Chain : Holds(t, c) /\ \E m \in 0 .. Len(Chain[c]) - 1 : At(t, c, m, 0)
  <2>1. PICK c \in DOMAIN Chain : Holds(t, c) /\ At(t, c, 0, 0)
    BY <1>5
  <2>2. 0 \in 0 .. Len(Chain[c]) - 1
    BY ChainIs
  <2> QED BY <2>1, <2>2
<1>7. Good(t)
  BY <1>2, <1>3, <1>4, <1>5, <1>6 DEF Good, ReadOK, SeekOK
<1> QED BY <1>7 DEF t, s

\* An entry that was found is opened at its beginning.
Found(r, e) ==
  [r EXCEPT !.opened = TRUE, !.filepos = 0, !.location = ClusterToAddr(e.cluster),
            !.curlocation = ClusterToAddr(e.cluster),
            !.cluster_end = ClusterToAddr(e.cluster) + ClusterUnits, !.size = e.size]

\* An open file begins with its first cluster.
LEMMA FoundGood ==
  ASSUME NEW r \in FileRecord, NEW e, e.cluster \in Nat, e.size \in Nat,
         ~r.directory /\ e.size > 0 =>
           e.cluster \in DOMAIN Chain /\ e.size <= Len(Chain[e.cluster]) * ClusterUnits
  PROVE  Found(r, e) \in FileRecord /\ PlaceOK(Found(r, e))
<1> DEFINE t == Found(r, e)
           start == ClusterToAddr(e.cluster)
           end == start + ClusterUnits
<1>1. start \in Nat /\ end \in Nat
  <2>1. start \in Nat
    BY PlaceTypes, Zenon
  <2> QED BY <2>1, Sizes
<1>2. t = [r EXCEPT !.opened = TRUE, !.filepos = 0, !.location = start, !.curlocation = start,
                    !.cluster_end = end, !.size = e.size]
  BY DEF Found
<1>3. start = ClusterToAddr(e.cluster) /\ end = start + ClusterUnits
  OBVIOUS
<1> HIDE DEF t, start, end
<1>4. t \in FileRecord
  BY <1>1, <1>2 DEF FileRecord
<1>5. /\ t.directory = r.directory /\ t.filepos = 0 /\ t.location = start /\ t.curlocation = start
      /\ t.cluster_end = end /\ t.size = e.size
  BY <1>2 DEF FileRecord
<1>6. ASSUME ~r.directory, e.size > 0
      PROVE  \E c \in DOMAIN Chain : Holds(t, c) /\ Located(t, c)
  <2> DEFINE c == e.cluster
  <2>1. c \in DOMAIN Chain /\ Holds(t, c)
    BY <1>3, <1>5, <1>6 DEF Holds
  <2>2. Chain[c][0 + 1] = c /\ 0 \in 0 .. Len(Chain[c]) - 1
    BY <2>1, ChainIs
  <2>3. 0 * ClusterUnits + 0 = 0 /\ 0 * ClusterUnits = 0 /\ start + 0 = start /\ 0 \in 0 .. ClusterUnits
    BY <1>1, Sizes
  <2>4. At(t, c, 0, 0)
    BY <2>2, <2>3, <1>3, <1>5, <1>6 DEF At
  <2> QED BY <2>1, <2>2, <2>3, <2>4 DEF Located
<1>7. PlaceOK(t)
  <2>1. t.filepos <= t.size
    BY <1>5
  <2> QED BY <2>1, <1>5, <1>6 DEF PlaceOK
<1> QED BY <1>4, <1>7 DEF t
-----------------------------------------------------------------------------
(* The inductive invariant. *)

FilesInv == file \in [File -> FileRecord] /\ \A f \in File : Good(file[f])

\* The transactions in the queue have not ended, and each file has at most one.
QueueInv ==
  /\ tras \in Seq(File)
  /\ \A i \in 1 .. Len(tras) : ~file[tras[i]].finished
  /\ \A i, j \in 1 .. Len(tras) : tras[i] = tras[j] => i = j

OpRecord ==
  [curop : {"IDLE", "DIR_READ"}, opstate : {0, 1, 5}, opresult : {"OK", "EOF", "IOERROR"},
   fdata : Int, location : Nat, cluster_end : Nat]
StorRecord ==
  [completed : BOOLEAN, dst : {"none", "boot", "buf", "next_cluster", "file"},
   address : Int, len : Nat]
FsysInv ==
  /\ trastate \in {0, 1, 2, 5} /\ op \in OpRecord /\ stra \in StorRecord /\ buf.addr \in Nat
  /\ mount \in {"unread", "reading", "ok", "bad"}

\* What the storage transaction is for, that the transaction of r waits for.
ReadsChunk(r) ==
  /\ r.tratype = "READ" /\ ~r.directory /\ trastate = 1
  /\ stra = StorRead("file", r.curlocation, Chunk(r))
ReadsFat(r) ==
  /\ r.tratype = "READ" /\ ~r.directory /\ trastate = 5
  /\ Chunk(r) = 0 /\ r.remaining # 0
  /\ stra = FindNextCluster(AddrToCluster(r.curlocation) - 1)
SeeksFat(r) ==
  /\ r.tratype = "SEEK" /\ trastate = 5
  /\ r.filepos + ClusterUnits < r.targetpos
  /\ stra = FindNextCluster(AddrToCluster(r.curlocation))

\* The result of the operation is to be taken, or the operation is active, for r.
DirReads(r) == r.tratype = "READ" /\ r.directory /\ trastate = 1
Searches(r) == (r.tratype = "OPEN" /\ trastate = 2) \/ DirReads(r)

\* An operation that has met the end of its FAT chain.
Stuck == trastate = 0 /\ op.opstate = 5 /\ stra.completed

\* What the transaction at the head waits for.
PhaseInv ==
  /\ mount # "ok" => op.curop = "IDLE" /\ trastate = 0
  /\ tras = <<>> => trastate = 0
  /\ op.curop = "IDLE" /\ trastate # 0 =>
       LET r == file[Head(tras)]
       IN DirReads(r) \/ ReadsChunk(r) \/ ReadsFat(r) \/ SeeksFat(r)
  /\ op.curop # "IDLE" => Stuck \/ (tras # <<>> /\ Searches(file[Head(tras)]))

IInv == FilesInv /\ QueueInv /\ FsysInv /\ PhaseInv
-----------------------------------------------------------------------------
(* The transaction at the head of the queue. *)

\* A call of Run serves f.
Heads(f) == tras # <<>> /\ f = Head(tras) /\ mount = "ok"

\* What a Read that ends with success has delivered, from one state of the file to the next.
Delivers(old, new) ==
  LET n == IF old.from + old.datalen > new.size THEN new.size - old.from ELSE old.datalen
  IN ~old.finished /\ old.tratype = "READ" /\ new.finished /\ ~new.directory
       /\ new.result = "OK" /\ ~new.strayed =>
       /\ new.got = [i \in 1 .. n |-> DataAt(AddrToCluster(new.location), old.from + i - 1)]
       /\ new.filepos = old.from + n

\* The call changes the file f at most.
Others(f) == \A g \in File : g # f => file'[g] = file[g]
Turn(f)   == IInv' /\ Others(f) /\ Delivers(file[f], file'[f])

\* The head of the queue and what is behind it.
LEMMA QueueIs ==
  ASSUME FilesInv, QueueInv, NEW f, Heads(f)
  PROVE  /\ f \in File /\ file[f] \in FileRecord /\ Good(file[f]) /\ ~file[f].finished
         /\ Tail(tras) \in Seq(File) /\ Len(tras) \in Nat /\ Len(tras) > 0
         /\ Len(Tail(tras)) = Len(tras) - 1
         /\ \A i \in 1 .. Len(Tail(tras)) : /\ i + 1 \in 1 .. Len(tras) /\ Tail(tras)[i] = tras[i + 1]
                                            /\ Tail(tras)[i] # f /\ Tail(tras)[i] \in File
<1>1. tras \in Seq(File) /\ tras # <<>> /\ f = Head(tras)
  BY DEF QueueInv, Heads
<1>2. Len(tras) \in Nat /\ Len(tras) > 0 /\ f = tras[1] /\ 1 \in 1 .. Len(tras)
  BY <1>1
<1>3. Tail(tras) \in Seq(File) /\ Len(Tail(tras)) = Len(tras) - 1
  BY <1>1
<1>4. \A i \in 1 .. Len(Tail(tras)) : i + 1 \in 1 .. Len(tras) /\ Tail(tras)[i] = tras[i + 1] /\ i + 1 # 1
  BY <1>1, <1>3
<1>5. \A i \in 1 .. Len(Tail(tras)) : Tail(tras)[i] # f /\ Tail(tras)[i] \in File
  BY <1>2, <1>3, <1>4 DEF QueueInv
<1>6. f \in File /\ ~file[f].finished
  BY <1>1, <1>2 DEF QueueInv
<1> QED BY <1>2, <1>3, <1>4, <1>5, <1>6 DEF FilesInv

\* The files after one of them has changed.
LEMMA FilesSet ==
  ASSUME FilesInv, NEW f \in File, NEW r, Good(r), file' = [file EXCEPT ![f] = r]
  PROVE  FilesInv' /\ file'[f] = r /\ Others(f)
<1>1. r \in FileRecord
  BY DEF Good
<1>2. file' \in [File -> FileRecord] /\ file'[f] = r /\ \A g \in File : g # f => file'[g] = file[g]
  BY <1>1 DEF FilesInv
<1>3. \A g \in File : Good(file'[g])
  BY <1>2 DEF FilesInv
<1> QED BY <1>2, <1>3 DEF FilesInv, Others

\* The transaction at the head ends.
LEMMA Unchained ==
  ASSUME FilesInv, QueueInv, NEW f, Heads(f), NEW r \in FileRecord, PlaceOK(r),
         NEW result \in Results, Unchain(f, r, result)
  PROVE  FilesInv' /\ QueueInv' /\ trastate' = 0 /\ file'[f] = Over(r, result) /\ Others(f)
<1>1. file' = [file EXCEPT ![f] = Over(r, result)] /\ tras' = Tail(tras) /\ trastate' = 0
  BY DEF Unchain, FinishTra, Over
<1>2. Good(Over(r, result))
  BY OverGood
<1>3. f \in File
  BY QueueIs
<1>4. FilesInv' /\ file'[f] = Over(r, result) /\ Others(f)
  BY <1>1, <1>2, <1>3, FilesSet
<1>5. QueueInv'
  <2> DEFINE t == Tail(tras)
  <2>1. /\ t \in Seq(File) /\ Len(tras) \in Nat /\ Len(t) = Len(tras) - 1
        /\ \A i \in 1 .. Len(t) : i + 1 \in 1 .. Len(tras) /\ t[i] = tras[i + 1] /\ t[i] # f /\ t[i] \in File
    BY QueueIs
  <2>2. tras' = t
    BY <1>1
  <2> HIDE DEF t
  <2>3. \A i \in 1 .. Len(t) : ~file'[t[i]].finished
    BY <2>1, <1>4 DEF QueueInv, Others
  <2>4. ASSUME NEW i \in 1 .. Len(t), NEW j \in 1 .. Len(t), t[i] = t[j]
        PROVE  i = j
    <3>1. i + 1 = j + 1
      BY <2>1, <2>4 DEF QueueInv
    <3> QED BY <3>1
  <2> QED BY <2>1, <2>2, <2>3, <2>4 DEF QueueInv
<1> QED BY <1>1, <1>4, <1>5

\* The transaction goes on.
LEMMA Continued ==
  ASSUME FilesInv, QueueInv, NEW f, Heads(f), NEW r, Good(r), ~r.finished,
         NEW state, NEW s, Continue(f, r, state, s)
  PROVE  /\ FilesInv' /\ QueueInv' /\ trastate' = state /\ tras' # <<>> /\ Head(tras') = f
         /\ file'[f] = r /\ Others(f)
<1>1. file' = [file EXCEPT ![f] = r] /\ tras' = tras /\ trastate' = state
  BY DEF Continue
<1>2. f \in File
  BY QueueIs
<1>3. FilesInv' /\ file'[f] = r /\ Others(f)
  BY <1>1, <1>2, FilesSet
<1>4. \A i \in 1 .. Len(tras) : tras[i] \in File
  BY DEF QueueInv
<1>5. QueueInv'
  BY <1>1, <1>3, <1>4 DEF QueueInv, Others
<1> QED BY <1>1, <1>3, <1>5 DEF Heads

\* The operation is over too.
LEMMA Finished ==
  ASSUME IInv, NEW f, Heads(f), NEW r \in FileRecord, PlaceOK(r),
         NEW result \in Results, FinishCurTra(f, r, result), mount' = mount, buf'.addr \in Nat,
         Delivers(file[f], Over(r, result))
  PROVE  Turn(f)
<1>1. FilesInv' /\ QueueInv' /\ trastate' = 0 /\ file'[f] = Over(r, result) /\ Others(f)
  BY Unchained DEF IInv, FinishCurTra
<1>2. op' \in OpRecord /\ op'.curop = "IDLE" /\ stra' \in StorRecord
  BY DEF FinishCurTra, OpIdle, OpEnded, NoUnit, StorIdle, OpRecord, StorRecord
<1>3. FsysInv'
  BY <1>1, <1>2 DEF FsysInv, IInv
<1>4. PhaseInv'
  BY <1>1, <1>2 DEF PhaseInv
<1> QED BY <1>1, <1>3, <1>4 DEF IInv, Turn

\* An operation that is active, as the next call of Run finds it.
Active == op \in OpRecord /\ op.curop # "IDLE" /\ stra \in StorRecord

\* The search in a directory goes on.
LEMMA SearchesOn ==
  ASSUME IInv, NEW f, Heads(f), NEW state \in {1, 2}, NEW s, Continue(f, file[f], state, s),
         \/ file[f].tratype = "OPEN" /\ state = 2
         \/ file[f].tratype = "READ" /\ file[f].directory /\ state = 1,
         Active', mount' = mount, buf'.addr \in Nat
  PROVE  Turn(f)
<1>1. Good(file[f]) /\ ~file[f].finished
  BY QueueIs DEF IInv
<1>2. /\ FilesInv' /\ QueueInv' /\ trastate' = state /\ tras' # <<>> /\ Head(tras') = f
      /\ file'[f] = file[f] /\ Others(f)
  BY <1>1, Continued DEF IInv
<1>3. FsysInv'
  BY <1>2 DEF FsysInv, IInv, Active
<1>4. mount' = "ok" /\ op'.curop # "IDLE"
  BY DEF Heads, Active
<1>5. Searches(file[f])'
  BY <1>2 DEF Searches, DirReads, Continue
<1>6. PhaseInv'
  BY <1>2, <1>4 DEF PhaseInv, Searches, DirReads
<1> QED BY <1>1, <1>2, <1>3, <1>6 DEF IInv, Turn, Delivers
-----------------------------------------------------------------------------
(* The storage transaction. *)

\* What a call of Run learns from it.
LEMMA StorRunIs ==
  ASSUME NEW c \in StorRun
  PROVE  /\ c.next \in Nat
         /\ stra.completed => c.errorcode = 0 /\ c.next = 0
         /\ ~stra.completed /\ stra.dst = "next_cluster" /\ c.errorcode = 0
              /\ stra.address \in DOMAIN Fat => c.next = Fat[stra.address]
<1>1. CASE stra.completed
  BY <1>1 DEF StorRun
<1>2. CASE ~stra.completed
  <2> DEFINE next == IF stra.dst # "next_cluster" THEN {0}
                     ELSE IF stra.address \in DOMAIN Fat THEN {Fat[stra.address]}
                     ELSE 0 .. (clustercount + 1)
             failed == {[errorcode |-> 1, units |-> Loaded(n), next |-> 0] : n \in FailPoints}
             done == {[errorcode |-> 0, units |-> Loaded(stra.len), next |-> d] : d \in next}
  <2>1. c \in failed \/ c \in done
    BY <1>2 DEF StorRun
  <2>2. next \subseteq Nat
    <3>1. \A a \in DOMAIN Fat : Fat[a] \in Nat
      BY VolumeAssumption
    <3>2. 0 .. (clustercount + 1) \subseteq Nat
      BY Sizes
    <3> QED BY <3>1, <3>2
  <2>3. CASE c \in failed
    BY <1>2, <2>3
  <2>4. CASE c \in done
    <3>1. PICK d \in next : c = [errorcode |-> 0, units |-> Loaded(stra.len), next |-> d]
      BY <2>4
    <3>2. c.next = d /\ d \in Nat
      BY <3>1, <2>2
    <3>3. stra.dst = "next_cluster" /\ stra.address \in DOMAIN Fat => d = Fat[stra.address]
      BY <3>1
    <3> QED BY <1>2, <3>2, <3>3
  <2> QED BY <2>1, <2>3, <2>4
<1> QED BY <1>1, <1>2
-----------------------------------------------------------------------------
(* The directory operation. *)

\* The sector of a location.
LEMMA SectorTypes == \A a \in Nat : SectorOf(a) \in Nat
<1> SUFFICES ASSUME NEW a \in Nat PROVE SectorOf(a) \in Nat
  OBVIOUS
<1>1. a \div SectorUnits \in Nat /\ a % SectorUnits \in 0 .. SectorUnits - 1
      /\ a = (a \div SectorUnits) * SectorUnits + (a % SectorUnits)
  BY Division, Sizes
<1>2. \A x, y \in Nat : x * y \in Nat
  OBVIOUS
<1> DEFINE m == (a \div SectorUnits) * SectorUnits
           k == a % SectorUnits
<1>3. m \in Nat /\ k \in Nat /\ a = m + k
  <2>1. m \in Nat
    BY <1>1, <1>2, Sizes
  <2> QED BY <2>1, <1>1, Sizes
<1> HIDE DEF m, k
<1>4. a - k \in Nat
  BY <1>3
<1> QED BY <1>4 DEF SectorOf, k

\* A location that is not in buf is waited for.
LEMMA OpLoadIs ==
  ASSUME NEW l \in Nat, NEW e \in Nat, OpLoad(l, e)
  PROVE  Active'
<1>1. \A state \in {0, 1, 5} : OpActive(state, l, e) \in OpRecord /\ OpActive(state, l, e).curop # "IDLE"
  BY DEF OpActive, NoUnit, OpRecord
<1>2. CASE l < e
  <2>1. op' = OpActive(1, l, e) /\ stra' = StorRead("buf", SectorOf(l), SectorUnits)
    BY <1>2 DEF OpLoad
  <2>2. SectorOf(l) \in Int /\ SectorUnits \in Nat
    BY SectorTypes, Sizes
  <2>3. stra' \in StorRecord
    BY <2>1, <2>2 DEF StorRead, StorRecord
  <2> QED BY <1>1, <2>1, <2>3 DEF Active
<1>3. CASE ~(l < e)
  <2>1. op' = OpActive(5, l, e) /\ stra' = StorRead("next_cluster", AddrToCluster(l) - 1, 1)
    BY <1>3 DEF OpLoad, FindNextCluster
  <2>2. AddrToCluster(l) - 1 \in Int
    BY PlaceTypes
  <2>3. stra' \in StorRecord
    BY <2>1, <2>2 DEF StorRead, StorRecord
  <2> QED BY <1>1, <2>1, <2>3 DEF Active
<1> QED BY <1>2, <1>3

\* The operation goes on at once.
LEMMA GoesOn ==
  ASSUME NEW l \in Nat, NEW e \in Nat, op' = OpActive(0, l, e), stra' = StorIdle
  PROVE  Active'
BY DEF OpActive, NoUnit, StorIdle, Active, OpRecord, StorRecord

\* The end of buf was reached.
LEMMA ExhaustedIs ==
  ASSUME NEW b, b.addr \in Nat, NEW e \in Nat, Exhausted(b, e)
  PROVE  Active'
<1>1. BufEnd(b) \in Nat
  BY Sizes DEF BufEnd
<1> QED BY <1>1, OpLoadIs, GoesOn DEF Exhausted

\* The search of a directory starts.
LEMMA EnterDirIs ==
  ASSUME NEW b, NEW l \in Nat, EnterDir(b, l)
  PROVE  Active'
<1>1. l + ClusterUnits \in Nat
  BY Sizes
<1> QED BY <1>1, OpLoadIs, GoesOn DEF EnterDir

\* A set of numbers has a first one.
LEMMA FirstIs ==
  ASSUME NEW S, S \subseteq Nat, S # {}
  PROVE  First(S) \in S /\ \A j \in S : First(S) <= j
<1>1. IsWellFoundedOn(OpToRel(<, Nat), Nat)
  BY NatLessThanWellFounded
<1>2. PICK x \in S : \A y \in S : ~(<<y, x>> \in OpToRel(<, Nat))
  BY <1>1, WFMin
<1>3. \A y \in S : ~(y < x)
  BY <1>2 DEF OpToRel
<1>4. \A y \in S : x <= y
  BY <1>3
<1> QED BY <1>4 DEF First

\* Where a search stops: not at the end of the directory, but at an entry that is live.
LEMMA StopsIs ==
  ASSUME NEW b, b.addr \in Nat, NEW l \in Nat, NEW wanted, wanted \subseteq DOMAIN Entry,
         Stops(b, l, wanted) # {}
  PROVE  LET k == First(Stops(b, l, wanted))
         IN /\ k \in Nat
            /\ EntryIn(b, k).kind # "end" =>
                 /\ EntryIn(b, k).kind = "entry"
                 /\ b.units[k % SectorUnits] \in DOMAIN Entry
<1> DEFINE S == Stops(b, l, wanted)
           k == First(S)
<1>1. BufEnd(b) \in Nat
  BY Sizes DEF BufEnd
<1>2. S \subseteq Nat
  BY <1>1 DEF Stops
<1>3. k \in S
  BY <1>2, FirstIs
<1>4. EntryIn(b, k).kind = "end" \/ (Live(EntryIn(b, k)) /\ b.units[k % SectorUnits] \in wanted)
  BY <1>3 DEF Stops
<1> QED BY <1>2, <1>3, <1>4 DEF Live
-----------------------------------------------------------------------------
(* An Open and a Read of a directory keep the invariant. *)

\* What the volume says of an entry that is live.
LEMMA EntryIs ==
  ASSUME NEW a \in DOMAIN Entry, Entry[a].kind = "entry"
  PROVE  LET e == Entry[a]
         IN /\ e.cluster \in Nat /\ e.size \in Nat
            /\ ~e.nonfile /\ e.size > 0 =>
                 e.cluster \in DOMAIN Chain /\ e.size <= Len(Chain[e.cluster]) * ClusterUnits
BY VolumeAssumption, SoundAssumption

\* The file is opened at the entry e.
LEMMA OpenedInv ==
  ASSUME IInv, NEW f, Heads(f), file[f].tratype = "OPEN", NEW e, e.cluster \in Nat, e.size \in Nat,
         ~file[f].directory /\ e.size > 0 =>
           e.cluster \in DOMAIN Chain /\ e.size <= Len(Chain[e.cluster]) * ClusterUnits,
         Opened(f, e), mount' = mount, buf'.addr \in Nat
  PROVE  Turn(f)
<1> DEFINE t == Found(file[f], e)
<1>1. file[f] \in FileRecord
  BY QueueIs DEF IInv
<1>2. t \in FileRecord /\ PlaceOK(t)
  BY <1>1, FoundGood
<1>3. FinishCurTra(f, t, "OK")
  BY DEF Opened, Found
<1> HIDE DEF t
<1>4. "OK" \in Results
  BY DEF Results
<1>5. Delivers(file[f], Over(t, "OK"))
  BY DEF Delivers
<1> QED BY <1>2, <1>3, <1>4, <1>5, Finished

\* The transaction ends where the file is.
LEMMA EndsInPlace ==
  ASSUME IInv, NEW f, Heads(f), NEW result \in Results, file[f].tratype = "OPEN" \/ result # "OK",
         FinishCurTra(f, file[f], result), mount' = mount, buf'.addr \in Nat
  PROVE  Turn(f)
<1>1. file[f] \in FileRecord /\ PlaceOK(file[f])
  BY QueueIs DEF IInv, Good
<1>2. Over(file[f], result).result = result
  BY <1>1 DEF FileRecord, Over
<1>3. Delivers(file[f], Over(file[f], result))
  BY <1>2 DEF Delivers
<1> QED BY <1>1, <1>3, Finished

\* A segment that cannot be searched.
LEMMA OddSegmentInv ==
  ASSUME IInv, NEW f, Heads(f), file[f].tratype = "OPEN", NEW s, NEW d, d.cluster \in Nat, d.size \in Nat,
         OddSegment(f, s, d), mount' = mount, buf'.addr \in Nat
  PROVE  Turn(f)
<1>1. CASE Opened(f, d) /\ file[f].directory
  BY <1>1, OpenedInv
<1>2. CASE FinishCurTra(f, file[f], "INVALID_PATH")
  <2>1. "INVALID_PATH" \in Results
    BY DEF Results
  <2> QED BY <1>2, <2>1, EndsInPlace
<1> QED BY <1>1, <1>2 DEF OddSegment

\* A segment whose entry was found.
LEMMA SegmentFoundInv ==
  ASSUME IInv, NEW f, Heads(f), file[f].tratype = "OPEN", NEW s, NEW b,
         NEW a \in DOMAIN Entry, Entry[a].kind = "entry", SegmentFound(f, s, b, Entry[a]),
         mount' = mount, buf'.addr \in Nat
  PROVE  Turn(f)
<1> DEFINE e == Entry[a]
<1>1. /\ e.cluster \in Nat /\ e.size \in Nat
      /\ ~e.nonfile /\ e.size > 0 =>
           e.cluster \in DOMAIN Chain /\ e.size <= Len(Chain[e.cluster]) * ClusterUnits
  BY EntryIs
<1>2. Verdict(f, s, e) \in Results
  BY DEF Verdict, Results
<1>3. IsLast(f, s) /\ Verdict(f, s, e) = "OK" => file[f].directory \/ ~e.nonfile
  BY DEF Verdict
<1> HIDE DEF e
<1>4. SegmentFound(f, s, b, e)
  BY DEF e
<1>5. CASE EnterDir(b, ClusterToAddr(e.cluster)) /\ Continue(f, file[f], 2, s + 1)
  <2>1. ClusterToAddr(e.cluster) \in Nat
    BY <1>1, PlaceTypes, Zenon
  <2>2. Active'
    BY <2>1, <1>5, EnterDirIs
  <2> QED BY <2>2, <1>5, SearchesOn
<1>6. CASE OddSegment(f, s + 1, e)
  BY <1>1, <1>6, OddSegmentInv
<1>7. CASE Verdict(f, s, e) = "OK" /\ IsLast(f, s) /\ Opened(f, e)
  BY <1>1, <1>3, <1>7, OpenedInv
<1>8. CASE FinishCurTra(f, file[f], Verdict(f, s, e))
  BY <1>2, <1>8, EndsInPlace
<1> QED BY <1>4, <1>5, <1>6, <1>7, <1>8 DEF SegmentFound

\* The search for a segment.
LEMMA OpenSearchInv ==
  ASSUME IInv, NEW f, Heads(f), file[f].tratype = "OPEN", NEW s, NEW b, b.addr \in Nat,
         NEW l \in Nat, NEW end \in Nat, OpenSearch(f, s, b, l, end),
         mount' = mount, buf'.addr \in Nat
  PROVE  Turn(f)
<1> DEFINE wanted == {a \in DOMAIN Entry : Names(file[f].path[s], Entry[a])}
           stops == Stops(b, l, wanted)
           k == First(stops)
           e == EntryIn(b, k)
<1>1. CASE OpLoad(l, end) /\ Continue(f, file[f], 2, s)
  <2>1. Active'
    BY <1>1, OpLoadIs
  <2> QED BY <2>1, <1>1, SearchesOn
<1>2. CASE Exhausted(b, end) /\ Continue(f, file[f], 2, s)
  <2>1. Active'
    BY <1>2, ExhaustedIs
  <2> QED BY <2>1, <1>2, SearchesOn
<1>3. CASE FinishCurTra(f, file[f], "FILE_NOT_FOUND")
  <2>1. "FILE_NOT_FOUND" \in Results
    BY DEF Results
  <2> QED BY <1>3, <2>1, EndsInPlace
<1>4. CASE stops # {} /\ e.kind # "end" /\ SegmentFound(f, s, b, e)
  <2>1. wanted \subseteq DOMAIN Entry
    OBVIOUS
  <2>2. e.kind = "entry" /\ b.units[k % SectorUnits] \in DOMAIN Entry
    BY <1>4, <2>1, StopsIs
  <2> DEFINE a == b.units[k % SectorUnits]
  <2>3. a \in DOMAIN Entry /\ e = Entry[a]
    BY <2>2 DEF EntryIn
  <2> HIDE DEF a, e
  <2> QED BY <1>4, <2>2, <2>3, SegmentFoundInv
<1> QED BY <1>1, <1>2, <1>3, <1>4 DEF OpenSearch

\* An Open starts.
LEMMA OpenStartInv ==
  ASSUME IInv, NEW f, Heads(f), file[f].tratype = "OPEN", OpenStart(f), UNCHANGED <<buf, mount>>
  PROVE  Turn(f)
<1>1. buf.addr \in Nat /\ buf'.addr \in Nat /\ DataStart \in Nat /\ DataStart + ClusterUnits \in Nat
  BY Sizes DEF IInv, FsysInv
<1>2. CASE OpenSearch(f, 1, buf, DataStart, DataStart + ClusterUnits)
  BY <1>1, <1>2, OpenSearchInv
<1>3. CASE OddSegment(f, 1, Root)
  <2>1. Root.cluster \in Nat /\ Root.size \in Nat
    BY DEF Root
  <2> QED BY <1>1, <1>3, <2>1, OddSegmentInv
<1> QED BY <1>2, <1>3 DEF OpenStart

\* The file has its next place in the directory, and the entry that was found.
Behind(r, ended) == [r EXCEPT !.curlocation = ended.location, !.cluster_end = ended.cluster_end]
Lists(r, fdata)  == [r EXCEPT !.listed = Append(@, fdata)]

\* The result of a Read of a directory.
LEMMA DirResultInv ==
  ASSUME IInv, NEW f, Heads(f), file[f].directory, NEW ended \in OpRecord, DirResult(f, ended),
         mount' = mount, buf'.addr \in Nat
  PROVE  Turn(f)
<1> DEFINE r == Behind(file[f], ended)
           s == Lists(r, ended.fdata)
<1>1. file[f] \in FileRecord
  BY QueueIs DEF IInv
<1>2. /\ ended.location \in Nat /\ ended.cluster_end \in Nat /\ ended.fdata \in Int
      /\ ended.opresult \in Results
  BY DEF OpRecord, Results
<1>3. r \in FileRecord /\ r.directory
  BY <1>1, <1>2 DEF Behind, FileRecord
<1>4. DirResult(f, ended) =
        IF ended.opresult # "OK" THEN FinishCurTra(f, r, ended.opresult)
        ELSE FinishCurTra(f, s, IF r.datalen < FdataSize THEN "INVALID_FDATABUF" ELSE "OK")
  BY DEF DirResult, Behind, Lists
<1> HIDE DEF r
<1>5. s \in FileRecord /\ s.directory
  <2>1. Append(r.listed, ended.fdata) \in Seq(Int)
    BY <1>2, <1>3 DEF FileRecord
  <2> DEFINE listed == Append(r.listed, ended.fdata)
  <2>2. s = [r EXCEPT !.listed = listed]
    BY DEF Lists
  <2> HIDE DEF listed, s
  <2>3. listed \in Seq(Int)
    BY <2>1 DEF listed
  <2> QED BY <1>3, <2>2, <2>3 DEF FileRecord
<1> HIDE DEF s
<1>6. PlaceOK(r) /\ PlaceOK(s)
  BY <1>3, <1>5 DEF PlaceOK
<1>9. \A result : Delivers(file[f], Over(r, result)) /\ Delivers(file[f], Over(s, result))
  <2> TAKE result
  <2>1. Over(r, result).directory /\ Over(s, result).directory
    BY <1>3, <1>5 DEF FileRecord, Over
  <2> QED BY <2>1 DEF Delivers
<1>7. CASE FinishCurTra(f, r, ended.opresult)
  BY <1>2, <1>3, <1>6, <1>7, <1>9, Finished
<1>8. CASE FinishCurTra(f, s, IF r.datalen < FdataSize THEN "INVALID_FDATABUF" ELSE "OK")
  <2> DEFINE result == IF r.datalen < FdataSize THEN "INVALID_FDATABUF" ELSE "OK"
  <2>1. result \in Results
    BY DEF Results
  <2> HIDE DEF result
  <2>2. FinishCurTra(f, s, result)
    BY <1>8 DEF result
  <2> QED BY <2>1, <2>2, <1>5, <1>6, <1>9, Finished
<1> QED BY <1>4, <1>7, <1>8

\* The directory operation ends.
LEMMA DirEndsInv ==
  ASSUME IInv, NEW f, Heads(f), file[f].tratype = "READ", file[f].directory,
         NEW ended \in OpRecord, ended.curop = "IDLE", DirEnds(f, ended),
         mount' = mount, buf'.addr \in Nat
  PROVE  Turn(f)
<1>1. CASE op' = ended /\ stra' = StorIdle /\ Continue(f, file[f], 1, 1)
  <2>1. Good(file[f]) /\ ~file[f].finished
    BY QueueIs DEF IInv
  <2>2. /\ FilesInv' /\ QueueInv' /\ trastate' = 1 /\ tras' # <<>> /\ Head(tras') = f
        /\ file'[f] = file[f] /\ Others(f)
    BY <1>1, <2>1, Continued DEF IInv
  <2>3. op' \in OpRecord /\ op'.curop = "IDLE" /\ stra' \in StorRecord
    BY <1>1 DEF StorIdle, StorRecord
  <2>4. FsysInv'
    BY <2>2, <2>3 DEF FsysInv, IInv
  <2>5. DirReads(file[f])' /\ mount' = "ok"
    BY <1>1, <2>2 DEF DirReads, Continue, Heads
  <2>6. PhaseInv'
    BY <2>2, <2>3, <2>5 DEF PhaseInv, DirReads
  <2> QED BY <2>1, <2>2, <2>4, <2>6 DEF IInv, Turn, Delivers
<1>2. CASE DirResult(f, ended)
  BY <1>2, DirResultInv
<1> QED BY <1>1, <1>2 DEF DirEnds

\* The search for the next entry.
LEMMA DirSearchInv ==
  ASSUME IInv, NEW f, Heads(f), file[f].tratype = "READ", file[f].directory,
         NEW b, b.addr \in Nat, NEW l \in Nat, NEW end \in Nat, DirSearch(f, b, l, end),
         mount' = mount, buf'.addr \in Nat
  PROVE  Turn(f)
<1> DEFINE stops == Stops(b, l, DOMAIN Entry)
           k == First(stops)
           unit == b.units[k % SectorUnits]
<1>1. CASE OpLoad(l, end) /\ Continue(f, file[f], 1, 1)
  <2>1. Active'
    BY <1>1, OpLoadIs
  <2> QED BY <2>1, <1>1, SearchesOn
<1>2. CASE Exhausted(b, end) /\ Continue(f, file[f], 1, 1)
  <2>1. Active'
    BY <1>2, ExhaustedIs
  <2> QED BY <2>1, <1>2, SearchesOn
<1>3. ASSUME NEW result \in {"OK", "EOF"}, NEW fdata \in Int, NEW location \in Nat,
             DirEnds(f, OpEnded(result, fdata, location, end))
      PROVE  Turn(f)
  <2> DEFINE ended == OpEnded(result, fdata, location, end)
  <2>1. ended \in OpRecord /\ ended.curop = "IDLE"
    BY DEF OpEnded, OpRecord
  <2> HIDE DEF ended
  <2>2. DirEnds(f, ended)
    BY <1>3 DEF ended
  <2> QED BY <2>1, <2>2, DirEndsInv
<1>4. CASE stops # {} /\ DirEnds(f, OpEnded("EOF", NoUnit, k, end))
  <2>1. k \in Nat
    BY <1>4, StopsIs
  <2>2. NoUnit \in Int
    BY DEF NoUnit
  <2> HIDE DEF k
  <2> QED BY <1>3, <1>4, <2>1, <2>2
<1>5. CASE stops # {} /\ EntryIn(b, k).kind # "end" /\ DirEnds(f, OpEnded("OK", unit, k + 1, end))
  <2>1. k \in Nat /\ unit \in DOMAIN Entry
    BY <1>5, StopsIs
  <2>2. DataStart .. (DataEnd - 1) \subseteq Int /\ DOMAIN Entry \subseteq DataStart .. (DataEnd - 1)
    BY VolumeAssumption
  <2>3. unit \in Int /\ k + 1 \in Nat
    BY <2>1, <2>2
  <2> HIDE DEF k, unit
  <2> QED BY <1>3, <1>5, <2>3
<1> QED BY <1>1, <1>2, <1>4, <1>5 DEF DirSearch
-----------------------------------------------------------------------------
(* A Read and a Seek of a file keep the invariant. *)

\* Nothing was moved.
LEMMA AdvancedNone ==
  ASSUME NEW r \in FileRecord, NEW a
  PROVE  Advanced(r, 0, a) = r
<1> DEFINE new == [i \in 1 .. 0 |-> a + i - 1]
<1>1. /\ r.curlocation + 0 = r.curlocation /\ r.filepos + 0 = r.filepos
      /\ r.remaining - 0 = r.remaining /\ r.got \in Seq(Nat)
  BY DEF FileRecord
<1>2. new = <<>>
  OBVIOUS
<1>3. r.got \o <<>> = r.got
  BY <1>1
<1> DEFINE got == r.got \o new
<1>4. got = r.got
  BY <1>2, <1>3
<1> HIDE DEF new, got
<1>5. Advanced(r, 0, a) =
        [r EXCEPT !.curlocation = r.curlocation, !.filepos = r.filepos,
                  !.remaining = r.remaining, !.got = r.got]
  BY <1>1, <1>4 DEF Advanced, got, new
<1> QED BY <1>5 DEF FileRecord

\* The record of a Read when its storage transaction has been completed.
Moved == IF trastate = 1 THEN stra.len ELSE 0

\* It is at the place that the data moved so far end at.
LEMMA ReadGoesOn ==
  ASSUME IInv, NEW f, Heads(f), op.curop = "IDLE", file[f].tratype = "READ", ~file[f].directory,
         NEW c \in StorRun, c.errorcode = 0
  PROVE  LET r == Advanced(file[f], Moved, stra.address)
         IN /\ Good(r) /\ ~r.finished /\ r.tratype = "READ" /\ ~r.directory
            /\ r.from = file[f].from /\ r.datalen = file[f].datalen
            /\ trastate = 5 =>
                 /\ Chunk(r) = 0 /\ r.remaining # 0
                 /\ AddrToCluster(r.curlocation) - 1 \in DOMAIN Fat =>
                      c.next = Fat[AddrToCluster(r.curlocation) - 1]
<1> DEFINE o == file[f]
           r == Advanced(o, Moved, stra.address)
<1>1. Good(o) /\ o \in FileRecord /\ ~o.finished
  BY QueueIs DEF IInv
<1>2. trastate = 0 \/ ReadsChunk(o) \/ ReadsFat(o)
  BY DEF IInv, PhaseInv, DirReads, SeeksFat, Heads
<1>3. CASE ReadsChunk(o)
  <2>1. Chunk(o) \in Nat /\ o.curlocation \in Nat
    BY <1>1, ChunkIs DEF FileRecord
  <2>2. Moved = Chunk(o) /\ stra.address = o.curlocation /\ trastate # 5
    BY <1>3 DEF Moved, ReadsChunk, StorRead
  <2> HIDE DEF o
  <2>3. Good(Advanced(o, Chunk(o), o.curlocation))
    BY <2>1, <1>1, AdvancedGood DEF o
  <2>4. r = Advanced(o, Chunk(o), o.curlocation)
    BY <2>2
  <2>5. ~r.finished /\ r.tratype = "READ" /\ ~r.directory /\ r.from = o.from /\ r.datalen = o.datalen
    BY <1>1, <2>4 DEF FileRecord, Advanced, o
  <2> QED BY <2>2, <2>3, <2>4, <2>5 DEF o
<1>4. CASE ~(trastate = 1)
  <2>1. Moved = 0
    BY <1>4 DEF Moved
  <2>2. r = o
    BY <1>1, <2>1, AdvancedNone
  <2>3. trastate = 5 => ReadsFat(o)
    BY <1>2, <1>4 DEF ReadsChunk
  <2>4. ASSUME trastate = 5
        PROVE  /\ Chunk(o) = 0 /\ o.remaining # 0
               /\ AddrToCluster(o.curlocation) - 1 \in DOMAIN Fat =>
                    c.next = Fat[AddrToCluster(o.curlocation) - 1]
    <3>1. /\ Chunk(o) = 0 /\ o.remaining # 0 /\ ~stra.completed /\ stra.dst = "next_cluster"
          /\ stra.address = AddrToCluster(o.curlocation) - 1
      BY <2>3, <2>4 DEF ReadsFat, FindNextCluster, StorRead
    <3> QED BY <3>1, StorRunIs
  <2> HIDE DEF o, r
  <2> QED BY <1>1, <2>2, <2>4 DEF o, r
<1> QED BY <1>2, <1>3, <1>4 DEF ReadsFat

\* The next chunk, or the next cluster.
LEMMA ReadChunkInv ==
  ASSUME IInv, NEW f, Heads(f), op.curop = "IDLE", NEW r, Good(r), ~r.finished,
         r.tratype = "READ", ~r.directory, r.remaining # 0, ReadChunk(f, r), UNCHANGED <<buf, mount>>
  PROVE  Turn(f)
<1>1. r \in FileRecord
  BY DEF Good
<1>2. r.curlocation \in Nat /\ Chunk(r) \in Nat /\ AddrToCluster(r.curlocation) - 1 \in Int
  <2>1. r.curlocation \in Nat
    BY <1>1 DEF FileRecord
  <2>2. AddrToCluster(r.curlocation) \in Nat
    BY <2>1, PlaceTypes, Zenon
  <2> QED BY <1>1, <2>1, <2>2, ChunkIs
<1>3. \E state \in {1, 5} : Continue(f, r, state, 1)
  BY DEF ReadChunk
<1>4. PICK state \in {1, 5} : Continue(f, r, state, 1)
  BY <1>3
<1>5. /\ FilesInv' /\ QueueInv' /\ trastate' = state /\ tras' # <<>> /\ Head(tras') = f
      /\ file'[f] = r /\ Others(f)
  BY <1>4, Continued DEF IInv
<1>6. (ReadsChunk(r) \/ ReadsFat(r))' /\ stra' \in StorRecord
  <2>1. CASE stra' = StorRead("file", r.curlocation, Chunk(r)) /\ Continue(f, r, 1, 1)
    <3>1. stra' \in StorRecord
      BY <2>1, <1>2 DEF StorRead, StorRecord
    <3>2. trastate' = 1
      BY <2>1 DEF Continue
    <3> QED BY <2>1, <3>1, <3>2 DEF ReadsChunk
  <2>2. CASE /\ Chunk(r) = 0 /\ stra' = FindNextCluster(AddrToCluster(r.curlocation) - 1)
             /\ Continue(f, r, 5, 1)
    <3>1. stra' \in StorRecord
      BY <2>2, <1>2 DEF FindNextCluster, StorRead, StorRecord
    <3>2. trastate' = 5
      BY <2>2 DEF Continue
    <3> QED BY <2>2, <3>1, <3>2 DEF ReadsFat
  <2> QED BY <2>1, <2>2 DEF ReadChunk
<1>7. op' = op /\ buf' = buf /\ mount' = mount /\ mount = "ok"
  BY DEF ReadChunk, Heads
<1>8. FsysInv'
  BY <1>5, <1>6, <1>7 DEF FsysInv, IInv
<1>9. PhaseInv'
  BY <1>5, <1>6, <1>7 DEF PhaseInv, ReadsChunk, ReadsFat
<1> QED BY <1>5, <1>8, <1>9 DEF IInv, Turn, Delivers

\* A Read that ends with all that it was to deliver.
LEMMA ReadDelivers ==
  ASSUME NEW old, NEW r, Good(r), ~r.finished, r.tratype = "READ", ~r.directory, r.remaining = 0,
         r.from = old.from, r.datalen = old.datalen
  PROVE  Delivers(old, Over(r, "OK"))
<1> DEFINE t == Over(r, "OK")
           n == IF old.from + old.datalen > t.size THEN t.size - old.from ELSE old.datalen
<1>1. r \in FileRecord
  BY DEF Good
<1>2. /\ t.size = r.size /\ t.filepos = r.filepos /\ t.got = r.got /\ t.location = r.location
      /\ t.strayed = r.strayed
  BY <1>1 DEF Over, FileRecord
<1>3. /\ r.filepos \in Nat /\ r.from \in Nat /\ r.datalen \in Nat /\ r.size \in Nat /\ r.got \in Seq(Nat)
  BY <1>1 DEF FileRecord
<1>4. n = ToRead(r) /\ n \in Int
  BY <1>2, <1>3 DEF ToRead
<1>5. r.filepos + r.remaining = r.from + ToRead(r) /\ GotData(r)
  BY DEF Good, ReadOK
<1>6. r.filepos = r.from + n
  BY <1>3, <1>4, <1>5
<1>7. Len(r.got) = n
  BY <1>3, <1>4, <1>5, <1>6 DEF GotData
<1>8. ASSUME ~r.strayed
      PROVE  r.got = [i \in 1 .. n |-> DataAt(AddrToCluster(r.location), r.from + i - 1)]
  <2>1. \A i \in 1 .. n : r.got[i] = DataAt(AddrToCluster(r.location), r.from + i - 1)
    BY <1>5, <1>7, <1>8 DEF GotData
  <2> HIDE DEF n
  <2>2. r.got = [i \in 1 .. n |-> r.got[i]]
    BY <1>3, <1>7
  <2> QED BY <2>1, <2>2
<1> HIDE DEF t, n
<1>9. t.filepos = old.from + n
  BY <1>2, <1>6
<1>10. ~t.strayed => t.got = [i \in 1 .. n |-> DataAt(AddrToCluster(t.location), old.from + i - 1)]
  BY <1>2, <1>8
<1> QED BY <1>9, <1>10 DEF Delivers, t, n

\* A Read of a file.
LEMMA FileReadInv ==
  ASSUME IInv, NEW f, Heads(f), op.curop = "IDLE", file[f].tratype = "READ", ~file[f].directory,
         NEW c \in StorRun, c.errorcode = 0, FileRead(f, c.next), UNCHANGED <<buf, mount>>
  PROVE  Turn(f)
<1> DEFINE r == Advanced(file[f], Moved, stra.address)
<1>1. /\ Good(r) /\ ~r.finished /\ r.tratype = "READ" /\ ~r.directory
      /\ r.from = file[f].from /\ r.datalen = file[f].datalen
      /\ trastate = 5 =>
           /\ Chunk(r) = 0 /\ r.remaining # 0
           /\ AddrToCluster(r.curlocation) - 1 \in DOMAIN Fat =>
                c.next = Fat[AddrToCluster(r.curlocation) - 1]
  BY ReadGoesOn
<1>2. \/ r.remaining = 0 /\ FinishCurTra(f, r, "OK")
      \/ r.remaining # 0 /\ trastate # 5 /\ ReadChunk(f, r)
      \/ /\ r.remaining # 0 /\ trastate = 5
         /\ IF EndOfChain(c.next) THEN FinishCurTra(f, r, "EOF")
            ELSE ReadChunk(f, Enters(r, c.next))
  BY DEF FileRead, Advanced, Moved, Enters
<1> HIDE DEF r
<1>3. r \in FileRecord /\ PlaceOK(r) /\ buf'.addr \in Nat /\ mount' = mount
  BY <1>1 DEF Good, IInv, FsysInv
<1>4. CASE r.remaining = 0 /\ FinishCurTra(f, r, "OK")
  <2>1. Delivers(file[f], Over(r, "OK")) /\ "OK" \in Results
    BY <1>1, <1>4, ReadDelivers DEF Results
  <2> QED BY <1>3, <1>4, <2>1, Finished
<1>5. CASE r.remaining # 0 /\ ReadChunk(f, r)
  BY <1>1, <1>5, ReadChunkInv
<1>6. CASE FinishCurTra(f, r, "EOF")
  <2>1. Over(r, "EOF").result = "EOF" /\ "EOF" \in Results
    BY <1>3 DEF FileRecord, Over, Results
  <2>2. Delivers(file[f], Over(r, "EOF"))
    BY <2>1 DEF Delivers
  <2> QED BY <1>3, <1>6, <2>1, <2>2, Finished
<1>7. CASE r.remaining # 0 /\ trastate = 5 /\ ReadChunk(f, Enters(r, c.next))
  <2> DEFINE t == Enters(r, c.next)
  <2>1. c.next \in Nat
    BY StorRunIs
  <2>2. Good(t)
    BY <1>1, <1>7, <2>1, EntersGood
  <2>3. ~t.finished /\ t.tratype = "READ" /\ ~t.directory /\ t.remaining # 0
    BY <1>1, <1>3, <1>7 DEF FileRecord, Enters
  <2>4. ReadChunk(f, t)
    BY <1>7
  <2> HIDE DEF t
  <2> QED BY <2>2, <2>3, <2>4, ReadChunkInv
<1> QED BY <1>2, <1>4, <1>5, <1>6, <1>7

\* The walk of a Seek.
LEMMA SeekWalkInv ==
  ASSUME IInv, NEW f, Heads(f), op.curop = "IDLE", file[f].tratype = "SEEK",
         NEW r, Good(r), ~r.finished, r.tratype = "SEEK", SeekWalk(f, r), UNCHANGED <<buf, mount>>
  PROVE  Turn(f)
<1>1. r \in FileRecord
  BY DEF Good
<1>2. r.filepos \in Nat /\ r.targetpos \in Nat /\ r.curlocation \in Nat /\ ClusterUnits \in Nat
  BY <1>1, Sizes DEF FileRecord
<1>3. CASE r.filepos + ClusterUnits >= r.targetpos
  <2> DEFINE t == Arrives(r)
  <2>1. t \in FileRecord /\ PlaceOK(t)
    BY <1>3, ArrivesGood
  <2>2. FinishCurTra(f, t, "OK")
    BY <1>3 DEF SeekWalk, Arrives
  <2>3. Delivers(file[f], Over(t, "OK")) /\ "OK" \in Results
    BY DEF Delivers, Results
  <2>4. buf'.addr \in Nat /\ mount' = mount
    BY DEF IInv, FsysInv
  <2> HIDE DEF t
  <2> QED BY <2>1, <2>2, <2>3, <2>4, Finished
<1>4. CASE ~(r.filepos + ClusterUnits >= r.targetpos)
  <2>1. /\ stra' = FindNextCluster(AddrToCluster(r.curlocation)) /\ op' = op
        /\ Continue(f, r, 5, 1)
    BY <1>4 DEF SeekWalk
  <2>2. /\ FilesInv' /\ QueueInv' /\ trastate' = 5 /\ tras' # <<>> /\ Head(tras') = f
        /\ file'[f] = r /\ Others(f)
    BY <2>1, Continued DEF IInv
  <2>3. stra' \in StorRecord
    <3>1. AddrToCluster(r.curlocation) \in Nat
      BY <1>2, PlaceTypes, Zenon
    <3> QED BY <2>1, <3>1 DEF FindNextCluster, StorRead, StorRecord
  <2>4. r.filepos + ClusterUnits < r.targetpos
    BY <1>2, <1>4
  <2>5. SeeksFat(r)'
    BY <2>1, <2>2, <2>4 DEF SeeksFat
  <2>6. FsysInv'
    BY <2>1, <2>2, <2>3 DEF FsysInv, IInv
  <2>7. PhaseInv'
    BY <2>1, <2>2, <2>5 DEF PhaseInv, Heads, SeeksFat
  <2> QED BY <2>2, <2>6, <2>7 DEF IInv, Turn, Delivers
<1> QED BY <1>3, <1>4

\* A Seek of a file.
LEMMA FileSeekInv ==
  ASSUME IInv, NEW f, Heads(f), op.curop = "IDLE", file[f].tratype = "SEEK",
         NEW c \in StorRun, c.errorcode = 0, FileSeek(f, c.next), UNCHANGED <<buf, mount>>
  PROVE  Turn(f)
<1> DEFINE r == file[f]
<1>1. Good(r) /\ r \in FileRecord /\ ~r.finished
  BY QueueIs DEF IInv
<1>2. CASE trastate # 5
  <2>1. SeekWalk(f, r)
    BY <1>2 DEF FileSeek
  <2> QED BY <1>1, <2>1, SeekWalkInv
<1>3. CASE trastate = 5 /\ EndOfChain(c.next)
  <2>1. FinishCurTra(f, file[f], "EOF") /\ "EOF" \in Results
    BY <1>3 DEF FileSeek, Results
  <2>2. buf'.addr \in Nat /\ mount' = mount
    BY DEF IInv, FsysInv
  <2> QED BY <2>1, <2>2, EndsInPlace
<1>4. CASE trastate = 5 /\ ~EndOfChain(c.next)
  <2>1. SeeksFat(r)
    BY <1>4 DEF IInv, PhaseInv, DirReads, ReadsChunk, ReadsFat, Heads
  <2>2. /\ r.filepos + ClusterUnits < r.targetpos /\ ~stra.completed /\ stra.dst = "next_cluster"
        /\ stra.address = AddrToCluster(r.curlocation)
    BY <2>1 DEF SeeksFat, FindNextCluster, StorRead
  <2>3. c.next \in Nat /\ (AddrToCluster(r.curlocation) \in DOMAIN Fat =>
                             c.next = Fat[AddrToCluster(r.curlocation)])
    BY <2>2, StorRunIs
  <2>4. SeekWalk(f, Steps(r, c.next))
    BY <1>4 DEF FileSeek, Steps
  <2> DEFINE t == Steps(r, c.next)
  <2>5. Good(t)
    BY <1>1, <2>2, <2>3, StepsGood
  <2>6. ~t.finished /\ t.tratype = "SEEK"
    BY <1>1 DEF FileRecord, Steps
  <2> HIDE DEF t
  <2> QED BY <2>4, <2>5, <2>6, SeekWalkInv DEF t
<1> QED BY <1>2, <1>3, <1>4
-----------------------------------------------------------------------------
(* Every call keeps the invariant. *)

\* Run, with an operation under way.
LEMMA RunOpInv ==
  ASSUME IInv, NEW f, f = Head(tras), RunOp
  PROVE  Turn(f)
<1>1. Heads(f) /\ op.curop # "IDLE"
  BY DEF RunOp, Heads, IInv, PhaseInv
<1>2. PICK c \in StorRun :
        LET b == BufAfter(c)
            start == ClusterToAddr(c.next)
        IN /\ buf' = b
           /\ \/ /\ c.errorcode # 0
                 /\ OpFails(f)
              \/ /\ c.errorcode = 0 /\ op.opstate # 5
                 /\ OpContinues(f, b, op.location, op.cluster_end)
              \/ /\ c.errorcode = 0 /\ op.opstate = 5
                 /\ IF EndOfChain(c.next) THEN ChainEnds(f)
                                          ELSE OpContinues(f, b, start, start + ClusterUnits)
  BY DEF RunOp
<1>3. mount' = mount
  BY DEF RunOp
<1>4. op \in OpRecord /\ op.location \in Nat /\ op.cluster_end \in Nat /\ buf.addr \in Nat
  BY DEF IInv, FsysInv, OpRecord
<1> DEFINE b == BufAfter(c)
<1>5. b.addr \in Nat /\ buf' = b
  BY <1>2, <1>4, SectorTypes DEF BufAfter
<1>6. Stuck \/ Searches(file[f])
  BY <1>1 DEF IInv, PhaseInv, Heads
<1>7. c.next \in Nat /\ (stra.completed => c.errorcode = 0 /\ c.next = 0)
  BY StorRunIs
<1>8. ASSUME ~Stuck, NEW l \in Nat, NEW end \in Nat, OpContinues(f, b, l, end)
      PROVE  Turn(f)
  <2>1. CASE file[f].tratype = "OPEN" /\ OpenSearch(f, seg, b, l, end)
    BY <2>1, <1>1, <1>3, <1>5, OpenSearchInv
  <2>2. CASE file[f].tratype = "READ" /\ DirSearch(f, b, l, end)
    <3>1. file[f].directory
      BY <2>2, <1>6, <1>8 DEF Searches, DirReads
    <3> QED BY <2>2, <3>1, <1>1, <1>3, <1>5, DirSearchInv
  <2> QED BY <1>8, <2>1, <2>2 DEF OpContinues
<1>9. CASE c.errorcode # 0 /\ OpFails(f)
  <2>1. Searches(file[f])
    BY <1>6, <1>7, <1>9 DEF Stuck
  <2>2. CASE FinishCurTra(f, file[f], "IOERROR")
    <3>1. "IOERROR" \in Results
      BY DEF Results
    <3> QED BY <2>2, <3>1, <1>1, <1>3, <1>5, EndsInPlace
  <2>3. CASE file[f].tratype # "OPEN" /\ DirResult(f, OpEnded("IOERROR", NoUnit, op.location, op.cluster_end))
    <3>1. file[f].directory
      BY <2>1, <2>3 DEF Searches, DirReads
    <3> DEFINE ended == OpEnded("IOERROR", NoUnit, op.location, op.cluster_end)
    <3>2. ended \in OpRecord
      BY <1>4 DEF OpEnded, OpRecord, NoUnit
    <3> HIDE DEF ended
    <3>3. DirResult(f, ended)
      BY <2>3 DEF ended
    <3> QED BY <3>1, <3>2, <3>3, <1>1, <1>3, <1>5, DirResultInv
  <2> QED BY <1>9, <2>2, <2>3 DEF OpFails
<1>10. CASE c.errorcode = 0 /\ op.opstate # 5 /\ OpContinues(f, b, op.location, op.cluster_end)
  BY <1>4, <1>8, <1>10 DEF Stuck
<1>11. CASE op.opstate = 5 /\ ChainEnds(f)
  <2> DEFINE r == file[f]
  <2>1. Unchain(f, r, "EOF") /\ op' = op /\ stra' = [stra EXCEPT !.completed = TRUE]
    BY <1>11 DEF ChainEnds
  <2>2. r \in FileRecord /\ PlaceOK(r) /\ "EOF" \in Results
    BY <1>1, QueueIs DEF IInv, Good, Results
  <2>3. FilesInv' /\ QueueInv' /\ trastate' = 0 /\ file'[f] = Over(r, "EOF") /\ Others(f)
    BY <2>1, <2>2, <1>1, Unchained DEF IInv
  <2>4. stra \in StorRecord
    BY DEF IInv, FsysInv
  <2>5. stra' \in StorRecord /\ stra'.completed
    BY <2>1, <2>4 DEF StorRecord
  <2>6. FsysInv'
    BY <2>1, <2>3, <2>5, <1>3, <1>5 DEF IInv, FsysInv
  <2>7. Stuck'
    BY <2>1, <2>3, <2>5, <1>11 DEF Stuck
  <2>8. PhaseInv'
    BY <2>1, <2>3, <2>7, <1>1, <1>3 DEF PhaseInv, Heads
  <2>9. Over(r, "EOF").result = "EOF"
    BY <2>2 DEF FileRecord, Over
  <2>10. Delivers(r, file'[f])
    BY <2>3, <2>9 DEF Delivers
  <2> QED BY <2>3, <2>6, <2>8, <2>10 DEF IInv, Turn
<1>12. CASE /\ op.opstate = 5 /\ ~EndOfChain(c.next)
            /\ OpContinues(f, b, ClusterToAddr(c.next), ClusterToAddr(c.next) + ClusterUnits)
  <2> DEFINE start == ClusterToAddr(c.next)
  <2>1. start \in Nat
    BY <1>7, PlaceTypes, Zenon
  <2>2. start + ClusterUnits \in Nat
    BY <2>1, Sizes
  <2>3. ~Stuck
    <3>1. EndOfChain(0)
      BY DEF EndOfChain
    <3> QED BY <3>1, <1>7, <1>12 DEF Stuck
  <2> HIDE DEF start
  <2>4. OpContinues(f, b, start, start + ClusterUnits)
    BY <1>12 DEF start
  <2> QED BY <2>1, <2>2, <2>3, <2>4, <1>8
<1> QED BY <1>2, <1>9, <1>10, <1>11, <1>12

\* Run, with no operation under way.
LEMMA RunTransactionInv ==
  ASSUME IInv, NEW f, f = Head(tras), RunTransaction
  PROVE  Turn(f)
<1>1. Heads(f) /\ op.curop = "IDLE" /\ UNCHANGED <<buf, mount>>
  BY DEF RunTransaction, Heads
<1>2. PICK c \in StorRun :
        \/ c.errorcode # 0 /\ FinishCurTra(f, file[f], "IOERROR")
        \/ c.errorcode = 0 /\ HandleTransaction(f, c.next)
  BY DEF RunTransaction
<1>3. buf.addr \in Nat /\ buf'.addr \in Nat /\ mount' = mount /\ op \in OpRecord
  BY <1>1 DEF IInv, FsysInv
<1>4. CASE FinishCurTra(f, file[f], "IOERROR")
  <2>1. "IOERROR" \in Results
    BY DEF Results
  <2> QED BY <1>1, <1>3, <1>4, <2>1, EndsInPlace
<1>5. CASE c.errorcode = 0 /\ HandleTransaction(f, c.next)
  <2>1. CASE file[f].tratype = "OPEN" /\ OpenStart(f)
    BY <2>1, <1>1, OpenStartInv
  <2>2. CASE file[f].tratype = "READ" /\ file[f].directory /\ DirReadStart(f)
    <3>1. file[f].curlocation \in Nat /\ file[f].cluster_end \in Nat
      <4>1. file[f] \in FileRecord
        BY <1>1, QueueIs DEF IInv
      <4> QED BY <4>1 DEF FileRecord
    <3>2. DirSearch(f, buf, file[f].curlocation, file[f].cluster_end)
      BY <2>2 DEF DirReadStart
    <3> QED BY <2>2, <3>1, <3>2, <1>1, <1>3, DirSearchInv
  <2>3. CASE file[f].tratype = "READ" /\ file[f].directory /\ DirResult(f, op)
    BY <2>3, <1>1, <1>3, DirResultInv
  <2>4. CASE file[f].tratype = "READ" /\ ~file[f].directory /\ FileRead(f, c.next)
    BY <2>4, <1>1, <1>5, FileReadInv
  <2>5. CASE file[f].tratype = "SEEK" /\ FileSeek(f, c.next)
    BY <2>5, <1>1, <1>5, FileSeekInv
  <2> QED BY <1>5, <2>1, <2>2, <2>3, <2>4, <2>5 DEF HandleTransaction
<1> QED BY <1>2, <1>4, <1>5

\* Run, while the volume is not mounted.
LEMMA RunInitInv ==
  ASSUME IInv, RunInit
  PROVE  IInv' /\ file' = file
<1>1. UNCHANGED <<file, tras, trastate, seg, op, buf>> /\ mount # "ok"
  BY DEF RunInit
<1>2. mount' \in {"unread", "reading", "ok", "bad"} /\ stra' \in StorRecord
  <2>1. StorRead("boot", 0, SectorUnits) \in StorRecord /\ StorIdle \in StorRecord
    BY Sizes DEF StorRead, StorIdle, StorRecord
  <2> QED BY <2>1 DEF RunInit
<1>3. FilesInv' /\ QueueInv'
  BY <1>1 DEF IInv, FilesInv, QueueInv
<1>4. FsysInv'
  BY <1>1, <1>2 DEF IInv, FsysInv
<1>5. PhaseInv'
  BY <1>1 DEF IInv, PhaseInv
<1> QED BY <1>1, <1>3, <1>4, <1>5 DEF IInv

\* A call of a client that ends at once.
LEMMA EndsInv ==
  ASSUME IInv, NEW f \in File, file[f].finished, NEW r \in FileRecord, PlaceOK(r),
         NEW result \in Results, Ends(f, r, result), UNCHANGED fsys
  PROVE  Turn(f)
<1>1. file' = [file EXCEPT ![f] = Over(r, result)] /\ tras' = tras
  BY DEF Ends, FinishTra, Over
<1>2. Good(Over(r, result))
  BY OverGood
<1>3. FilesInv' /\ Others(f)
  BY <1>1, <1>2, FilesSet DEF IInv
<1>4. \A i \in 1 .. Len(tras) : tras[i] \in File /\ tras[i] # f
  BY DEF IInv, QueueInv
<1>5. QueueInv'
  BY <1>1, <1>3, <1>4 DEF IInv, QueueInv, Others
<1>6. FsysInv' /\ UNCHANGED <<trastate, op, stra, mount>>
  BY DEF IInv, FsysInv, fsys
<1>7. tras # <<>> => file'[Head(tras)] = file[Head(tras)]
  <2>1. tras # <<>> => 1 \in 1 .. Len(tras) /\ Head(tras) = tras[1]
    BY DEF IInv, QueueInv
  <2> QED BY <2>1, <1>3, <1>4 DEF Others
<1>8. PhaseInv'
  <2>1. tras = <<>> => trastate = 0
    BY DEF IInv, PhaseInv
  <2>2. CASE tras = <<>>
    BY <2>1, <2>2, <1>1, <1>6 DEF IInv, PhaseInv, Stuck
  <2>3. CASE tras # <<>>
    BY <2>3, <1>1, <1>6, <1>7 DEF IInv, PhaseInv, Stuck, Searches, DirReads, ReadsChunk, ReadsFat, SeeksFat
  <2> QED BY <2>2, <2>3
<1> QED BY <1>3, <1>5, <1>6, <1>8 DEF IInv, Turn, Delivers

\* A call of a client that puts its transaction into the queue.
LEMMA AddsInv ==
  ASSUME IInv, NEW f \in File, file[f].finished, NEW r, NEW type, Good(Starts(r, type)),
         ~Starts(r, type).finished, AddTransaction(f, r, type), UNCHANGED fsys
  PROVE  Turn(f)
<1>1. file' = [file EXCEPT ![f] = Starts(r, type)] /\ tras' = Append(tras, f)
  BY DEF AddTransaction, Starts
<1>2. FilesInv' /\ Others(f) /\ file'[f] = Starts(r, type)
  BY <1>1, FilesSet DEF IInv
<1>3. tras \in Seq(File) /\ Len(tras) \in Nat
  BY DEF IInv, QueueInv
<1>4. \A i \in 1 .. Len(tras) : tras[i] \in File /\ tras[i] # f /\ ~file'[tras[i]].finished
  BY <1>2 DEF IInv, QueueInv, Others
<1>5. /\ tras' \in Seq(File) /\ Len(tras') = Len(tras) + 1 /\ tras'[Len(tras) + 1] = f
      /\ \A i \in 1 .. Len(tras) : tras'[i] = tras[i]
  BY <1>1, <1>3
<1>6. QueueInv'
  <2>1. \A i \in 1 .. Len(tras') : i \in 1 .. Len(tras) \/ i = Len(tras) + 1
    BY <1>3, <1>5
  <2>2. \A i \in 1 .. Len(tras') : ~file'[tras'[i]].finished
    BY <2>1, <1>2, <1>4, <1>5
  <2>3. ASSUME NEW i \in 1 .. Len(tras'), NEW j \in 1 .. Len(tras'), tras'[i] = tras'[j]
        PROVE  i = j
    BY <2>1, <2>3, <1>4, <1>5 DEF IInv, QueueInv
  <2> QED BY <2>2, <2>3, <1>5 DEF QueueInv
<1>7. FsysInv' /\ UNCHANGED <<trastate, op, stra, mount>>
  BY DEF IInv, FsysInv, fsys
<1>8. tras' # <<>>
  BY <1>3, <1>5
<1>9. PhaseInv'
  <2>1. CASE tras = <<>>
    <3>1. trastate = 0 /\ (op.curop # "IDLE" => Stuck)
      BY <2>1 DEF IInv, PhaseInv
    <3> QED BY <3>1, <1>7, <1>8 DEF IInv, PhaseInv, Stuck
  <2>2. CASE tras # <<>>
    <3>1. Head(tras') = Head(tras) /\ file'[Head(tras)] = file[Head(tras)]
      <4>1. 1 \in 1 .. Len(tras) /\ Head(tras) = tras[1] /\ Head(tras') = tras'[1]
        BY <2>2, <1>3, <1>5, <1>8
      <4> QED BY <4>1, <1>2, <1>4, <1>5 DEF Others
    <3> QED BY <2>2, <3>1, <1>7, <1>8 DEF IInv, PhaseInv, Stuck, Searches, DirReads, ReadsChunk, ReadsFat, SeeksFat
  <2> QED BY <2>1, <2>2
<1> QED BY <1>2, <1>6, <1>7, <1>9 DEF IInv, Turn, Delivers

\* An Open is put into the queue.
LEMMA OpenInv ==
  ASSUME IInv, NEW f \in File, NEW path \in Paths[f], Open(f, path)
  PROVE  Turn(f)
<1>1. file[f] \in FileRecord /\ file[f].finished /\ UNCHANGED fsys
  BY DEF IInv, FilesInv, Open
<1> DEFINE r == Opening(file[f], path)
<1>2. AddTransaction(f, r, "OPEN")
  BY DEF Open, Opening
<1>3. Good(Starts(r, "OPEN"))
  BY <1>1, OpenGood
<1> HIDE DEF r
<1>4. ~Starts(r, "OPEN").finished
  BY <1>3 DEF Good, FileRecord, Starts
<1> QED BY <1>1, <1>2, <1>3, <1>4, AddsInv

\* A Read is put into the queue when the file is open.
LEMMA ReadInv ==
  ASSUME IInv, NEW f \in File, NEW len \in Lengths, Read(f, len)
  PROVE  Turn(f)
<1> DEFINE r == file[f]
           cut == ~r.directory /\ r.filepos + len > r.size
           pos == IF cut /\ r.filepos > r.size THEN r.size ELSE r.filepos
           left == IF cut THEN r.size - pos ELSE len
           s == [r EXCEPT !.datalen = len, !.got = <<>>]
<1>1. r \in FileRecord /\ PlaceOK(r) /\ r.finished /\ UNCHANGED fsys /\ len \in Nat
  BY ClientAssumption DEF IInv, FilesInv, Good, Read
<1>2. \/ ~r.opened /\ Ends(f, s, "FILE_NOT_OPEN")
      \/ r.opened /\ AddTransaction(f, Reading(r, len, pos, left), "READ")
  BY DEF Read, Reading
<1>3. CASE Ends(f, s, "FILE_NOT_OPEN")
  <2>1. <<>> \in Seq(Nat)
    OBVIOUS
  <2>2. s \in FileRecord
    BY <1>1, <2>1 DEF FileRecord
  <2>3. SamePlace(s, r)
    BY <1>1 DEF FileRecord, SamePlace
  <2> HIDE DEF s
  <2>4. PlaceOK(s) /\ "FILE_NOT_OPEN" \in Results
    BY <1>1, <2>3, PlaceSame DEF Results
  <2> QED BY <1>1, <1>3, <2>2, <2>4, EndsInv
<1>4. CASE r.opened /\ AddTransaction(f, Reading(r, len, pos, left), "READ")
  <2>1. Good(Starts(Reading(r, len, pos, left), "READ"))
    BY <1>1, <1>4, ReadGood
  <2> DEFINE t == Reading(r, len, pos, left)
  <2>2. Good(Starts(t, "READ")) /\ AddTransaction(f, t, "READ")
    BY <2>1, <1>4
  <2> HIDE DEF t
  <2>3. ~Starts(t, "READ").finished
    BY <2>2 DEF Good, FileRecord, Starts
  <2> QED BY <1>1, <2>2, <2>3, AddsInv
<1> QED BY <1>2, <1>3, <1>4

\* A Seek ends at once, or is put into the queue.
LEMMA SeekInv ==
  ASSUME IInv, NEW f \in File, NEW pos \in Positions, Seek(f, pos)
  PROVE  Turn(f)
<1> DEFINE r == [file[f] EXCEPT !.got = <<>>]
<1>1. file[f] \in FileRecord /\ PlaceOK(file[f]) /\ UNCHANGED fsys /\ pos \in Nat
  BY ClientAssumption DEF IInv, FilesInv, Good, Seek
<1>2. r \in FileRecord
  <2>1. <<>> \in Seq(Nat)
    OBVIOUS
  <2> QED BY <1>1, <2>1 DEF FileRecord
<1>3. SamePlace(r, file[f]) /\ r.finished = file[f].finished
  BY <1>1 DEF FileRecord, SamePlace
<1>4. /\ r.finished /\ ~r.directory
      /\ \/ r.opened /\ pos <= r.size /\ SeekInCluster(f, r, pos)
         \/ r.opened /\ pos <= r.size /\ SeekFromStart(f, r, pos)
         \/ Ends(f, r, "FILE_NOT_OPEN")
         \/ Ends(f, r, "SEEK_BEYOND_EOF")
  BY DEF Seek
<1> HIDE DEF r
<1>5. PlaceOK(r) /\ file[f].finished
  BY <1>1, <1>3, <1>4, PlaceSame
<1>6. {"OK", "FILE_NOT_OPEN", "SEEK_BEYOND_EOF"} \subseteq Results
  BY DEF Results
<1>7. CASE r.opened /\ pos <= r.size /\ SeekInCluster(f, r, pos)
  <2> DEFINE t == InCluster(r, pos)
  <2>1. StartOf(pos) = StartOf(r.filepos) /\ Ends(f, t, "OK")
    BY <1>7 DEF SeekInCluster, InCluster
  <2>2. t \in FileRecord /\ PlaceOK(t)
    BY <1>1, <1>2, <1>4, <1>5, <1>7, <2>1, InClusterGood
  <2> HIDE DEF t
  <2> QED BY <1>1, <1>5, <1>6, <2>1, <2>2, EndsInv
<1>8. CASE r.opened /\ pos <= r.size /\ SeekFromStart(f, r, pos)
  <2>1. IF pos < ClusterUnits THEN Ends(f, InFirst(FromStart(r, pos), pos), "OK")
                              ELSE AddTransaction(f, FromStart(r, pos), "SEEK")
    BY <1>8 DEF SeekFromStart, FromStart, InFirst
  <2>2. CASE pos < ClusterUnits
    <3> DEFINE t == InFirst(FromStart(r, pos), pos)
    <3>1. t \in FileRecord /\ PlaceOK(t)
      BY <1>1, <1>2, <1>4, <1>5, <1>8, <2>2, InFirstGood
    <3>2. Ends(f, t, "OK")
      BY <2>1, <2>2
    <3> HIDE DEF t
    <3> QED BY <1>1, <1>5, <1>6, <3>1, <3>2, EndsInv
  <2>3. CASE ~(pos < ClusterUnits)
    <3> DEFINE t == FromStart(r, pos)
    <3>1. Good(Starts(t, "SEEK"))
      BY <1>1, <1>2, <1>4, <1>5, <1>8, <2>3, FromStartGood
    <3>2. AddTransaction(f, t, "SEEK")
      BY <2>1, <2>3
    <3> HIDE DEF t
    <3>3. ~Starts(t, "SEEK").finished
      BY <3>1 DEF Good, FileRecord, Starts
    <3> QED BY <1>1, <1>5, <3>1, <3>2, <3>3, AddsInv
  <2> QED BY <2>2, <2>3
<1>9. CASE Ends(f, r, "FILE_NOT_OPEN")
  BY <1>1, <1>2, <1>5, <1>6, <1>9, EndsInv
<1>10. CASE Ends(f, r, "SEEK_BEYOND_EOF")
  BY <1>1, <1>2, <1>5, <1>6, <1>10, EndsInv
<1> QED BY <1>4, <1>7, <1>8, <1>9, <1>10

\* What one call does: no Read that ends with success has delivered anything else.
Delivered == \A f \in File : Delivers(file[f], file'[f])

\* One step of the system.
LEMMA NextInv ==
  ASSUME IInv, [Next]_vars
  PROVE  IInv' /\ Delivered
<1>1. \A f \in File : file[f] = file'[f] => Delivers(file[f], file'[f])
  BY DEF Delivers
<1>2. ASSUME NEW f, Turn(f) PROVE IInv' /\ Delivered
  BY <1>1, <1>2 DEF Turn, Others, Delivered
<1>3. CASE RunInit
  BY <1>1, <1>3, RunInitInv DEF Delivered
<1>4. CASE RunOp
  <2>1. PICK f : f = Head(tras)
    OBVIOUS
  <2>2. Turn(f)
    BY <1>4, <2>1, RunOpInv
  <2> QED BY <1>2, <2>2
<1>5. CASE RunTransaction
  <2>1. PICK f : f = Head(tras)
    OBVIOUS
  <2>2. Turn(f)
    BY <1>5, <2>1, RunTransactionInv
  <2> QED BY <1>2, <2>2
<1>6. ASSUME NEW f \in File, NEW p \in Paths[f], Open(f, p)
      PROVE  IInv' /\ Delivered
  BY <1>2, <1>6, OpenInv
<1>7. ASSUME NEW f \in File, NEW n \in Lengths, Read(f, n)
      PROVE  IInv' /\ Delivered
  BY <1>2, <1>7, ReadInv
<1>8. ASSUME NEW f \in File, NEW pos \in Positions, Seek(f, pos)
      PROVE  IInv' /\ Delivered
  BY <1>2, <1>8, SeekInv
<1>9. CASE UNCHANGED vars
  <2>1. UNCHANGED <<file, tras, trastate, seg, op, buf, stra, mount>>
    BY <1>9 DEF vars, fsys
  <2>2. FilesInv' /\ QueueInv' /\ FsysInv'
    BY <2>1 DEF IInv, FilesInv, QueueInv, FsysInv
  <2>3. PhaseInv'
    BY <2>1 DEF IInv, PhaseInv, Stuck, Searches, DirReads, ReadsChunk, ReadsFat, SeeksFat
  <2> QED BY <1>1, <2>1, <2>2, <2>3 DEF IInv, Delivered
<1> QED BY <1>3, <1>4, <1>5, <1>6, <1>7, <1>8, <1>9 DEF Next, Run

\* The first state.
LEMMA InitInv == Init => IInv
<1> SUFFICES ASSUME Init PROVE IInv
  OBVIOUS
<1>1. ASSUME NEW f \in File PROVE Good(file[f]) /\ file[f] \in FileRecord
  <2>1. <<>> \in Seq(Nat) /\ <<>> \in Seq(Int) /\ <<>> \in Segments /\ "OK" \in Results
    BY DEF Segments, Results
  <2>2. /\ file[f] \in FileRecord /\ file[f].opened = FALSE
        /\ file[f].tratype = "NONE"
    BY <2>1 DEF Init, FileRecord
  <2> QED BY <2>2 DEF Good, PlaceOK, ReadOK, SeekOK
<1>2. FilesInv
  <2>1. DOMAIN file = File /\ file = [f \in File |-> file[f]]
    BY DEF Init
  <2>2. file \in [File -> FileRecord]
    BY <1>1, <2>1
  <2> QED BY <1>1, <2>2 DEF FilesInv
<1>3. QueueInv
  BY DEF Init, QueueInv
<1>4. FsysInv
  <2>1. op \in OpRecord /\ stra \in StorRecord
    BY DEF Init, OpIdle, OpEnded, NoUnit, StorIdle, OpRecord, StorRecord
  <2> QED BY <2>1 DEF Init, FsysInv, InvalidBuf
<1>5. PhaseInv
  BY DEF Init, PhaseInv, OpIdle, OpEnded
<1> QED BY <1>2, <1>3, <1>4, <1>5 DEF IInv
-----------------------------------------------------------------------------
(* Theorems. *)

\* The invariant holds of every state of the system.
THEOREM Invariance == Spec => []IInv
<1>1. IInv /\ [Next]_vars => IInv'
  BY NextInv
<1> QED BY <1>1, InitInv, PTL DEF Spec

\* Every variable has its type: positions, what remains to be read and the addresses of
\* the storage transactions never become negative.
THEOREM TypeCorrect == Spec => []TypeOK
<1>1. IInv => TypeOK
  <2> SUFFICES ASSUME IInv PROVE TypeOK
    OBVIOUS
  <2>1. ASSUME NEW f \in File
        PROVE  LET r == file[f]
               IN /\ r.result \in Results
                  /\ {r.finished, r.opened, r.directory, r.strayed} \subseteq BOOLEAN
                  /\ r.tratype \in {"NONE", "OPEN", "READ", "SEEK"}
                  /\ {r.location, r.size, r.filepos, r.curlocation, r.cluster_end,
                      r.remaining, r.targetpos, r.datalen, r.from} \subseteq Nat
    <3>1. file[f] \in FileRecord
      BY DEF IInv, FilesInv
    <3> QED BY <3>1 DEF FileRecord
  <2>2. /\ tras \in Seq(File) /\ trastate \in {0, 1, 2, 5} /\ op \in OpRecord
        /\ buf.addr \in Nat /\ mount \in {"unread", "reading", "ok", "bad"}
    BY DEF IInv, QueueInv, FsysInv
  <2>3. /\ op.curop \in {"IDLE", "DIR_READ"} /\ op.opstate \in {0, 1, 5}
        /\ op.opresult \in {"OK", "EOF", "IOERROR"}
    BY <2>2 DEF OpRecord
  <2> QED BY <2>1, <2>2, <2>3 DEF TypeOK
<1> QED BY <1>1, Invariance, PTL

\* A place in the chain is the location of the position.
LEMMA PlaceIsInPlace ==
  ASSUME NEW r \in FileRecord, PlaceOK(r), r.opened, ~r.directory, ~r.strayed
  PROVE  InPlace(r)
<1> SUFFICES ASSUME r.size > 0 PROVE InPlace(r)
  BY DEF InPlace
<1>1. r.filepos \in Nat /\ r.size \in Nat /\ r.filepos <= r.size
  BY DEF FileRecord, PlaceOK
<1>2. PICK c \in DOMAIN Chain : Holds(r, c) /\ Located(r, c)
  BY DEF PlaceOK
<1>3. PICK m \in 0 .. Len(Chain[c]) - 1 : \E k \in 0 .. ClusterUnits : At(r, c, m, k)
  BY <1>2 DEF Located
<1>4. PICK k \in 0 .. ClusterUnits : At(r, c, m, k)
  BY <1>3
<1> DEFINE x == Chain[c][m + 1]
           first == ClusterToAddr(x)
           before == m * ClusterUnits
<1>5. m \in Nat /\ m + 1 \in 1 .. Len(Chain[c]) /\ k \in Nat /\ 0 \in 0 .. ClusterUnits - 1
  BY ChainIs, Sizes
<1>6. first \in Nat /\ before \in Nat
  <2>1. Chain[c][m + 1] \in Nat
    BY <1>5, ChainIs
  <2>2. \A u, v \in Nat : u * v \in Nat
    OBVIOUS
  <2>3. m * ClusterUnits \in Nat
    BY <2>2, <1>5, Sizes
  <2> QED BY <2>1, <2>3, PlaceTypes
<1>7. /\ r.filepos = before + k /\ before < r.size
      /\ r.curlocation = first + k /\ r.cluster_end = first + ClusterUnits
  BY <1>4 DEF At
<1>8. \A j \in 0 .. ClusterUnits - 1 :
        DataAt(c, before + j) = first + j /\ StartOf(before + j) = before
  BY DataAtIs
<1> HIDE DEF x, first, before
<1>9. DataAt(c, before) = first
  <2>1. DataAt(c, before + 0) = first + 0
    BY <1>5, <1>8
  <2> QED BY <2>1, <1>6
<1>10. AddrToCluster(r.location) = c
  <2>1. Inside(c)
    <3>1. 1 \in 1 .. Len(Chain[c]) /\ Chain[c][1] = c
      BY ChainIs
    <3> QED BY <3>1, ChainIs
  <2> QED BY <2>1, <1>2, ClusterOf DEF Holds
<1>11. PICK j \in 0 .. ClusterUnits - 1 : (j = k \/ j = k - 1) /\ before + j < r.size
  <2>1. CASE k < ClusterUnits /\ before + k < r.size
    BY <2>1, <1>5, Sizes
  <2>2. CASE ~(k < ClusterUnits /\ before + k < r.size)
    <3>1. k > 0 /\ before + (k - 1) < r.size
      BY <2>2, <1>1, <1>5, <1>6, <1>7, Sizes
    <3>2. k - 1 \in 0 .. ClusterUnits - 1
      BY <3>1, <1>5, Sizes
    <3> QED BY <3>1, <3>2
  <2> QED BY <2>1, <2>2
<1> DEFINE q == before + j
<1>12. j \in Nat /\ q \in {r.filepos, r.filepos - 1} \cap (0 .. (r.size - 1))
  BY <1>1, <1>5, <1>6, <1>7, <1>11, Sizes
<1>13. r.curlocation = DataAt(c, q) + (r.filepos - q)
  <2>1. DataAt(c, q) = first + j
    BY <1>8
  <2>2. r.filepos - q = k - j
    BY <1>5, <1>6, <1>7, <1>12
  <2> HIDE DEF q
  <2> QED BY <2>1, <2>2, <1>5, <1>6, <1>7, <1>12
<1>14. r.cluster_end = DataAt(c, StartOf(q)) + ClusterUnits
  BY <1>7, <1>8, <1>9
<1> HIDE DEF q
<1> QED BY <1>10, <1>12, <1>13, <1>14 DEF InPlace

\* The location of a file stays that of its position, through reads, seeks and errors.
THEOREM PositionCorrect == Spec => []PositionKept
<1>1. IInv => PositionKept
  <2> SUFFICES ASSUME IInv, NEW f \in File, file[f].opened, ~file[f].directory, ~file[f].strayed
               PROVE  InPlace(file[f])
    BY DEF PositionKept
  <2>1. file[f] \in FileRecord /\ PlaceOK(file[f])
    BY DEF IInv, FilesInv, Good
  <2> QED BY <2>1, PlaceIsInPlace
<1> QED BY <1>1, Invariance, PTL

\* A Read that succeeds has moved the data of the file, whatever its chain of clusters.
THEOREM ReadCorrect == Spec => ReadReturnsFile
<1> DEFINE Returns ==
      \A f \in File :
       LET r == file'[f]
           from == file[f].from
           len == file[f].datalen
           n == IF from + len > r.size THEN r.size - from ELSE len
       IN Completes(f, "READ") /\ ~r.directory /\ r.result = "OK" /\ ~r.strayed =>
            /\ r.got = [i \in 1 .. n |-> DataAt(AddrToCluster(r.location), from + i - 1)]
            /\ r.filepos = from + n
<1>1. IInv /\ [Next]_vars => [Returns]_vars
  <2> SUFFICES ASSUME IInv, [Next]_vars PROVE Returns
    OBVIOUS
  <2>1. Delivered
    BY NextInv
  <2> QED BY <2>1 DEF Delivered, Delivers, Completes
<1>2. [][Next]_vars /\ []IInv => [][Returns]_vars
  BY <1>1, PTL
<1> QED BY <1>2, Invariance, PTL DEF Spec, ReadReturnsFile

-----------------------------------------------------------------------------
(***************************************************************************)
(* Directories: what is listed of them and what an Open finds in them.     *)
(*                                                                         *)
(* A place of a directory is a number of its units, counted through the    *)
(* chain of its clusters.  DirInv says of each directory that is open, and *)
(* of the operation that is active, to which place its location belongs    *)
(* and that everything before this place was listed, or searched; and of   *)
(* buf that it holds the sector it is named after.                         *)
(***************************************************************************)
(* The places of a directory. *)

\* How many units the directory in cluster c has.
Units(c) == Len(Chain[c]) * ClusterUnits

\* The place q of a directory, as a location and the end of its cluster.
DirAt(c, q, l, e) ==
  \E m \in 0 .. Len(Chain[c]) - 1 : \E k \in 0 .. ClusterUnits :
    /\ q = m * ClusterUnits + k
    /\ l = ClusterToAddr(Chain[c][m + 1]) + k
    /\ e = ClusterToAddr(Chain[c][m + 1]) + ClusterUnits

\* What the assumptions say of a directory.
LEMMA DirectoryIs ==
  ASSUME NEW c \in Directories
  PROVE  /\ c \in DOMAIN Chain /\ Inside(c) /\ Units(c) \in Nat
         /\ \A i \in Places(c) : DataAt(c, i) \in DOMAIN Entry
<1>1. c \in DOMAIN Chain /\ \A i \in Places(c) : DataAt(c, i) \in DOMAIN Entry
  BY DirectoryAssumption DEF Directories
<1>2. 1 \in 1 .. Len(Chain[c]) /\ Chain[c][1] = c /\ Len(Chain[c]) \in Nat
  BY <1>1, ChainIs
<1>3. Inside(c)
  BY <1>1, <1>2, ChainIs
<1>4. Units(c) \in Nat
  <2>1. \A x, y \in Nat : x * y \in Nat
    OBVIOUS
  <2> QED BY <2>1, <1>2, Sizes DEF Units
<1> QED BY <1>1, <1>3, <1>4

\* A cluster begins at the beginning of a sector.
LEMMA SectorsAligned ==
  ASSUME NEW c, Inside(c)
  PROVE  /\ \E s \in Nat : ClusterToAddr(c) = s * SectorUnits
         /\ \E t \in Nat : ClusterUnits = t * SectorUnits
<1>1. \A x \in Nat : x % SectorUnits = 0 => \E s \in Nat : x = s * SectorUnits
  <2> SUFFICES ASSUME NEW x \in Nat, x % SectorUnits = 0 PROVE \E s \in Nat : x = s * SectorUnits
    OBVIOUS
  <2>1. x \div SectorUnits \in Nat /\ x = (x \div SectorUnits) * SectorUnits + (x % SectorUnits)
    BY Division, Sizes
  <2> DEFINE s == x \div SectorUnits
  <2>2. s \in Nat /\ x = s * SectorUnits + 0
    BY <2>1
  <2> HIDE DEF s
  <2>3. x = s * SectorUnits
    BY <2>2, Sizes
  <2> QED BY <2>2, <2>3
<1>2. ClusterUnits % SectorUnits = 0 /\ DataStart % SectorUnits = 0
  BY UnitsAssumption
<1>3. PICK d \in Nat : DataStart = d * SectorUnits
  BY <1>1, <1>2, Sizes
<1>4. PICK t \in Nat : ClusterUnits = t * SectorUnits
  BY <1>1, <1>2, Sizes
<1>5. c - 2 \in Nat /\ ClusterToAddr(c) = DataStart + (c - 2) * ClusterUnits
  BY ClusterOf, Sizes DEF Inside
<1> DEFINE n == c - 2
<1>6. n \in Nat /\ ClusterToAddr(c) = d * SectorUnits + n * (t * SectorUnits)
  BY <1>3, <1>4, <1>5
<1> HIDE DEF n
<1>7. d * SectorUnits + n * (t * SectorUnits) = (d + n * t) * SectorUnits
  BY <1>6, Sizes
<1>8. d + n * t \in Nat
  <2>1. \A x, y \in Nat : x * y \in Nat /\ x + y \in Nat
    OBVIOUS
  <2> QED BY <2>1, <1>6
<1> QED BY <1>4, <1>6, <1>7, <1>8

\* The locations of a sector, from one of them on.
LEMMA SectorIs ==
  ASSUME NEW a \in Nat
  PROVE  /\ SectorOf(a) \in Nat /\ SectorOf(a) <= a /\ a < SectorOf(a) + SectorUnits
         /\ \E u \in Nat : SectorOf(a) = u * SectorUnits
         /\ \A j \in a .. SectorOf(a) + SectorUnits - 1 :
              j % SectorUnits \in 0 .. SectorUnits - 1 /\ SectorOf(a) + (j % SectorUnits) = j
<1>1. a \div SectorUnits \in Nat /\ a % SectorUnits \in 0 .. SectorUnits - 1
      /\ a = (a \div SectorUnits) * SectorUnits + (a % SectorUnits)
  BY Division, Sizes
<1> DEFINE u == a \div SectorUnits
           k == a % SectorUnits
           s == u * SectorUnits
<1>2. \A x, y \in Nat : x * y \in Nat
  OBVIOUS
<1>3. s \in Nat
  BY <1>1, <1>2, Sizes
<1>4. SectorOf(a) = a - k
  BY DEF SectorOf
<1> HIDE DEF u, k
<1>5. u \in Nat /\ k \in 0 .. SectorUnits - 1 /\ a = s + k
  BY <1>1 DEF u, k
<1>6. \A i \in 0 .. SectorUnits - 1 : (s + i) % SectorUnits = i
  <2> TAKE i \in 0 .. SectorUnits - 1
  <2>1. u \in Int
    BY <1>5
  <2> QED BY <2>1, Divided, Sizes
<1> HIDE DEF s
<1>7. SectorOf(a) = s
  BY <1>3, <1>4, <1>5, Sizes
<1>8. ASSUME NEW j \in a .. SectorOf(a) + SectorUnits - 1
      PROVE  j % SectorUnits \in 0 .. SectorUnits - 1 /\ SectorOf(a) + (j % SectorUnits) = j
  <2> DEFINE i == j - s
  <2>1. i \in 0 .. SectorUnits - 1 /\ j = s + i /\ i \in Int
    BY <1>3, <1>5, <1>7, Sizes
  <2> HIDE DEF i
  <2>2. j % SectorUnits = i
    BY <2>1, <1>6
  <2> QED BY <2>1, <2>2, <1>7
<1>9. SectorOf(a) <= a /\ a < SectorOf(a) + SectorUnits
  BY <1>3, <1>5, <1>7, Sizes
<1> QED BY <1>3, <1>5, <1>7, <1>8, <1>9 DEF s

\* The places from q on have the locations from l on, up to the location end.
Runs(c, q, l, e, end) ==
  \A j \in 0 .. end - l :
    /\ DirAt(c, q + j, l + j, e)
    /\ l + j < end => q + j \in Places(c) /\ l + j = DataAt(c, q + j)

\* A location that is not the end of its cluster: the rest of its sector is in the cluster.
LEMMA DirSteps ==
  ASSUME NEW c \in Directories, NEW q, NEW l, NEW e, DirAt(c, q, l, e), l < e
  PROVE  q \in Nat /\ l \in Nat /\ Runs(c, q, l, e, SectorOf(l) + SectorUnits)
<1>1. PICK m \in 0 .. Len(Chain[c]) - 1 : \E k \in 0 .. ClusterUnits :
        /\ q = m * ClusterUnits + k
        /\ l = ClusterToAddr(Chain[c][m + 1]) + k
        /\ e = ClusterToAddr(Chain[c][m + 1]) + ClusterUnits
  BY DEF DirAt
<1>2. PICK k \in 0 .. ClusterUnits :
        /\ q = m * ClusterUnits + k
        /\ l = ClusterToAddr(Chain[c][m + 1]) + k
        /\ e = ClusterToAddr(Chain[c][m + 1]) + ClusterUnits
  BY <1>1
<1>3. c \in DOMAIN Chain /\ Units(c) \in Nat
  BY DirectoryIs
<1>4. m \in Nat /\ k \in Nat /\ m + 1 \in 1 .. Len(Chain[c]) /\ Len(Chain[c]) \in Nat
  BY <1>3, ChainIs, Sizes
<1>5. Inside(Chain[c][m + 1])
  BY <1>3, <1>4, ChainIs
<1> DEFINE x == Chain[c][m + 1]
           first == ClusterToAddr(x)
           before == m * ClusterUnits
<1>6. first \in Nat /\ before \in Nat
  <2>1. x \in Nat
    BY <1>5, ClusterOf
  <2>2. \A u, v \in Nat : u * v \in Nat
    OBVIOUS
  <2>3. m * ClusterUnits \in Nat
    BY <2>2, <1>4, Sizes
  <2> QED BY <2>1, <2>3, PlaceTypes
<1>7. PICK s \in Nat : first = s * SectorUnits
  BY <1>5, SectorsAligned
<1>8. PICK t \in Nat : ClusterUnits = t * SectorUnits
  BY <1>5, SectorsAligned
<1>9. \A j \in 0 .. ClusterUnits - 1 : DataAt(c, before + j) = first + j
  BY <1>3, DataAtIs
<1>10. before + ClusterUnits <= Units(c)
  <2> DEFINE n == Len(Chain[c])
  <2>1. n \in Nat /\ m + 1 <= n
    BY <1>4
  <2>2. Units(c) = n * ClusterUnits
    BY DEF Units
  <2> HIDE DEF n
  <2> DEFINE d == n - (m + 1)
  <2>3. n = (m + 1) + d /\ d \in Nat
    BY <2>1, <1>4
  <2> HIDE DEF d
  <2>4. ((m + 1) + d) * ClusterUnits = m * ClusterUnits + ClusterUnits + d * ClusterUnits
    BY <2>3, <1>4, Sizes
  <2>5. d * ClusterUnits \in Nat
    <3>1. \A u, v \in Nat : u * v \in Nat
      OBVIOUS
    <3> QED BY <3>1, <2>3, Sizes
  <2>6. Units(c) = before + ClusterUnits + d * ClusterUnits
    BY <2>2, <2>3, <2>4
  <2> HIDE DEF before
  <2> DEFINE z == d * ClusterUnits
  <2>7. z \in Nat /\ Units(c) = before + ClusterUnits + z
    BY <2>5, <2>6
  <2> HIDE DEF z
  <2> QED BY <2>7, <1>6, Sizes
<1>11. q = before + k /\ l = first + k /\ e = first + ClusterUnits
  BY <1>2
<1> HIDE DEF x, first, before
<1>12. l \in Nat /\ q \in Nat /\ k < ClusterUnits
  BY <1>4, <1>6, <1>11, Sizes
<1>13. SectorOf(l) + SectorUnits <= e
  <2>1. PICK u \in Nat : SectorOf(l) = u * SectorUnits
    BY <1>12, SectorIs
  <2>2. SectorOf(l) \in Nat /\ SectorOf(l) < e
    BY <1>6, <1>11, <1>12, SectorIs, Sizes
  <2>3. e = (s + t) * SectorUnits
    <3>1. (s + t) * SectorUnits = s * SectorUnits + t * SectorUnits
      BY Sizes
    <3> QED BY <3>1, <1>7, <1>8, <1>11
  <2>4. u < s + t
    <3>1. u * SectorUnits < (s + t) * SectorUnits
      BY <2>1, <2>2, <2>3
    <3>2. u \in Int /\ s + t \in Int
      OBVIOUS
    <3> QED BY ONLY <3>1, <3>2, Sizes, Multiples
  <2>5. (u + 1) * SectorUnits = SectorOf(l) + SectorUnits
    <3>1. (u + 1) * SectorUnits = u * SectorUnits + SectorUnits
      BY Sizes
    <3> QED BY <3>1, <2>1
  <2>6. ~(e < SectorOf(l) + SectorUnits)
    <3> SUFFICES ASSUME e < SectorOf(l) + SectorUnits PROVE FALSE
      OBVIOUS
    <3>1. (s + t) * SectorUnits < (u + 1) * SectorUnits
      BY <2>3, <2>5
    <3>2. u + 1 \in Int /\ s + t \in Int
      OBVIOUS
    <3>3. s + t < u + 1
      BY ONLY <3>1, <3>2, Sizes, Multiples
    <3> QED BY <2>4, <3>3
  <2> QED BY <2>2, <2>6, <1>6, <1>11, Sizes
<1>14. ASSUME NEW j \in 0 .. (SectorOf(l) + SectorUnits) - l
       PROVE  /\ DirAt(c, q + j, l + j, e)
              /\ l + j < SectorOf(l) + SectorUnits => q + j \in Places(c) /\ l + j = DataAt(c, q + j)
  <2>1. SectorOf(l) \in Nat
    BY <1>12, SectorIs
  <2>2. j \in Nat /\ k + j \in 0 .. ClusterUnits /\ q + j = before + (k + j) /\ l + j = first + (k + j)
    BY <2>1, <1>4, <1>6, <1>11, <1>12, <1>13, Sizes
  <2>3. DirAt(c, q + j, l + j, e)
    BY <2>2, <1>11 DEF DirAt, before, first, x
  <2>4. ASSUME l + j < SectorOf(l) + SectorUnits
        PROVE  q + j \in Places(c) /\ l + j = DataAt(c, q + j)
    <3>1. k + j \in 0 .. ClusterUnits - 1
      BY <2>1, <2>2, <2>4, <1>4, <1>6, <1>11, <1>12, <1>13, Sizes
    <3>2. q + j \in Nat /\ q + j < Units(c)
      BY <2>2, <3>1, <1>3, <1>6, <1>10, <1>12, Sizes
    <3>3. q + j \in 0 .. Units(c) - 1
      BY <3>2, <1>3
    <3> QED BY <2>2, <3>1, <3>3, <1>9 DEF Places, Units
  <2> QED BY <2>3, <2>4
<1> QED BY <1>12, <1>14 DEF Runs
-----------------------------------------------------------------------------
(* The listing of a directory. *)

\* No end mark comes before the place q.
Clear(c, q) == \A i \in 0 .. q - 1 : EntryAt(c, i).kind # "end"

\* What is listed of the directory before the place q.
Rank(c, q)  == Cardinality(Before(c, q))
Shown(c, q) == SubSeq(Listing[c], 1, Rank(c, q))

\* The sets of live entries are finite.
LEMMA RankIs ==
  ASSUME NEW c \in Directories
  PROVE  /\ IsFiniteSet(LiveIn(c)) /\ Cardinality(LiveIn(c)) \in Nat /\ LiveIn(c) \subseteq Nat
         /\ \A q : /\ IsFiniteSet(Before(c, q)) /\ Rank(c, q) \in Nat
                   /\ Rank(c, q) <= Cardinality(LiveIn(c))
<1>1. Units(c) \in Nat
  BY DirectoryIs
<1>2. IsFiniteSet(Places(c))
  <2>1. 0 \in Int /\ Units(c) - 1 \in Int
    BY <1>1
  <2>2. IsFiniteSet(0 .. Units(c) - 1)
    BY ONLY <2>1, FS_Interval
  <2> QED BY <2>2 DEF Places, Units
<1>3. LiveIn(c) \subseteq Places(c)
  BY DEF LiveIn
<1>4. IsFiniteSet(LiveIn(c))
  BY <1>2, <1>3, FS_Subset
<1>5. Cardinality(LiveIn(c)) \in Nat
  BY <1>4, FS_CardinalityType
<1>6. LiveIn(c) \subseteq Nat
  BY <1>3 DEF Places
<1>7. ASSUME NEW q
      PROVE  IsFiniteSet(Before(c, q)) /\ Rank(c, q) \in Nat /\ Rank(c, q) <= Cardinality(LiveIn(c))
  <2>1. Before(c, q) \in SUBSET LiveIn(c)
    BY DEF Before
  <2>2. IsFiniteSet(Before(c, q)) /\ Cardinality(Before(c, q)) <= Cardinality(LiveIn(c))
    BY <1>4, <2>1, FS_Subset
  <2> QED BY <2>2, FS_CardinalityType DEF Rank
<1> QED BY <1>4, <1>5, <1>6, <1>7

\* A live entry is the next one listed.
LEMMA RankNext ==
  ASSUME NEW c \in Directories, NEW k \in LiveIn(c)
  PROVE  Rank(c, k + 1) = Rank(c, k) + 1 /\ NthLive(c, Rank(c, k) + 1) = k
<1>1. k \in Nat /\ LiveIn(c) \subseteq Nat /\ IsFiniteSet(Before(c, k)) /\ \A q : Rank(c, q) \in Nat
  BY RankIs
<1>2. ASSUME NEW i \in LiveIn(c)
      PROVE  Before(c, i + 1) = Before(c, i) \cup {i} /\ Rank(c, i + 1) = Rank(c, i) + 1
  <2>1. i \in Nat
    BY <1>1
  <2>2. \A j \in LiveIn(c) : j < i + 1 <=> j < i \/ j = i
    BY <1>1, <2>1
  <2>3. Before(c, i + 1) = Before(c, i) \cup {i}
    BY <2>2 DEF Before
  <2>4. i \notin Before(c, i)
    BY <2>1 DEF Before
  <2>5. IsFiniteSet(Before(c, i))
    BY RankIs
  <2>6. Cardinality(Before(c, i) \cup {i}) = Cardinality(Before(c, i)) + 1
    BY <2>4, <2>5, FS_AddElement
  <2> QED BY <2>3, <2>6 DEF Rank
\* An entry behind another one has a greater rank.
<1>3. ASSUME NEW i \in LiveIn(c), NEW j \in LiveIn(c), i < j
      PROVE  Rank(c, i) < Rank(c, j)
  <2>1. i \in Nat /\ j \in Nat
    BY <1>1
  <2>2. Before(c, i + 1) \in SUBSET Before(c, j)
    BY <1>1, <1>3, <2>1 DEF Before
  <2>3. IsFiniteSet(Before(c, j))
    BY RankIs
  <2>4. Rank(c, i + 1) <= Rank(c, j)
    BY <2>2, <2>3, FS_Subset DEF Rank
  <2> QED BY <2>4, <1>1, <1>2
<1>4. ASSUME NEW i \in LiveIn(c), Rank(c, i) = Rank(c, k)
      PROVE  i = k
  <2>1. i \in Nat
    BY <1>1
  <2>2. ~(i < k)
    BY <1>1, <1>3, <1>4
  <2>3. ~(k < i)
    BY <1>1, <1>3, <1>4
  <2> QED BY <2>1, <2>2, <2>3, <1>1
<1>5. Rank(c, k) = (Rank(c, k) + 1) - 1
  BY <1>1
<1> DEFINE n == Rank(c, k) + 1
<1>6. \A i \in LiveIn(c) : Cardinality(Before(c, i)) = n - 1 <=> i = k
  BY <1>4, <1>5 DEF Rank
<1>7. NthLive(c, n) = k
  <2> HIDE DEF n
  <2> QED BY <1>6 DEF NthLive
<1> QED BY <1>2, <1>7

\* A listing is a sequence.
LEMMA ListingIs ==
  ASSUME NEW c \in Directories
  PROVE  /\ DOMAIN Listing[c] = 1 .. Cardinality(LiveIn(c)) /\ Len(Listing[c]) = Cardinality(LiveIn(c))
         /\ \E S : Listing[c] \in Seq(S)
         /\ \A k \in 1 .. Cardinality(LiveIn(c)) : Listing[c][k] = DataAt(c, NthLive(c, k))
<1> DEFINE n == Cardinality(LiveIn(c))
           s == [k \in 1 .. n |-> DataAt(c, NthLive(c, k))]
           S == {DataAt(c, NthLive(c, k)) : k \in 1 .. n}
<1>1. n \in Nat
  BY RankIs
<1>2. Listing[c] = s
  BY DEF Listing
<1> HIDE DEF n
<1>3. s \in Seq(S) /\ Len(s) = n /\ DOMAIN s = 1 .. n
  BY <1>1
<1> QED BY <1>2, <1>3 DEF n

\* What is listed with the next entry.
LEMMA ShownNext ==
  ASSUME NEW c \in Directories, NEW k \in LiveIn(c)
  PROVE  Shown(c, k + 1) = Append(Shown(c, k), DataAt(c, k))
<1> DEFINE s == Listing[c]
           n == Rank(c, k)
           m == Cardinality(LiveIn(c))
<1>1. n \in Nat /\ m \in Nat /\ Rank(c, k + 1) = n + 1 /\ n + 1 <= m
  BY RankIs, RankNext
<1>2. s[n + 1] = DataAt(c, k)
  <2>1. n + 1 \in 1 .. m
    BY <1>1
  <2> QED BY <2>1, RankNext, ListingIs
<1>3. PICK S : s \in Seq(S)
  BY ListingIs
<1>4. Len(s) = m
  BY ListingIs
<1>5. Shown(c, k) = SubSeq(s, 1, n) /\ Shown(c, k + 1) = SubSeq(s, 1, n + 1)
  BY <1>1 DEF Shown
<1> HIDE DEF s, n, m
<1>6. SubSeq(s, 1, n + 1) = Append(SubSeq(s, 1, n), s[n + 1])
  <2>1. n + 1 \in 1 .. Len(s)
    BY <1>1, <1>4
  <2>2. SubSeq(s, 1, n) \in Seq(S) /\ Len(SubSeq(s, 1, n)) = n
        /\ \A i \in 1 .. n : SubSeq(s, 1, n)[i] = s[i]
    BY <1>1, <1>3, <1>4, <2>1
  <2>3. SubSeq(s, 1, n + 1) \in Seq(S) /\ Len(SubSeq(s, 1, n + 1)) = n + 1
        /\ \A i \in 1 .. n + 1 : SubSeq(s, 1, n + 1)[i] = s[i]
    BY <1>1, <1>3, <1>4, <2>1
  <2> DEFINE t == SubSeq(s, 1, n)
             u == SubSeq(s, 1, n + 1)
             x == s[n + 1]
             v == Append(t, x)
  <2>4. x \in S
    BY <1>3, <2>1
  <2> HIDE DEF t, u, x
  <2>5. v \in Seq(S) /\ Len(v) = n + 1 /\ v[n + 1] = x /\ \A i \in 1 .. n : v[i] = t[i]
    BY <1>1, <2>2, <2>4 DEF t
  <2> HIDE DEF v
  <2>6. \A i \in 1 .. n + 1 : u[i] = v[i]
    BY <1>1, <2>2, <2>3, <2>5 DEF t, u, x
  <2>7. u = v
    BY <1>1, <2>3, <2>5, <2>6, SeqEqual DEF u
  <2> QED BY <2>7 DEF u, v, t, x
<1> QED BY <1>2, <1>5, <1>6

\* No live entry from the place p to the place q.
LEMMA ShownSame ==
  ASSUME NEW c \in Directories, NEW p \in Nat, NEW q \in Nat, p <= q,
         \A i \in p .. q - 1 : EntryAt(c, i).kind # "entry"
  PROVE  Shown(c, q) = Shown(c, p)
<1>1. \A i \in LiveIn(c) : i \in Nat /\ EntryAt(c, i).kind = "entry"
  BY RankIs DEF LiveIn
<1>2. \A i \in LiveIn(c) : i < q <=> i < p
  BY <1>1
<1>3. Before(c, q) = Before(c, p)
  BY <1>2 DEF Before
<1> QED BY <1>3 DEF Shown, Rank

\* At the end mark everything is listed.
LEMMA ShownAll ==
  ASSUME NEW c \in Directories, NEW q \in Nat, EntryAt(c, q).kind = "end"
  PROVE  Shown(c, q) = Listing[c]
<1>1. \A i \in LiveIn(c) : i \in Nat /\ \A j \in 0 .. i : EntryAt(c, j).kind # "end"
  BY RankIs DEF LiveIn
<1>2. \A i \in LiveIn(c) : i < q
  BY <1>1
<1>3. Before(c, q) = LiveIn(c)
  BY <1>2 DEF Before
<1>4. PICK S : Listing[c] \in Seq(S)
  BY ListingIs
<1>5. Rank(c, q) = Len(Listing[c])
  BY <1>3, ListingIs DEF Rank
<1>6. SubSeq(Listing[c], 1, Len(Listing[c])) = Listing[c]
  BY <1>4
<1> QED BY <1>5, <1>6 DEF Shown

\* At the beginning nothing is.
LEMMA ShownNone == ASSUME NEW c \in Directories PROVE Shown(c, 0) = <<>> /\ Clear(c, 0)
<1>1. \A i \in LiveIn(c) : ~(i < 0)
  BY RankIs
<1>2. Before(c, 0) = {}
  BY <1>1 DEF Before
<1>3. Rank(c, 0) = 0
  BY <1>2, FS_EmptySet DEF Rank
<1>4. PICK S : Listing[c] \in Seq(S)
  BY ListingIs
<1> QED BY <1>3, <1>4 DEF Shown, Clear

\* What is listed before a place is the beginning of the listing.
LEMMA ShownBegins ==
  ASSUME NEW c \in Directories, NEW q
  PROVE  /\ Len(Shown(c, q)) <= Len(Listing[c])
         /\ Shown(c, q) = SubSeq(Listing[c], 1, Len(Shown(c, q)))
<1>1. Rank(c, q) \in Nat /\ Rank(c, q) <= Len(Listing[c])
  BY RankIs, ListingIs
<1>2. PICK S : Listing[c] \in Seq(S)
  BY ListingIs
<1>3. Len(SubSeq(Listing[c], 1, Rank(c, q))) = Rank(c, q)
  BY <1>1, <1>2
<1> QED BY <1>1, <1>3 DEF Shown
-----------------------------------------------------------------------------
(* The sector in buf. *)

\* A failed read of a sector has moved nothing.
FailsClean == FailPoints \subseteq {0}

\* The buffer b holds the sector it is named after.
Holding(b) ==
  /\ b.units \in [0 .. SectorUnits - 1 -> Int] /\ b.addr \in Nat
  /\ b.addr # InvalidBuf =>
       b.addr < DataEnd /\ \A o \in 0 .. SectorUnits - 1 : b.units[o] = b.addr + o

\* A place that no volume has: that of the directory with the cluster 0.
Nowhere(l, e) == l = InvalidAddr /\ e = InvalidAddr + ClusterUnits

\* The volume is smaller than that place, and no sector has the name of an empty buffer.
LEMMA BeyondIs ==
  /\ DataEnd <= SectorOf(InvalidAddr) /\ InvalidAddr < InvalidAddr + ClusterUnits
  /\ \A a \in Nat : SectorOf(a) # InvalidBuf
  /\ AddrToCluster(InvalidAddr) = 0
<1>1. PICK x \in Nat : x = clustercount * ClusterUnits
  <2>1. \A u, v \in Nat : u * v \in Nat
    OBVIOUS
  <2> QED BY <2>1, Sizes
<1>2. DataEnd = DataStart + x
  BY <1>1 DEF DataEnd
<1>3. DataStart >= SectorUnits
  <2>1. DataStart % SectorUnits = 0
    BY UnitsAssumption
  <2>2. ~(DataStart < SectorUnits)
    BY <2>1, Sizes
  <2> QED BY <2>2, Sizes
<1>4. InvalidAddr = 2 * DataEnd /\ InvalidAddr \in Nat /\ DataEnd \in Nat
  BY Ends0 DEF InvalidAddr
<1>5. SectorOf(InvalidAddr) \in Nat /\ InvalidAddr < SectorOf(InvalidAddr) + SectorUnits
  BY <1>4, SectorIs
<1>6. DataEnd <= SectorOf(InvalidAddr)
  BY <1>2, <1>3, <1>4, <1>5, Sizes
<1>7. ASSUME NEW a \in Nat, SectorOf(a) = InvalidBuf PROVE FALSE
  <2>1. PICK u \in Nat : SectorOf(a) = u * SectorUnits
    BY SectorIs
  <2>2. u * SectorUnits = 1
    BY <2>1, <1>7 DEF InvalidBuf
  <2>3. 0 * SectorUnits = 0 /\ 1 * SectorUnits = SectorUnits
    BY Sizes
  <2>4. 0 < u
    <3>1. 0 * SectorUnits < u * SectorUnits
      BY <2>2, <2>3
    <3>2. u \in Int /\ 0 \in Int
      OBVIOUS
    <3> QED BY ONLY <3>1, <3>2, Sizes, Multiples
  <2>5. u < 1
    <3>1. u * SectorUnits < 1 * SectorUnits
      BY <2>2, <2>3, Sizes
    <3>2. u \in Int /\ 1 \in Int
      OBVIOUS
    <3> QED BY ONLY <3>1, <3>2, Sizes, Multiples
  <2> QED BY <2>4, <2>5
<1>8. AddrToCluster(InvalidAddr) = 0
  <2> DEFINE d == InvalidAddr - DataStart
             n == d \div ClusterUnits
  <2>1. d \in Nat /\ d >= x
    BY <1>2, <1>4, Sizes
  <2> HIDE DEF d
  <2>2. n \in Nat /\ d % ClusterUnits \in 0 .. ClusterUnits - 1 /\ d = n * ClusterUnits + (d % ClusterUnits)
    BY <2>1, Division, Sizes
  <2> HIDE DEF n
  <2>3. (n + 1) * ClusterUnits = n * ClusterUnits + ClusterUnits
    BY <2>2, Sizes
  <2>4. clustercount * ClusterUnits < (n + 1) * ClusterUnits
    <3> DEFINE y == n * ClusterUnits
               z == d % ClusterUnits
    <3>1. y \in Nat
      <4>1. \A u, v \in Nat : u * v \in Nat
        OBVIOUS
      <4> QED BY <4>1, <2>2, Sizes
    <3>2. z \in 0 .. ClusterUnits - 1 /\ d = y + z
      BY <2>2
    <3> HIDE DEF y, z
    <3>3. x < y + ClusterUnits
      BY <3>1, <3>2, <2>1, Sizes
    <3> QED BY <3>3, <1>1, <2>3 DEF y
  <2>5. clustercount < n + 1
    <3>1. clustercount \in Int /\ n + 1 \in Int
      BY <2>2, Sizes
    <3> QED BY ONLY <3>1, <2>4, Sizes, Multiples
  <2>6. 2 + n > clustercount
    BY <2>2, <2>5, Sizes
  <2> QED BY <2>6 DEF AddrToCluster, n, d
<1> QED BY <1>4, <1>6, <1>7, <1>8, Sizes

\* What is found in the buffer that holds the sector of l.
LEMMA BufferIs ==
  ASSUME NEW b, Holding(b), NEW l \in Nat, NEW e, InBuf(b, l, e)
  PROVE  /\ BufEnd(b) = SectorOf(l) + SectorUnits /\ b.addr < DataEnd /\ l < e
         /\ \A x \in l .. BufEnd(b) - 1 : b.units[x % SectorUnits] = x /\ EntryIn(b, x) = Entry[x]
<1>1. b.addr = SectorOf(l) /\ l < e
  BY DEF InBuf
<1>2. b.addr # InvalidBuf
  BY <1>1, BeyondIs
<1>3. b.addr < DataEnd /\ \A o \in 0 .. SectorUnits - 1 : b.units[o] = b.addr + o
  BY <1>2 DEF Holding
<1>4. BufEnd(b) = SectorOf(l) + SectorUnits
  BY <1>1 DEF BufEnd
<1>5. ASSUME NEW x \in l .. BufEnd(b) - 1 PROVE b.units[x % SectorUnits] = x
  <2>1. x \in l .. SectorOf(l) + SectorUnits - 1
    BY <1>4, SectorTypes, Sizes
  <2>2. x % SectorUnits \in 0 .. SectorUnits - 1 /\ SectorOf(l) + (x % SectorUnits) = x
    BY <2>1, SectorIs
  <2> QED BY <2>2, <1>1, <1>3
<1> QED BY <1>1, <1>3, <1>4, <1>5 DEF EntryIn
-----------------------------------------------------------------------------
(* The directory operation. *)

\* What the storage transaction s is for, that the operation o waits for.
Awaits(o, s) ==
  \/ o.opstate = 0 /\ s = StorIdle
  \/ /\ o.opstate = 1 /\ o.location < o.cluster_end
     /\ s = StorRead("buf", SectorOf(o.location), SectorUnits)
  \/ /\ o.opstate = 5 /\ ~(o.location < o.cluster_end)
     /\ s = FindNextCluster(AddrToCluster(o.location) - 1)

\* A location that is waited for.
AtPlace(l, e) == /\ op'.curop # "IDLE" /\ op'.location = l /\ op'.cluster_end = e
                 /\ Awaits(op', stra')

LEMMA LoadIs ==
  ASSUME NEW l, NEW e, OpLoad(l, e)
  PROVE  AtPlace(l, e)
BY DEF OpLoad, OpActive, AtPlace, Awaits

LEMMA ReadyIs ==
  ASSUME NEW l, NEW e, op' = OpActive(0, l, e), stra' = StorIdle
  PROVE  AtPlace(l, e)
BY DEF OpActive, AtPlace, Awaits

LEMMA ExhaustedAt ==
  ASSUME NEW b, NEW e, Exhausted(b, e)
  PROVE  AtPlace(BufEnd(b), e)
BY LoadIs, ReadyIs DEF Exhausted

LEMMA EnterDirAt ==
  ASSUME NEW b, NEW l, EnterDir(b, l)
  PROVE  AtPlace(l, l + ClusterUnits)
BY LoadIs, ReadyIs DEF EnterDir

\* The buffer as a call of Run finds it.
LEMMA HoldingAfter ==
  ASSUME FailsClean, Holding(buf), op.location \in Nat, NEW c \in StorRun, Awaits(op, stra) \/ (op.opstate = 5 /\ stra.completed)
  PROVE  Holding(BufAfter(c))
<1> DEFINE b == BufAfter(c)
<1>1. CASE op.opstate # 1
  <2>1. stra.completed \/ stra.dst # "buf"
    BY <1>1 DEF Awaits, StorIdle, FindNextCluster, StorRead
  <2>2. ASSUME stra.dst # "buf", NEW n PROVE Loaded(n) = buf.units
    <3>1. Loaded(n) = [o \in DOMAIN buf.units |-> buf.units[o]]
      BY <2>2 DEF Loaded
    <3>2. buf.units = [o \in DOMAIN buf.units |-> buf.units[o]]
      BY DEF Holding
    <3> QED BY <3>1, <3>2
  <2>3. c.units = buf.units
    BY <2>1, <2>2 DEF StorRun
  <2>4. b.addr = buf.addr /\ b.units = buf.units
    BY <1>1, <2>3 DEF BufAfter
  <2> QED BY <2>4 DEF Holding
<1>2. CASE op.opstate = 1
  <2>1. stra = StorRead("buf", SectorOf(op.location), SectorUnits)
    BY <1>2 DEF Awaits
  <2>2. /\ ~stra.completed /\ stra.dst = "buf" /\ stra.address = SectorOf(op.location)
        /\ stra.len = SectorUnits
    BY <2>1 DEF StorRead
  <2>3. \/ c.errorcode = 1 /\ \E n \in FailPoints : c.units = Loaded(n)
        \/ c.errorcode = 0 /\ c.units = Loaded(SectorUnits) /\ ~(stra.address >= DataEnd)
    BY <2>2 DEF StorRun
  <2>4. CASE c.errorcode = 1 /\ \E n \in FailPoints : c.units = Loaded(n)
    <3>1. c.units = Loaded(0)
      BY <2>4 DEF FailsClean
    <3>2. DOMAIN buf.units = 0 .. SectorUnits - 1
      BY DEF Holding
    <3>3. \A o \in DOMAIN buf.units : ~(o < 0)
      BY <3>2, Sizes
    <3>4. Loaded(0) = [o \in DOMAIN buf.units |-> buf.units[o]]
      BY <3>3 DEF Loaded
    <3>5. b.addr = buf.addr /\ b.units = buf.units
      BY <2>4, <3>1, <3>4 DEF BufAfter, Holding
    <3> HIDE DEF b
    <3>6. Holding(b)
      BY <3>5 DEF Holding
    <3> QED BY <3>6 DEF b
  <2>5. CASE c.errorcode = 0 /\ c.units = Loaded(SectorUnits) /\ ~(stra.address >= DataEnd)
    <3>1. DOMAIN buf.units = 0 .. SectorUnits - 1
      BY DEF Holding
    <3>2. \A o \in DOMAIN buf.units : o < SectorUnits
      BY <3>1, Sizes
    <3>3. Loaded(SectorUnits) = [o \in 0 .. SectorUnits - 1 |-> stra.address + o]
      BY <2>2, <3>1, <3>2 DEF Loaded
    <3>4. b.addr = stra.address /\ b.units = Loaded(SectorUnits)
      BY <1>2, <2>2, <2>5 DEF BufAfter
    <3>5. stra.address \in Nat /\ stra.address < DataEnd
      <4>1. stra.address \in Nat
        BY <2>2, SectorTypes
      <4> QED BY <4>1, <2>5, Ends0
    <3> HIDE DEF b
    <3>6. stra.address + 0 = stra.address /\ \A o \in 0 .. SectorUnits - 1 : stra.address + o \in Int
      BY <3>5
    <3>7. Holding(b)
      BY <3>3, <3>4, <3>5, <3>6 DEF Holding
    <3> QED BY <3>7 DEF b
  <2> QED BY <2>3, <2>4, <2>5
<1> QED BY <1>1, <1>2
-----------------------------------------------------------------------------
(* A search in the buffer. *)

\* No entry that is wanted lies from the place q of a directory to the place p.
Skips(c, q, p, wanted) ==
  \A i \in q .. p - 1 : ~(EntryAt(c, i).kind = "entry" /\ DataAt(c, i) \in wanted)

\* The search has passed the places from q to p.
Passes(c, q, p, wanted) == p \in Nat /\ q <= p /\ Clear(c, p) /\ Skips(c, q, p, wanted)

\* It stops at the place p, whose location is k.
StopsAt(b, c, p, k, e, wanted) ==
  /\ p \in Places(c) /\ k \in Nat /\ k = DataAt(c, p)
  /\ EntryIn(b, k) = EntryAt(c, p) /\ b.units[k % SectorUnits] = k
  /\ DirAt(c, p, k, e) /\ DirAt(c, p + 1, k + 1, e)
  /\ EntryAt(c, p).kind = "end" \/ (EntryAt(c, p).kind = "entry" /\ k \in wanted)

LEMMA SearchIs ==
  ASSUME NEW b, Holding(b), NEW c \in Directories, NEW q, NEW l, NEW e, DirAt(c, q, l, e),
         InBuf(b, l, e), Clear(c, q), NEW wanted
  PROVE  /\ Stops(b, l, wanted) = {} =>
              \E p \in Nat : Passes(c, q, p, wanted) /\ DirAt(c, p, BufEnd(b), e)
         /\ Stops(b, l, wanted) # {} =>
              \E p \in Nat : /\ Passes(c, q, p, wanted)
                             /\ StopsAt(b, c, p, First(Stops(b, l, wanted)), e, wanted)
<1> DEFINE stops == Stops(b, l, wanted)
           end == SectorOf(l) + SectorUnits
<1>1. l < e
  BY DEF InBuf
<1>2. q \in Nat /\ l \in Nat /\ Runs(c, q, l, e, end)
  BY <1>1, DirSteps
<1>3. end \in Nat /\ l < end
  <2>1. l \in Nat
    BY <1>2
  <2>2. SectorOf(l) \in Nat /\ l < SectorOf(l) + SectorUnits
    BY <2>1, SectorIs
  <2> QED BY <2>2, Sizes
<1>4. /\ BufEnd(b) = end
      /\ \A x \in l .. end - 1 : b.units[x % SectorUnits] = x /\ EntryIn(b, x) = Entry[x]
  BY <1>2, BufferIs
<1> HIDE DEF end
\* The location of each place.
<1>5. ASSUME NEW i \in Nat, q <= i, i - q <= end - l
      PROVE  /\ DirAt(c, i, l + (i - q), e)
             /\ i - q < end - l =>
                  i \in Places(c) /\ l + (i - q) = DataAt(c, i) /\ l + (i - q) \in l .. end - 1
  <2> DEFINE j == i - q
  <2>1. j \in 0 .. end - l /\ q + j = i
    BY <1>2, <1>3, <1>5
  <2> HIDE DEF j
  <2>2. j < end - l => l + j < end /\ l + j \in l .. end - 1
    BY <2>1, <1>2, <1>3
  <2> QED BY <2>1, <2>2, <1>2 DEF Runs, j
\* What makes a search stop there.
<1>6. ASSUME NEW x \in l .. end - 1
      PROVE  x \in stops <=> \/ Entry[x].kind = "end"
                             \/ Entry[x].kind = "entry" /\ x \in wanted
  BY <1>4, <1>6 DEF Stops, Live
<1>7. stops \subseteq l .. end - 1
  BY <1>4 DEF Stops
<1> HIDE DEF stops
\* Nothing before the place p stops it.
<1>8. ASSUME NEW p \in Nat, q <= p, p - q <= end - l, \A x \in l .. l + (p - q) - 1 : x \notin stops
      PROVE  Passes(c, q, p, wanted)
  <2>1. ASSUME NEW i \in q .. p - 1
        PROVE  EntryAt(c, i).kind # "end" /\ ~(EntryAt(c, i).kind = "entry" /\ DataAt(c, i) \in wanted)
    <3>1. i \in Nat /\ q <= i /\ i - q < end - l /\ i - q <= end - l
      BY <1>2, <1>3, <1>8
    <3> DEFINE x == l + (i - q)
    <3>2. x = DataAt(c, i) /\ x \in l .. end - 1
      BY <3>1, <1>5
    <3>3. x \in l .. l + (p - q) - 1
      BY <3>1, <1>2, <1>8
    <3> HIDE DEF x
    <3>4. x \notin stops
      BY <3>3, <1>8
    <3> QED BY <3>2, <3>4, <1>6 DEF EntryAt
  <2>2. \A i \in 0 .. p - 1 : i \in 0 .. q - 1 \/ i \in q .. p - 1
    BY <1>2, <1>8
  <2>3. Clear(c, p)
    BY <2>1, <2>2 DEF Clear
  <2> QED BY <2>1, <2>3, <1>8 DEF Passes, Skips
<1>9. CASE stops = {}
  <2> DEFINE p == q + (end - l)
  <2>1. p \in Nat /\ q <= p /\ p - q = end - l /\ p - q <= end - l /\ l + (p - q) = end
    BY <1>2, <1>3
  <2> HIDE DEF p
  <2>2. DirAt(c, p, end, e)
    BY <2>1, <1>5
  <2>3. Passes(c, q, p, wanted)
    BY <2>1, <1>8, <1>9
  <2> QED BY <2>1, <2>2, <2>3, <1>4, <1>9 DEF stops
<1>10. CASE stops # {}
  <2> DEFINE k == First(stops)
             p == q + (k - l)
  <2>1. stops \subseteq Nat
    BY <1>2, <1>3, <1>7
  <2>2. k \in stops /\ \A x \in stops : k <= x
    BY <2>1, <1>10, FirstIs
  <2>3. k \in l .. end - 1
    BY <2>2, <1>7
  <2> HIDE DEF k
  <2>4. p \in Nat /\ q <= p /\ p - q < end - l /\ p - q <= end - l /\ l + (p - q) = k /\ k \in Nat
    BY <2>3, <1>2, <1>3
  <2> HIDE DEF p
  <2>5. DirAt(c, p, k, e) /\ p \in Places(c) /\ k = DataAt(c, p)
    BY <2>4, <1>5
  <2>6. DirAt(c, p + 1, k + 1, e)
    <3>1. p + 1 \in Nat /\ q <= p + 1 /\ (p + 1) - q <= end - l /\ l + ((p + 1) - q) = k + 1
      BY <2>4, <1>2, <1>3
    <3> QED BY <3>1, <1>5
  <2>7. Passes(c, q, p, wanted)
    <3>1. \A x \in l .. l + (p - q) - 1 : x \notin stops
      BY <2>2, <2>4, <1>2
    <3> QED BY <3>1, <2>4, <1>8
  <2>8. EntryIn(b, k) = EntryAt(c, p) /\ b.units[k % SectorUnits] = k
    BY <2>3, <2>5, <1>4 DEF EntryAt
  <2>9. EntryAt(c, p).kind = "end" \/ (EntryAt(c, p).kind = "entry" /\ k \in wanted)
    BY <2>2, <2>3, <2>5, <1>6 DEF EntryAt
  <2>10. StopsAt(b, c, p, k, e, wanted)
    BY <2>4, <2>5, <2>6, <2>8, <2>9 DEF StopsAt
  <2> QED BY <2>4, <2>7, <2>10, <1>10 DEF stops, k
<1> QED BY <1>9, <1>10 DEF stops
-----------------------------------------------------------------------------
(* What a path leads to. *)

\* A function g that follows the first n segments of the path p.
WayFun(p, n, g) ==
  g = [i \in 0 .. n |-> IF i = 0 THEN Answer("OK", 2) ELSE Follow(p, i, g[i - 1])]

\* The way of a path, segment by segment.
LEMMA WayIs ==
  ASSUME NEW p, Len(p.segments) \in Nat
  PROVE  /\ Way(p)[0] = Answer("OK", 2)
         /\ \A i \in 1 .. Len(p.segments) : Way(p)[i] = Follow(p, i, Way(p)[i - 1])
<1> DEFINE S == {n \in Nat : ~\E g : WayFun(p, n, g)}
<1>1. S = {}
  <2> SUFFICES ASSUME S # {} PROVE FALSE
    OBVIOUS
  <2>1. S \subseteq Nat
    OBVIOUS
  <2> DEFINE k == First(S)
  <2>2. k \in S /\ \A j \in S : k <= j
    BY <2>1, FirstIs
  <2> HIDE DEF k
  <2>3. k \in Nat /\ ~\E g : WayFun(p, k, g)
    BY <2>2
  <2>4. k # 0
    <3> DEFINE g == [i \in 0 .. 0 |-> Answer("OK", 2)]
    <3>1. WayFun(p, 0, g)
      <4>1. \A i \in 0 .. 0 : i = 0
        OBVIOUS
      <4>2. g = [i \in 0 .. 0 |-> IF i = 0 THEN Answer("OK", 2) ELSE Follow(p, i, g[i - 1])]
        BY <4>1
      <4> QED BY <4>2 DEF WayFun
    <3> QED BY <3>1, <2>3
  <2>5. k - 1 \in Nat /\ k - 1 \notin S
    BY <2>2, <2>3, <2>4
  <2>6. PICK g : WayFun(p, k - 1, g)
    BY <2>5
  <2> DEFINE step(i, d) == IF i = 0 THEN Answer("OK", 2) ELSE Follow(p, i, d)
             h == [i \in 0 .. k |-> IF i < k THEN g[i] ELSE Follow(p, k, g[k - 1])]
  <2>7. \A i \in 0 .. k - 1 : g[i] = step(i, g[i - 1])
    BY <2>6 DEF WayFun
  <2>8. \A i \in 0 .. k : h[i] = step(i, h[i - 1])
    <3> TAKE i \in 0 .. k
    <3>1. CASE i = 0
      BY <3>1, <2>3, <2>4, <2>7
    <3>2. CASE i # 0 /\ i < k
      <4>1. i \in 0 .. k - 1 /\ i - 1 \in 0 .. k /\ i - 1 < k
        BY <3>2, <2>3
      <4> QED BY <4>1, <3>2, <2>7
    <3>3. CASE i = k
      <4>1. k - 1 \in 0 .. k /\ k - 1 < k
        BY <2>3, <2>5
      <4> QED BY <4>1, <3>3, <2>4
    <3> QED BY <3>1, <3>2, <3>3, <2>3
  <2>9. DOMAIN h = 0 .. k /\ h = [i \in 0 .. k |-> h[i]]
    OBVIOUS
  <2> HIDE DEF h
  <2>10. WayFun(p, k, h)
    BY <2>8, <2>9 DEF WayFun
  <2> QED BY <2>3, <2>10
<1> DEFINE n == Len(p.segments)
<1>2. PICK g : WayFun(p, n, g)
  BY <1>1
<1>3. WayFun(p, n, Way(p))
  BY <1>2 DEF WayFun, Way
<1> DEFINE w == Way(p)
<1> HIDE DEF w, n
<1>4. w = [i \in 0 .. n |-> IF i = 0 THEN Answer("OK", 2) ELSE Follow(p, i, w[i - 1])]
  BY <1>3 DEF WayFun, w
<1>5. n \in Nat
  BY DEF n
<1>6. w[0] = Answer("OK", 2) /\ \A i \in 1 .. n : w[i] = Follow(p, i, w[i - 1])
  BY <1>4, <1>5
<1> QED BY <1>6 DEF w, n

\* A path ends where one of its segments cannot be followed.
LEMMA WayEnds ==
  ASSUME NEW p, Len(p.segments) \in Nat, NEW i \in 0 .. Len(p.segments), Way(p)[i].result # "OK"
  PROVE  Way(p)[Len(p.segments)] = Way(p)[i]
<1> DEFINE n == Len(p.segments)
           S == {j \in i .. n : Way(p)[j] # Way(p)[i]}
<1> SUFFICES ASSUME S # {} PROVE FALSE
  OBVIOUS
<1>1. S \subseteq Nat /\ i \notin S
  OBVIOUS
<1> DEFINE k == First(S)
<1>2. k \in S /\ \A j \in S : k <= j
  BY <1>1, FirstIs
<1> HIDE DEF k
<1>3. k \in i .. n /\ k # i /\ Way(p)[k] # Way(p)[i]
  BY <1>1, <1>2
<1>4. k - 1 \in i .. n /\ k - 1 \notin S /\ k \in 1 .. n
  BY <1>2, <1>3
<1>5. Way(p)[k - 1] = Way(p)[i]
  BY <1>4
<1>6. Follow(p, k, Way(p)[k - 1]) = Way(p)[k - 1]
  BY <1>5 DEF Follow
<1>7. Way(p)[k] = Follow(p, k, Way(p)[k - 1])
  BY <1>4, WayIs
<1> QED BY <1>3, <1>5, <1>6, <1>7

\* The entries a path segment names, and the path of an Open.
Named(n)  == {a \in DOMAIN Entry : Names(n, Entry[a])}
PathOf(r) == [segments |-> r.path, directory |-> r.directory]

\* The segments before s lead to the directory in cluster c, which is searched for s.
LeadsTo(p, s, c) ==
  /\ s \in 1 .. Len(p.segments) /\ Way(p)[s - 1] = Answer("OK", c)
  /\ p.segments[s] \notin {""} \cup TooLong

\* What is found for the segment s decides what it leads to.
LEMMA FoundIs ==
  ASSUME NEW p, Len(p.segments) \in Nat, NEW s, NEW c \in Directories, LeadsTo(p, s, c),
         NEW q \in Places(c), Passes(c, 0, q, Named(p.segments[s])),
         EntryAt(c, q).kind = "entry", DataAt(c, q) \in Named(p.segments[s])
  PROVE  LET e == EntryAt(c, q)
             last == s = Len(p.segments)
         IN Way(p)[s] = IF (IF ~last \/ p.directory THEN e.isdir ELSE ~e.nonfile)
                          THEN Answer("OK", e.cluster)
                          ELSE Answer(IF last /\ p.directory THEN "DIR_NOT_FOUND" ELSE "FILE_NOT_FOUND", 0)
<1> DEFINE n == p.segments[s]
           hits == {i \in LiveIn(c) : Names(n, EntryAt(c, i))}
           d == Answer("OK", c)
<1>1. q \in Nat /\ LiveIn(c) \subseteq Nat /\ \A i \in LiveIn(c) : i \in Places(c) /\ EntryAt(c, i).kind = "entry"
  BY RankIs DEF LiveIn, Places
<1>2. q \in hits
  <2>1. \A i \in 0 .. q : i \in 0 .. q - 1 \/ i = q
    BY <1>1
  <2>2. \A i \in 0 .. q : EntryAt(c, i).kind # "end"
    BY <2>1 DEF Passes, Clear
  <2> QED BY <2>2 DEF LiveIn, Named, EntryAt
<1>3. \A i \in hits : ~(i < q)
  <2> SUFFICES ASSUME NEW i \in hits, i < q PROVE FALSE
    OBVIOUS
  <2>1. i \in 0 .. q - 1
    BY <1>1
  <2>2. DataAt(c, i) \in Named(n)
    BY <1>1, DirectoryIs DEF Named, EntryAt
  <2> QED BY <2>1, <2>2, <1>1 DEF Passes, Skips
<1>4. hits \subseteq Nat
  BY <1>1
<1> HIDE DEF hits
<1>5. First(hits) = q
  <2> DEFINE x == First(hits)
  <2>1. x \in hits /\ x <= q
    BY <1>2, <1>4, FirstIs
  <2> HIDE DEF x
  <2>2. x \in Nat /\ ~(x < q)
    BY <2>1, <1>3, <1>4
  <2>3. x = q
    BY <2>1, <2>2, <1>1
  <2> QED BY <2>3 DEF x
<1>6. Lookup(c, n) = DataAt(c, q)
  BY <1>2, <1>5 DEF Lookup, hits
<1>7. DataAt(c, q) # NoUnit
  <2>1. DataAt(c, q) \in DataStart .. (DataEnd - 1)
    BY DirectoryIs, VolumeAssumption
  <2> QED BY <2>1, Sizes, Ends0 DEF NoUnit
<1>8. d.result = "OK" /\ d.cluster = c
  BY DEF Answer
<1>9. Way(p)[s] = Follow(p, s, d)
  BY WayIs DEF LeadsTo
<1>10. n \notin {""} \cup TooLong
  BY DEF LeadsTo
<1> HIDE DEF n, d
<1>11. Way(p)[s] = LET u == DataAt(c, q)
                       last == s = Len(p.segments)
                   IN IF (IF ~last \/ p.directory THEN Entry[u].isdir ELSE ~Entry[u].nonfile)
                        THEN Answer("OK", Entry[u].cluster)
                        ELSE Answer(IF last /\ p.directory THEN "DIR_NOT_FOUND" ELSE "FILE_NOT_FOUND", 0)
  <2>1. p.segments[s] = n
    BY DEF n
  <2>2. ~(d.result # "OK" \/ (n = "" /\ s = Len(p.segments) /\ p.directory))
    BY <1>8, <1>10
  <2> QED BY <1>6, <1>7, <1>8, <1>9, <1>10, <2>1, <2>2 DEF Follow
<1> QED BY <1>11 DEF EntryAt

\* Nothing is found before the end mark.
LEMMA MissingIs ==
  ASSUME NEW p, Len(p.segments) \in Nat, NEW s, NEW c \in Directories, LeadsTo(p, s, c),
         NEW q \in Places(c), Passes(c, 0, q, Named(p.segments[s])), EntryAt(c, q).kind = "end"
  PROVE  Way(p)[s] = Answer("FILE_NOT_FOUND", 0)
<1> DEFINE n == p.segments[s]
           hits == {i \in LiveIn(c) : Names(n, EntryAt(c, i))}
           d == Answer("OK", c)
<1>1. /\ q \in Nat /\ LiveIn(c) \subseteq Nat
      /\ \A i \in LiveIn(c) : /\ i \in Places(c) /\ EntryAt(c, i).kind = "entry"
                              /\ \A j \in 0 .. i : EntryAt(c, j).kind # "end"
  BY RankIs DEF LiveIn, Places
<1>2. \A i \in hits : FALSE
  <2> SUFFICES ASSUME NEW i \in hits PROVE FALSE
    OBVIOUS
  <2>1. i \in 0 .. q - 1
    BY <1>1
  <2>2. DataAt(c, i) \in Named(n)
    BY <1>1, DirectoryIs DEF Named, EntryAt
  <2> QED BY <2>1, <2>2, <1>1 DEF Passes, Skips
<1>3. Lookup(c, n) = NoUnit
  BY <1>2 DEF Lookup
<1>4. d.result = "OK" /\ d.cluster = c
  BY DEF Answer
<1>5. Way(p)[s] = Follow(p, s, d)
  BY WayIs DEF LeadsTo
<1>6. n \notin {""} \cup TooLong
  BY DEF LeadsTo
<1> HIDE DEF n, d
<1>7. p.segments[s] = n
  BY DEF n
<1>8. ~(d.result # "OK" \/ (n = "" /\ s = Len(p.segments) /\ p.directory))
  BY <1>4, <1>6
<1> QED BY <1>3, <1>4, <1>5, <1>6, <1>7, <1>8 DEF Follow

\* A segment that is not searched for.
LEMMA OddIs ==
  ASSUME NEW p, Len(p.segments) \in Nat, NEW s \in 1 .. Len(p.segments), NEW c,
         Way(p)[s - 1] = Answer("OK", c), p.segments[s] \in {""} \cup TooLong
  PROVE  Way(p)[s] = IF p.segments[s] = "" /\ s = Len(p.segments) /\ p.directory
                       THEN Answer("OK", c) ELSE Answer("INVALID_PATH", 0)
<1> DEFINE d == Answer("OK", c)
<1>1. d.result = "OK"
  BY DEF Answer
<1>2. Way(p)[s] = Follow(p, s, d)
  BY WayIs
<1> HIDE DEF d
<1>3. Follow(p, s, d) = IF p.segments[s] = "" /\ s = Len(p.segments) /\ p.directory
                          THEN d ELSE Answer("INVALID_PATH", 0)
  BY <1>1 DEF Follow
<1> QED BY <1>2, <1>3 DEF d
-----------------------------------------------------------------------------
(* The invariant of the directories. *)

\* A directory at this location lists this much of it before the place of l and e.
Stands(location, listed, l, e) ==
  \/ Nowhere(l, e) /\ location = InvalidAddr /\ listed = <<>>
  \/ \E c \in Directories : \E q \in Nat :
       /\ DirAt(c, q, l, e) /\ Clear(c, q)
       /\ location = ClusterToAddr(c) /\ listed = Shown(c, q)

\* An Open has come to the place of l and e, in search of the segment s.
Seeking(r, s, l, e) ==
  \/ Nowhere(l, e)
  \/ \E c \in Directories : \E q \in Nat :
       /\ DirAt(c, q, l, e) /\ LeadsTo(PathOf(r), s, c)
       /\ Passes(c, 0, q, Named(r.path[s]))

\* What an operation that is active does for the file r.
Searching(r, s, l, e) ==
  /\ r.tratype = "READ" => Stands(r.location, r.listed, l, e)
  /\ r.tratype = "OPEN" => Seeking(r, s, l, e)

\* What one that has ended has found.
ResultOK(r, o) ==
  IF o.opresult = "OK"
    THEN Stands(r.location, Append(r.listed, o.fdata), o.location, o.cluster_end)
    ELSE /\ Stands(r.location, r.listed, o.location, o.cluster_end)
         /\ o.opresult = "EOF" => r.listed = ListingOf(r)

\* Every directory has an end mark.
DirsEnd == \A c \in Directories : \E i \in Places(c) : EntryAt(c, i).kind = "end"

EofOK(r) ==
  r.result = "EOF" /\ ~r.strayed =>
    r.tratype = "READ" /\ r.opened /\ r.directory /\ r.listed = ListingOf(r)

FileOK(f, r) ==
  /\ r.opened /\ r.directory => Stands(r.location, r.listed, r.curlocation, r.cluster_end)
  /\ ~r.finished /\ r.tratype = "OPEN" => ~r.opened /\ r.listed = <<>> /\ PathOf(r) \in Paths[f]
  /\ ~r.finished /\ r.tratype = "READ" => r.opened
  /\ DirsEnd => EofOK(r)

SearchInv ==
  op.curop # "IDLE" /\ ~Stuck =>
    Awaits(op, stra) /\ Searching(file[Head(tras)], seg, op.location, op.cluster_end)
ResultInv ==
  LET r == file[Head(tras)]
  IN op.curop = "IDLE" /\ trastate = 1 /\ r.directory => ResultOK(r, op)

DirInv ==
  /\ Holding(buf) /\ \A f \in File : FileOK(f, file[f])
  /\ SearchInv /\ ResultInv
  /\ DirsEnd => ~(op.curop # "IDLE" /\ Stuck)

\* The answer to an Open.
Answers(old, new) ==
  LET right == Resolved[PathOf(old)]
  IN ~old.finished /\ new.finished /\ old.tratype = "OPEN" /\ new.result # "IOERROR" =>
       /\ new.result = right.result
       /\ new.opened = (right.result = "OK")
       /\ new.opened => new.location = ClusterToAddr(right.cluster)

\* A step that serves f.
DirTurn(f) == DirInv' /\ Others(f) /\ (DirsEnd => Answers(file[f], file'[f]))
-----------------------------------------------------------------------------
(* From one cluster of a directory to the next. *)

\* A directory begins with its first cluster.
LEMMA DirAtStart ==
  ASSUME NEW c \in Directories
  PROVE  /\ DirAt(c, 0, ClusterToAddr(c), ClusterToAddr(c) + ClusterUnits)
         /\ AddrToCluster(ClusterToAddr(c)) = c
         /\ \A wanted : Passes(c, 0, 0, wanted)
<1>1. c \in DOMAIN Chain /\ Inside(c)
  BY DirectoryIs
<1>2. AddrToCluster(ClusterToAddr(c)) = c /\ ClusterToAddr(c) \in Nat
  BY <1>1, ClusterOf, PlaceTypes
<1>3. 0 \in 0 .. Len(Chain[c]) - 1 /\ Chain[c][0 + 1] = c /\ 0 \in 0 .. ClusterUnits /\ 0 = 0 * ClusterUnits + 0
  BY <1>1, ChainIs, Sizes
<1>4. ClusterToAddr(c) + 0 = ClusterToAddr(c)
  BY <1>2
<1>5. DirAt(c, 0, ClusterToAddr(c), ClusterToAddr(c) + ClusterUnits)
  BY <1>3, <1>4 DEF DirAt
<1>6. \A wanted : Passes(c, 0, 0, wanted)
  BY DEF Passes, Clear, Skips
<1> QED BY <1>2, <1>5, <1>6

\* What the FAT says at the end of a cluster.
LEMMA DirNext ==
  ASSUME NEW c \in Directories, NEW q, NEW l, NEW e, DirAt(c, q, l, e), ~(l < e), NEW next,
         AddrToCluster(l) - 1 \in DOMAIN Fat => next = Fat[AddrToCluster(l) - 1]
  PROVE  /\ ~EndOfChain(next) => DirAt(c, q, ClusterToAddr(next), ClusterToAddr(next) + ClusterUnits)
         /\ EndOfChain(next) => q = Units(c)
<1>1. PICK m \in 0 .. Len(Chain[c]) - 1 : \E k \in 0 .. ClusterUnits :
        /\ q = m * ClusterUnits + k
        /\ l = ClusterToAddr(Chain[c][m + 1]) + k
        /\ e = ClusterToAddr(Chain[c][m + 1]) + ClusterUnits
  BY DEF DirAt
<1>2. PICK k \in 0 .. ClusterUnits :
        /\ q = m * ClusterUnits + k
        /\ l = ClusterToAddr(Chain[c][m + 1]) + k
        /\ e = ClusterToAddr(Chain[c][m + 1]) + ClusterUnits
  BY <1>1
<1>3. c \in DOMAIN Chain
  BY DirectoryIs
<1>4. m \in Nat /\ k \in Nat /\ m + 1 \in 1 .. Len(Chain[c]) /\ Len(Chain[c]) \in Nat
  BY <1>3, ChainIs, Sizes
<1> DEFINE x == Chain[c][m + 1]
           first == ClusterToAddr(x)
<1>5. Inside(x) /\ x \in Nat /\ first \in Nat
  BY <1>3, <1>4, ChainIs, ClusterOf, PlaceTypes
<1>6. l = first + k /\ e = first + ClusterUnits
  BY <1>2
<1> HIDE DEF first
<1>7. k = ClusterUnits /\ l = first + ClusterUnits
  BY <1>4, <1>5, <1>6, Sizes
<1>8. q = (m + 1) * ClusterUnits
  <2>1. q = m * ClusterUnits + ClusterUnits
    BY <1>2, <1>7
  <2> QED BY <2>1, <1>4, Sizes
<1>9. next = Fat[x]
  <2>1. AddrToCluster(l) = x + 1 /\ x \in DOMAIN Fat
    BY <1>5, <1>7, ClusterOf DEF first
  <2>2. (x + 1) - 1 = x
    BY <1>5
  <2> QED BY <2>1, <2>2
<1> DEFINE n == Len(Chain[c])
<1>10. CASE m + 1 < n
  <2>1. m + 1 \in 1 .. n - 1 /\ (m + 1) + 1 \in 1 .. n /\ m + 1 \in 0 .. n - 1
    BY <1>4, <1>10
  <2>2. next = Chain[c][(m + 1) + 1] /\ Inside(next)
    BY <2>1, <1>3, <1>9, ChainIs
  <2>3. ~EndOfChain(next) /\ ClusterToAddr(next) \in Nat
    BY <2>2, ClusterOf, PlaceTypes
  <2>4. 0 \in 0 .. ClusterUnits /\ q = (m + 1) * ClusterUnits + 0
    <3> DEFINE y == (m + 1) * ClusterUnits
    <3>1. y \in Int
      BY <1>4, Sizes
    <3>2. q = y
      BY <1>8
    <3> HIDE DEF y
    <3>3. q = y + 0
      BY <3>1, <3>2
    <3> QED BY <3>3, Sizes DEF y
  <2>5. ClusterToAddr(next) = ClusterToAddr(next) + 0
    BY <2>3
  <2>6. DirAt(c, q, ClusterToAddr(next), ClusterToAddr(next) + ClusterUnits)
    BY <2>1, <2>2, <2>4, <2>5 DEF DirAt
  <2> QED BY <2>3, <2>6
<1>11. CASE m + 1 = n
  <2>1. ~(Fat[Chain[c][n]] \in 2 .. (clustercount - 1))
    BY <1>3, ChainAssumption
  <2>2. next \in Nat
    <3>1. x \in DOMAIN Fat
      BY <1>5, ClusterOf
    <3> QED BY <3>1, <1>9, VolumeAssumption
  <2>3. ~(next \in 2 .. (clustercount - 1))
    BY <2>1, <1>9, <1>11
  <2>4. EndOfChain(next)
    BY <2>2, <2>3, Sizes DEF EndOfChain
  <2>5. q = Units(c)
    BY <1>8, <1>11 DEF Units
  <2> QED BY <2>4, <2>5
<1> QED BY <1>4, <1>10, <1>11

\* With an end mark in it no directory is read to its last place.
LEMMA NeverAtEnd ==
  ASSUME DirsEnd, NEW c \in Directories, Clear(c, Units(c))
  PROVE  FALSE
<1>1. PICK i \in Places(c) : EntryAt(c, i).kind = "end"
  BY DEF DirsEnd
<1>2. i \in 0 .. Units(c) - 1
  BY DEF Places, Units
<1> QED BY <1>1, <1>2 DEF Clear

\* A search that goes on.
LEMMA PassesOn ==
  ASSUME NEW c, NEW q, NEW p, NEW wanted, Passes(c, 0, q, wanted), Passes(c, q, p, wanted)
  PROVE  Passes(c, 0, p, wanted)
<1>1. q \in Nat /\ p \in Nat /\ q <= p
  BY DEF Passes
<1>2. \A i \in 0 .. p - 1 : i \in 0 .. q - 1 \/ i \in q .. p - 1
  BY <1>1
<1>3. Skips(c, 0, p, wanted)
  BY <1>2 DEF Passes, Skips
<1> QED BY <1>1, <1>3 DEF Passes

\* No buffer holds the sector of a place that no volume has.
LEMMA NowhereIs ==
  ASSUME NEW l, NEW e, Nowhere(l, e)
  PROVE  /\ l \in Nat /\ l < e
         /\ \A b : Holding(b) => ~InBuf(b, l, e)
<1>1. l = InvalidAddr /\ l \in Nat /\ l < e
  BY BeyondIs, Ends0 DEF Nowhere
<1>2. ASSUME NEW b, Holding(b), InBuf(b, l, e) PROVE FALSE
  <2>1. b.addr < DataEnd /\ b.addr = SectorOf(l)
    BY <1>1, <1>2, BufferIs DEF InBuf
  <2>2. SectorOf(l) \in Nat /\ DataEnd \in Nat /\ DataEnd <= SectorOf(l)
    BY <1>1, SectorTypes, BeyondIs, Ends0
  <2> QED BY <2>1, <2>2
<1> QED BY <1>1, <1>2
-----------------------------------------------------------------------------
(* The transaction at the head of the queue ends, or goes on. *)

\* What is to hold of a transaction that ends.
LEMMA OverOK ==
  ASSUME NEW f, NEW r \in FileRecord, NEW result,
         r.opened /\ r.directory => Stands(r.location, r.listed, r.curlocation, r.cluster_end),
         DirsEnd /\ result = "EOF" /\ ~r.strayed =>
           r.tratype = "READ" /\ r.opened /\ r.directory /\ r.listed = ListingOf(r)
  PROVE  FileOK(f, Over(r, result))
<1> DEFINE t == Over(r, result)
<1>1. /\ t.finished /\ t.result = result /\ t.opened = r.opened /\ t.directory = r.directory
      /\ t.location = r.location /\ t.listed = r.listed /\ t.curlocation = r.curlocation
      /\ t.cluster_end = r.cluster_end /\ t.strayed = r.strayed /\ t.tratype = r.tratype
  BY DEF FileRecord, Over
<1> HIDE DEF t
<1>2. ListingOf(t) = ListingOf(r)
  BY <1>1 DEF ListingOf
<1>3. FileOK(f, t)
  BY <1>1, <1>2 DEF FileOK, EofOK
<1> QED BY <1>3 DEF t

\* It ends.
LEMMA DirFinished ==
  ASSUME IInv, DirInv, NEW f, Heads(f), NEW r, NEW result, FinishCurTra(f, r, result), Holding(buf'),
         FileOK(f, Over(r, result)), DirsEnd => Answers(file[f], Over(r, result))
  PROVE  DirTurn(f)
<1>1. f \in File /\ file \in [File -> FileRecord]
  BY QueueIs DEF IInv, FilesInv
<1>2. file' = [file EXCEPT ![f] = Over(r, result)]
  BY DEF FinishCurTra, Unchain, FinishTra, Over
<1>3. file'[f] = Over(r, result) /\ \A g \in File : g # f => file'[g] = file[g]
  BY <1>1, <1>2
<1>4. trastate' = 0 /\ op'.curop = "IDLE"
  BY DEF FinishCurTra, Unchain, OpIdle, OpEnded
<1>5. \A g \in File : FileOK(g, file'[g])
  BY <1>3 DEF DirInv
<1>6. SearchInv' /\ ResultInv'
  BY <1>4 DEF SearchInv, ResultInv
<1>7. DirInv'
  BY <1>4, <1>5, <1>6 DEF DirInv
<1> QED BY <1>3, <1>7 DEF DirTurn, Others

\* The search in a directory goes on.
LEMMA DirGoesOn ==
  ASSUME IInv, DirInv, NEW f, Heads(f), NEW state \in {1, 2}, NEW s, Continue(f, file[f], state, s),
         NEW l, NEW e, AtPlace(l, e), Searching(file[f], s, l, e), Holding(buf')
  PROVE  DirTurn(f)
<1>1. f \in File /\ file \in [File -> FileRecord] /\ f = Head(tras) /\ ~file[f].finished
  BY QueueIs DEF IInv, FilesInv, Heads
<1>2. file' = [file EXCEPT ![f] = file[f]] /\ tras' = tras /\ trastate' = state /\ seg' = s
  BY DEF Continue
<1>3. file' = file
  BY <1>1, <1>2
<1>4. /\ op'.curop # "IDLE" /\ op'.location = l /\ op'.cluster_end = e
      /\ Awaits(op', stra')
  BY DEF AtPlace
<1>5. SearchInv'
  BY <1>1, <1>2, <1>3, <1>4 DEF SearchInv
<1>6. ResultInv' /\ ~Stuck'
  BY <1>2, <1>4 DEF ResultInv, Stuck
<1>7. \A g \in File : FileOK(g, file'[g])
  BY <1>3 DEF DirInv
<1>8. DirInv'
  BY <1>5, <1>6, <1>7 DEF DirInv
<1> QED BY <1>1, <1>3, <1>8 DEF DirTurn, Others, Answers

\* A Read or Seek of a file goes on.
LEMMA DirGoesOnInFile ==
  ASSUME IInv, DirInv, NEW f, Heads(f), op.curop = "IDLE", NEW r, ~r.directory, ~r.finished,
         FileOK(f, r), NEW state, NEW s, Continue(f, r, state, s), op' = op, Holding(buf')
  PROVE  DirTurn(f)
<1>1. f \in File /\ file \in [File -> FileRecord] /\ f = Head(tras)
  BY QueueIs DEF IInv, FilesInv, Heads
<1>2. file' = [file EXCEPT ![f] = r] /\ tras' = tras
  BY DEF Continue
<1>3. file'[f] = r /\ \A g \in File : g # f => file'[g] = file[g]
  BY <1>1, <1>2
<1>4. \A g \in File : FileOK(g, file'[g])
  BY <1>3 DEF DirInv
<1>5. SearchInv' /\ ResultInv'
  BY <1>1, <1>2, <1>3 DEF SearchInv, ResultInv
<1>6. DirInv'
  BY <1>4, <1>5 DEF DirInv
<1> QED BY <1>3, <1>6 DEF DirTurn, Others, Answers
-----------------------------------------------------------------------------
(* An Open finds what its path leads to. *)

\* An Open that is served.
OpenOK(f, r) ==
  /\ f \in File /\ r \in FileRecord /\ ~r.finished /\ r.tratype = "OPEN" /\ ~r.opened
  /\ r.listed = <<>> /\ PathOf(r) \in Paths[f]

LEMMA OpeningIs ==
  ASSUME IInv, DirInv, NEW f, Heads(f), file[f].tratype = "OPEN"
  PROVE  OpenOK(f, file[f])
<1>1. f \in File /\ file[f] \in FileRecord /\ ~file[f].finished
  BY QueueIs DEF IInv
<1> QED BY <1>1 DEF DirInv, FileOK, OpenOK

\* What its path leads to.
LEMMA ResolvedIs ==
  ASSUME NEW f, NEW r, OpenOK(f, r)
  PROVE  LET p == PathOf(r)
         IN /\ p.segments = r.path /\ p.directory = r.directory
            /\ Len(p.segments) \in Nat \ {0}
            /\ Resolved[p] = Way(p)[Len(p.segments)]
<1>1. PathOf(r) \in Paths[f] /\ f \in File
  BY DEF OpenOK
<1>2. PathOf(r) \in UNION {Paths[g] : g \in File}
  BY <1>1
<1>3. Len(PathOf(r).segments) \in Nat \ {0}
  BY <1>1, ClientAssumption
<1>4. Resolved[PathOf(r)] = Way(PathOf(r))[Len(PathOf(r).segments)]
  BY <1>2 DEF Resolved
<1> QED BY <1>3, <1>4 DEF PathOf

\* An entry that is a directory, or the root directory: the directory is one of the volume,
\* or beyond it.
IsDir(e) == e.cluster \in Directories \/ ClusterToAddr(e.cluster) = InvalidAddr

\* The file is opened at the entry e.
LEMMA OpenedDir ==
  ASSUME IInv, DirInv, NEW f, Heads(f), file[f].tratype = "OPEN", NEW e,
         file[f].directory => IsDir(e), Opened(f, e),
         Resolved[PathOf(file[f])] = Answer("OK", e.cluster), Holding(buf')
  PROVE  DirTurn(f)
<1> DEFINE o == file[f]
           t == Found(o, e)
           start == ClusterToAddr(e.cluster)
<1>1. OpenOK(f, o)
  BY OpeningIs
<1>2. FinishCurTra(f, t, "OK")
  BY DEF Opened, Found
<1>3. o \in FileRecord /\ o.listed = <<>>
  BY <1>1 DEF OpenOK
<1>4. /\ t.opened /\ t.directory = o.directory /\ t.location = start /\ t.curlocation = start
      /\ t.cluster_end = start + ClusterUnits /\ t.listed = <<>>
  BY <1>3 DEF FileRecord, Found
<1> DEFINE u == Over(t, "OK")
<1>5. /\ u.finished /\ u.result = "OK" /\ u.opened = TRUE /\ u.directory = o.directory /\ u.location = start
      /\ u.curlocation = start /\ u.cluster_end = start + ClusterUnits /\ u.listed = <<>>
  BY <1>3, <1>4 DEF FileRecord, Found, Over
<1> HIDE DEF t, u
<1>6. ASSUME o.directory PROVE Stands(start, <<>>, start, start + ClusterUnits)
  <2>1. CASE start = InvalidAddr
    BY <2>1 DEF Stands, Nowhere
  <2>2. CASE e.cluster \in Directories
    <3>1. DirAt(e.cluster, 0, start, start + ClusterUnits)
      BY <2>2, DirAtStart
    <3>2. Shown(e.cluster, 0) = <<>> /\ Clear(e.cluster, 0)
      BY <2>2, ShownNone
    <3> HIDE DEF start
    <3> QED BY <2>2, <3>1, <3>2 DEF Stands, start
  <2> QED BY <1>6, <2>1, <2>2 DEF IsDir
<1> HIDE DEF start
<1>7. FileOK(f, u)
  BY <1>5, <1>6 DEF FileOK, EofOK
<1>8. Answers(o, u)
  <2> DEFINE right == Resolved[PathOf(o)]
  <2>1. right.result = "OK" /\ right.cluster = e.cluster
    BY DEF Answer
  <2> HIDE DEF right
  <2>2. /\ u.result = right.result /\ u.opened = (right.result = "OK")
        /\ u.location = ClusterToAddr(right.cluster)
    BY <1>5, <2>1 DEF start
  <2> QED BY <2>2 DEF Answers, right
<1> QED BY <1>2, <1>7, <1>8, DirFinished DEF u

\* An Open fails as its path says.
LEMMA OpenFails ==
  ASSUME IInv, DirInv, NEW f, Heads(f), file[f].tratype = "OPEN", NEW result,
         result \notin {"OK", "EOF"}, FinishCurTra(f, file[f], result),
         result = "IOERROR" \/ Resolved[PathOf(file[f])] = Answer(result, 0), Holding(buf')
  PROVE  DirTurn(f)
<1> DEFINE o == file[f]
           u == Over(o, result)
<1>1. o \in FileRecord /\ ~o.opened
  BY OpeningIs DEF OpenOK
<1>2. u.finished /\ u.result = result /\ u.opened = o.opened
  BY <1>1 DEF FileRecord, Over
<1> HIDE DEF u
<1>3. FileOK(f, u)
  BY <1>1, <1>2 DEF FileOK, EofOK
<1>4. o.opened = FALSE
  BY <1>1 DEF FileRecord
<1>5. Answers(o, u)
  <2> DEFINE right == Resolved[PathOf(o)]
  <2>1. result = "IOERROR" \/ right.result = result
    BY DEF Answer
  <2> HIDE DEF right
  <2>2. u.result # "IOERROR" => u.result = right.result /\ u.opened = (right.result = "OK")
    BY <1>2, <1>4, <2>1
  <2>3. u.opened = FALSE
    BY <1>2, <1>4
  <2> QED BY <2>2, <2>3 DEF Answers, right
<1> QED BY <1>3, <1>5, DirFinished DEF u

\* A segment that cannot be searched for.
LEMMA OddSegmentDir ==
  ASSUME IInv, DirInv, NEW f, Heads(f), file[f].tratype = "OPEN",
         NEW s \in 1 .. Len(file[f].path), NEW d, ~Searchable(f, s), OddSegment(f, s, d),
         Way(PathOf(file[f]))[s - 1] = Answer("OK", d.cluster), IsDir(d), Holding(buf')
  PROVE  DirTurn(f)
<1> DEFINE o == file[f]
           p == PathOf(o)
           n == Len(p.segments)
<1>1. p.segments = o.path /\ p.directory = o.directory /\ n \in Nat /\ Resolved[p] = Way(p)[n]
  BY OpeningIs, ResolvedIs
<1>2. p.segments[s] \in {""} \cup TooLong /\ s \in 1 .. n /\ s \in 0 .. n
  <2>1. n \in Nat
    BY <1>1
  <2>2. s \in 1 .. n
    BY <1>1
  <2> HIDE DEF n
  <2>3. s \in 0 .. n
    BY ONLY <2>1, <2>2
  <2> QED BY <2>2, <2>3, <1>1 DEF Searchable
<1>3. Way(p)[s] = IF p.segments[s] = "" /\ s = n /\ p.directory
                    THEN Answer("OK", d.cluster) ELSE Answer("INVALID_PATH", 0)
  BY <1>1, <1>2, OddIs
<1> HIDE DEF p, n
<1>4. CASE p.segments[s] = "" /\ s = n /\ p.directory
  <2>1. Opened(f, d)
    BY <1>1, <1>4 DEF OddSegment, IsLast, n
  <2>2. Resolved[p] = Answer("OK", d.cluster)
    BY <1>1, <1>3, <1>4
  <2> QED BY <2>1, <2>2, OpenedDir DEF p
<1>5. CASE ~(p.segments[s] = "" /\ s = n /\ p.directory)
  <2>1. FinishCurTra(f, file[f], "INVALID_PATH")
    BY <1>1, <1>5 DEF OddSegment, IsLast, n
  <2>2. Way(p)[s] = Answer("INVALID_PATH", 0)
    BY <1>3, <1>5
  <2>3. Way(p)[s].result # "OK"
    BY <2>2 DEF Answer
  <2>4. Resolved[p] = Answer("INVALID_PATH", 0)
    BY <1>2, <2>2, <2>3, <1>1, WayEnds DEF n
  <2> QED BY <2>1, <2>4, OpenFails DEF p
<1> QED BY <1>4, <1>5

\* A segment whose entry was found, at the place q of the directory in cluster c.
LEMMA SegmentFoundDir ==
  ASSUME IInv, DirInv, NEW f, Heads(f), file[f].tratype = "OPEN", NEW s, NEW b,
         NEW c \in Directories, LeadsTo(PathOf(file[f]), s, c),
         NEW q \in Places(c), Passes(c, 0, q, Named(file[f].path[s])),
         EntryAt(c, q).kind = "entry", DataAt(c, q) \in Named(file[f].path[s]),
         SegmentFound(f, s, b, EntryAt(c, q)), Holding(buf')
  PROVE  DirTurn(f)
<1> DEFINE o == file[f]
           p == PathOf(o)
           n == Len(p.segments)
           e == EntryAt(c, q)
<1>1. p.segments = o.path /\ p.directory = o.directory /\ n \in Nat /\ Resolved[p] = Way(p)[n]
  BY OpeningIs, ResolvedIs
<1>2. s \in 1 .. n /\ s \in 0 .. n /\ (s # n => s + 1 \in 1 .. n /\ (s + 1) - 1 = s)
  <2>1. n \in Nat
    BY <1>1
  <2>2. s \in 1 .. n
    BY DEF LeadsTo
  <2> HIDE DEF n
  <2> QED BY ONLY <2>1, <2>2
<1>3. Way(p)[s] = IF (IF s # n \/ p.directory THEN e.isdir ELSE ~e.nonfile)
                    THEN Answer("OK", e.cluster)
                    ELSE Answer(IF s = n /\ p.directory THEN "DIR_NOT_FOUND" ELSE "FILE_NOT_FOUND", 0)
  BY <1>1, FoundIs
<1>4. e.isdir => IsDir(e)
  <2>1. DataAt(c, q) \in DOMAIN Entry
    BY DirectoryIs
  <2> QED BY <2>1, DirectoryAssumption DEF EntryAt, IsDir
<1> HIDE DEF p, n, e
<1>5. IsLast(f, s) <=> s = n
  BY <1>1 DEF IsLast, n
<1>6. /\ Verdict(f, s, e) = "OK" => Way(p)[s] = Answer("OK", e.cluster) /\ (s # n \/ p.directory => IsDir(e))
      /\ Verdict(f, s, e) # "OK" => /\ Way(p)[s] = Answer(Verdict(f, s, e), 0)
                                    /\ Verdict(f, s, e) # "EOF"
  BY <1>1, <1>3, <1>4, <1>5 DEF Verdict
<1>7. SegmentFound(f, s, b, e)
  BY DEF e
<1>8. CASE /\ Verdict(f, s, e) = "OK" /\ ~IsLast(f, s) /\ Searchable(f, s + 1)
           /\ EnterDir(b, ClusterToAddr(e.cluster)) /\ Continue(f, file[f], 2, s + 1)
  <2> DEFINE l == ClusterToAddr(e.cluster)
             end == l + ClusterUnits
  <2>1. AtPlace(l, end)
    BY <1>8, EnterDirAt
  <2>2. Seeking(o, s + 1, l, end)
    <3>1. IsDir(e) /\ Way(p)[s] = Answer("OK", e.cluster)
      BY <1>5, <1>6, <1>8
    <3>2. CASE l = InvalidAddr
      BY <3>2 DEF Seeking, Nowhere
    <3>3. CASE e.cluster \in Directories
      <4>1. s + 1 \in 1 .. n /\ (s + 1) - 1 = s
        BY <1>2, <1>5, <1>8
      <4>2. LeadsTo(p, s + 1, e.cluster)
        BY <4>1, <3>1, <1>1, <1>8 DEF LeadsTo, Searchable, n
      <4>3. DirAt(e.cluster, 0, l, end) /\ Passes(e.cluster, 0, 0, Named(o.path[s + 1]))
        BY <3>3, DirAtStart
      <4> HIDE DEF l, end
      <4> QED BY <3>3, <4>2, <4>3 DEF Seeking, p
    <3> QED BY <3>1, <3>2, <3>3 DEF IsDir
  <2> HIDE DEF l, end
  <2>3. Searching(o, s + 1, l, end)
    BY <2>2 DEF Searching
  <2>4. Continue(f, file[f], 2, s + 1)
    BY <1>8
  <2> QED BY <2>1, <2>3, <2>4, DirGoesOn
<1>9. CASE /\ Verdict(f, s, e) = "OK" /\ ~IsLast(f, s) /\ ~Searchable(f, s + 1)
           /\ OddSegment(f, s + 1, e)
  <2>1. s + 1 \in 1 .. Len(o.path) /\ (s + 1) - 1 = s
    <3>1. s + 1 \in 1 .. n /\ (s + 1) - 1 = s
      BY <1>2, <1>5, <1>9
    <3> QED BY <3>1, <1>1 DEF n
  <2>2. IsDir(e) /\ Way(p)[s] = Answer("OK", e.cluster)
    BY <1>5, <1>6, <1>9
  <2> DEFINE t == s + 1
  <2>3. /\ t \in 1 .. Len(o.path) /\ ~Searchable(f, t) /\ OddSegment(f, t, e)
        /\ Way(p)[t - 1] = Answer("OK", e.cluster)
    BY <2>1, <2>2, <1>9
  <2> HIDE DEF t
  <2> QED BY <2>2, <2>3, OddSegmentDir DEF p
<1>10. CASE Verdict(f, s, e) = "OK" /\ IsLast(f, s) /\ Opened(f, e)
  <2>1. Resolved[p] = Answer("OK", e.cluster) /\ (o.directory => IsDir(e))
    BY <1>1, <1>5, <1>6, <1>10
  <2> QED BY <2>1, <1>10, OpenedDir DEF p
<1>11. CASE Verdict(f, s, e) # "OK" /\ FinishCurTra(f, file[f], Verdict(f, s, e))
  <2> DEFINE result == Verdict(f, s, e)
  <2>1. Way(p)[s] = Answer(result, 0) /\ result \notin {"OK", "EOF"}
    BY <1>6, <1>11
  <2> HIDE DEF result
  <2>2. Way(p)[s].result # "OK"
    BY <2>1 DEF Answer
  <2>3. Resolved[p] = Answer(result, 0)
    BY <2>1, <2>2, <1>1, <1>2, WayEnds DEF n
  <2>4. FinishCurTra(f, file[f], result)
    BY <1>11 DEF result
  <2> QED BY <2>1, <2>3, <2>4, OpenFails DEF p
<1> QED BY <1>7, <1>8, <1>9, <1>10, <1>11 DEF SegmentFound

\* The search for a segment.
LEMMA OpenSearchDir ==
  ASSUME IInv, DirInv, NEW f, Heads(f), file[f].tratype = "OPEN", NEW s, NEW b, Holding(b),
         NEW l, NEW end, Seeking(file[f], s, l, end), OpenSearch(f, s, b, l, end), Holding(buf')
  PROVE  DirTurn(f)
<1> DEFINE o == file[f]
           wanted == Named(o.path[s])
           stops == Stops(b, l, wanted)
           k == First(stops)
<1>1. wanted = {a \in DOMAIN Entry : Names(file[f].path[s], Entry[a])}
  BY DEF Named
<1> HIDE DEF wanted
<1>2. \/ /\ ~InBuf(b, l, end) /\ OpLoad(l, end) /\ Continue(f, file[f], 2, s)
      \/ /\ InBuf(b, l, end) /\ stops = {} /\ Exhausted(b, end) /\ Continue(f, file[f], 2, s)
      \/ /\ InBuf(b, l, end) /\ stops # {} /\ EntryIn(b, k).kind = "end"
         /\ FinishCurTra(f, file[f], "FILE_NOT_FOUND")
      \/ /\ InBuf(b, l, end) /\ stops # {} /\ EntryIn(b, k).kind # "end"
         /\ SegmentFound(f, s, b, EntryIn(b, k))
  BY <1>1 DEF OpenSearch
<1> HIDE DEF stops, k
<1>3. CASE /\ ~InBuf(b, l, end) /\ OpLoad(l, end) /\ Continue(f, file[f], 2, s)
  <2>1. AtPlace(l, end)
    BY <1>3, LoadIs
  <2>2. Searching(o, s, l, end)
    BY DEF Searching
  <2> QED BY <1>3, <2>1, <2>2, DirGoesOn
<1>4. ASSUME InBuf(b, l, end)
      PROVE  \E c \in Directories : \E q \in Nat :
               /\ DirAt(c, q, l, end) /\ LeadsTo(PathOf(o), s, c) /\ Passes(c, 0, q, wanted)
  BY <1>4, NowhereIs DEF Seeking, wanted
<1>5. CASE InBuf(b, l, end)
  <2>1. PICK c \in Directories : \E q \in Nat :
          /\ DirAt(c, q, l, end) /\ LeadsTo(PathOf(o), s, c) /\ Passes(c, 0, q, wanted)
    BY <1>4, <1>5
  <2>2. PICK q \in Nat : DirAt(c, q, l, end) /\ LeadsTo(PathOf(o), s, c) /\ Passes(c, 0, q, wanted)
    BY <2>1
  <2>3. Clear(c, q)
    BY <2>2 DEF Passes
  <2>4. /\ stops = {} => \E p \in Nat : Passes(c, q, p, wanted) /\ DirAt(c, p, BufEnd(b), end)
        /\ stops # {} => \E p \in Nat : Passes(c, q, p, wanted) /\ StopsAt(b, c, p, k, end, wanted)
    BY <2>2, <2>3, <1>5, SearchIs DEF stops, k
  <2>5. CASE stops = {} /\ Exhausted(b, end) /\ Continue(f, file[f], 2, s)
    <3>1. PICK p \in Nat : Passes(c, q, p, wanted) /\ DirAt(c, p, BufEnd(b), end)
      BY <2>4, <2>5
    <3>2. Passes(c, 0, p, wanted)
      BY <2>2, <3>1, PassesOn
    <3>3. Seeking(o, s, BufEnd(b), end)
      BY <2>2, <3>1, <3>2 DEF Seeking, wanted
    <3>4. AtPlace(BufEnd(b), end) /\ Searching(o, s, BufEnd(b), end)
      BY <2>5, <3>3, ExhaustedAt DEF Searching
    <3> QED BY <2>5, <3>4, DirGoesOn
  <2>6. CASE stops # {}
    <3>1. PICK p \in Nat : Passes(c, q, p, wanted) /\ StopsAt(b, c, p, k, end, wanted)
      BY <2>4, <2>6
    <3>2. Passes(c, 0, p, wanted)
      BY <2>2, <3>1, PassesOn
    <3>3. /\ p \in Places(c) /\ k = DataAt(c, p) /\ EntryIn(b, k) = EntryAt(c, p)
          /\ EntryAt(c, p).kind = "end" \/ (EntryAt(c, p).kind = "entry" /\ k \in wanted)
      BY <3>1 DEF StopsAt
    <3>4. CASE EntryIn(b, k).kind = "end" /\ FinishCurTra(f, file[f], "FILE_NOT_FOUND")
      <4> DEFINE d == PathOf(o)
      <4>1. d.segments = o.path /\ Len(d.segments) \in Nat /\ Resolved[d] = Way(d)[Len(d.segments)]
        BY OpeningIs, ResolvedIs
      <4>2. Way(d)[s] = Answer("FILE_NOT_FOUND", 0)
        BY <4>1, <2>2, <3>2, <3>3, <3>4, MissingIs DEF wanted
      <4>3. s \in 0 .. Len(d.segments)
        <5>1. s \in 1 .. Len(d.segments)
          BY <2>2 DEF LeadsTo
        <5> HIDE DEF d
        <5>2. Len(d.segments) \in Nat
          BY <4>1
        <5> QED BY ONLY <5>1, <5>2
      <4>4. Way(d)[s].result # "OK"
        BY <4>2 DEF Answer
      <4>5. Resolved[d] = Answer("FILE_NOT_FOUND", 0)
        BY <4>1, <4>2, <4>3, <4>4, WayEnds
      <4> QED BY <3>4, <4>5, OpenFails
    <3>5. CASE EntryIn(b, k).kind # "end" /\ SegmentFound(f, s, b, EntryIn(b, k))
      <4>1. /\ EntryAt(c, p).kind = "entry" /\ DataAt(c, p) \in Named(o.path[s])
            /\ SegmentFound(f, s, b, EntryAt(c, p)) /\ Passes(c, 0, p, Named(o.path[s]))
        BY <3>2, <3>3, <3>5 DEF wanted
      <4> QED BY <4>1, <3>3, <2>2, SegmentFoundDir
    <3> QED BY <1>2, <1>5, <2>6, <3>4, <3>5
  <2> QED BY <1>2, <1>5, <2>5, <2>6
<1> QED BY <1>2, <1>3, <1>5

\* An Open starts.
LEMMA OpenStartDir ==
  ASSUME IInv, DirInv, NEW f, Heads(f), file[f].tratype = "OPEN", OpenStart(f), UNCHANGED buf
  PROVE  DirTurn(f)
<1> DEFINE o == file[f]
           p == PathOf(o)
           n == Len(p.segments)
<1>1. Holding(buf) /\ Holding(buf')
  BY DEF DirInv, Holding
<1>2. p.segments = o.path /\ n \in Nat \ {0} /\ 1 \in 1 .. n /\ 1 - 1 = 0
  BY OpeningIs, ResolvedIs
<1>3. Way(p)[0] = Answer("OK", 2)
  BY <1>2, WayIs
<1>4. 2 \in Directories
  BY DirectoryAssumption
<1> HIDE DEF p
<1>5. CASE Searchable(f, 1) /\ OpenSearch(f, 1, buf, DataStart, DataStart + ClusterUnits)
  <2>1. LeadsTo(p, 1, 2)
    BY <1>2, <1>3, <1>5 DEF LeadsTo, Searchable
  <2>2. ClusterToAddr(2) = DataStart
    <3>1. Inside(2)
      BY <1>4, DirectoryIs
    <3>2. ClusterToAddr(2) = DataStart + (2 - 2) * ClusterUnits
      BY <3>1, ClusterOf
    <3> QED BY <3>2, Sizes
  <2>3. DirAt(2, 0, DataStart, DataStart + ClusterUnits) /\ Passes(2, 0, 0, Named(o.path[1]))
    BY <1>4, <2>2, DirAtStart
  <2>4. Seeking(o, 1, DataStart, DataStart + ClusterUnits)
    BY <1>4, <2>1, <2>3 DEF Seeking, p
  <2> QED BY <1>1, <1>5, <2>4, OpenSearchDir
<1>6. CASE ~Searchable(f, 1) /\ OddSegment(f, 1, Root)
  <2>1. Root.cluster = 2 /\ IsDir(Root)
    BY <1>4 DEF Root, IsDir
  <2>2. 1 \in 1 .. Len(o.path) /\ Way(p)[1 - 1] = Answer("OK", Root.cluster)
    BY <1>2, <1>3, <2>1
  <2> QED BY <1>1, <1>6, <2>1, <2>2, OddSegmentDir DEF p
<1> QED BY <1>5, <1>6 DEF OpenStart
-----------------------------------------------------------------------------
(* A Read of a directory finds its next entry. *)

\* A place is not behind the last one.
LEMMA DirAtBound ==
  ASSUME NEW c \in Directories, NEW q, NEW l, NEW e, DirAt(c, q, l, e)
  PROVE  q \in Nat /\ q <= Units(c)
<1>1. PICK m \in 0 .. Len(Chain[c]) - 1 : \E k \in 0 .. ClusterUnits : q = m * ClusterUnits + k
  BY DEF DirAt
<1>2. PICK k \in 0 .. ClusterUnits : q = m * ClusterUnits + k
  BY <1>1
<1>3. c \in DOMAIN Chain
  BY DirectoryIs
<1> DEFINE n == Len(Chain[c])
           d == n - (m + 1)
           x == m * ClusterUnits
           y == d * ClusterUnits
<1>4. m \in Nat /\ k \in Nat /\ k <= ClusterUnits /\ d \in Nat /\ n = (m + 1) + d
  BY <1>3, ChainIs, Sizes
<1> HIDE DEF n, d
<1>5. x \in Nat /\ y \in Nat
  <2>1. \A u, v \in Nat : u * v \in Nat
    OBVIOUS
  <2>2. m * ClusterUnits \in Nat /\ d * ClusterUnits \in Nat
    BY <2>1, <1>4, Sizes
  <2> QED BY <2>2
<1>6. ((m + 1) + d) * ClusterUnits = x + ClusterUnits + y
  BY <1>4, Sizes
<1>7. Units(c) = x + ClusterUnits + y /\ q = x + k
  BY <1>2, <1>4, <1>6 DEF Units, n
<1> HIDE DEF x, y
<1> QED BY <1>4, <1>5, <1>7, Sizes

\* Nothing more is listed before a place that a search for any entry comes to.
LEMMA ListsNone ==
  ASSUME NEW c \in Directories, NEW q \in Nat, NEW p \in Nat, p <= Units(c), Passes(c, q, p, DOMAIN Entry)
  PROVE  Shown(c, p) = Shown(c, q) /\ Clear(c, p)
<1>1. q <= p /\ Clear(c, p) /\ Skips(c, q, p, DOMAIN Entry)
  BY DEF Passes
<1>2. ASSUME NEW i \in q .. p - 1 PROVE EntryAt(c, i).kind # "entry"
  <2>1. Units(c) \in Nat
    BY DirectoryIs
  <2>2. i \in 0 .. Units(c) - 1
    BY <2>1
  <2>3. DataAt(c, i) \in DOMAIN Entry
    BY <2>2, DirectoryIs DEF Places, Units
  <2> QED BY <2>3, <1>1 DEF Skips
<1> QED BY <1>1, <1>2, ShownSame

\* A Read of a directory that is served.
LEMMA ListingGoesOn ==
  ASSUME IInv, DirInv, NEW f, Heads(f), file[f].tratype = "READ", file[f].directory
  PROVE  LET o == file[f]
         IN /\ f \in File /\ o \in FileRecord /\ ~o.finished /\ o.opened
            /\ Stands(o.location, o.listed, o.curlocation, o.cluster_end)
<1>1. f \in File /\ file[f] \in FileRecord /\ ~file[f].finished
  BY QueueIs DEF IInv
<1> QED BY <1>1 DEF DirInv, FileOK

\* The result of a Read of a directory.
LEMMA DirResultDir ==
  ASSUME IInv, DirInv, NEW f, Heads(f), file[f].tratype = "READ", file[f].directory,
         NEW ended \in OpRecord, ResultOK(file[f], ended), DirResult(f, ended), Holding(buf')
  PROVE  DirTurn(f)
<1> DEFINE o == file[f]
           r == Behind(o, ended)
           s == Lists(r, ended.fdata)
           more == Append(o.listed, ended.fdata)
<1>1. o \in FileRecord /\ o.opened /\ o.tratype = "READ" /\ o.directory
  BY ListingGoesOn
<1>2. ended.location \in Nat /\ ended.cluster_end \in Nat /\ ended.fdata \in Int
  BY DEF OpRecord
<1>3. /\ r \in FileRecord /\ r.opened /\ r.directory /\ r.tratype = "READ"
      /\ r.location = o.location /\ r.listed = o.listed
      /\ r.curlocation = ended.location /\ r.cluster_end = ended.cluster_end
  BY <1>1, <1>2 DEF Behind, FileRecord
<1>4. DirResult(f, ended) =
        IF ended.opresult # "OK" THEN FinishCurTra(f, r, ended.opresult)
        ELSE FinishCurTra(f, s, IF r.datalen < FdataSize THEN "INVALID_FDATABUF" ELSE "OK")
  BY DEF DirResult, Behind, Lists
<1> HIDE DEF r
<1>5. s = [r EXCEPT !.listed = more]
  BY <1>3 DEF Lists
<1>6. more \in Seq(Int)
  BY <1>1, <1>2 DEF FileRecord
<1> HIDE DEF s, more
<1>7. /\ s \in FileRecord /\ s.opened /\ s.directory /\ s.tratype = "READ"
      /\ s.location = o.location /\ s.listed = more
      /\ s.curlocation = ended.location /\ s.cluster_end = ended.cluster_end
  BY <1>3, <1>5, <1>6 DEF FileRecord
<1>8. \A t : Answers(o, t)
  BY <1>1 DEF Answers
<1>9. CASE ended.opresult # "OK" /\ FinishCurTra(f, r, ended.opresult)
  <2>1. Stands(r.location, r.listed, r.curlocation, r.cluster_end)
    BY <1>3, <1>9 DEF ResultOK
  <2>2. ended.opresult = "EOF" => r.listed = ListingOf(r)
    BY <1>3, <1>9 DEF ResultOK, ListingOf
  <2>3. FileOK(f, Over(r, ended.opresult))
    BY <1>3, <2>1, <2>2, OverOK
  <2> QED BY <1>8, <1>9, <2>3, DirFinished
<1>10. CASE /\ ended.opresult = "OK"
            /\ FinishCurTra(f, s, IF r.datalen < FdataSize THEN "INVALID_FDATABUF" ELSE "OK")
  <2> DEFINE result == IF r.datalen < FdataSize THEN "INVALID_FDATABUF" ELSE "OK"
  <2>1. result # "EOF" /\ FinishCurTra(f, s, result)
    BY <1>10
  <2> HIDE DEF result
  <2>2. Stands(s.location, s.listed, s.curlocation, s.cluster_end)
    BY <1>7, <1>10 DEF ResultOK, more
  <2>3. FileOK(f, Over(s, result))
    BY <1>7, <2>1, <2>2, OverOK
  <2> QED BY <1>8, <2>1, <2>3, DirFinished
<1> QED BY <1>4, <1>9, <1>10

\* The directory operation ends.
LEMMA DirEndsDir ==
  ASSUME IInv, DirInv, NEW f, Heads(f), file[f].tratype = "READ", file[f].directory,
         NEW ended \in OpRecord, ended.curop = "IDLE", ResultOK(file[f], ended), DirEnds(f, ended),
         Holding(buf')
  PROVE  DirTurn(f)
<1>1. CASE op' = ended /\ Continue(f, file[f], 1, 1)
  <2>1. f \in File /\ file \in [File -> FileRecord] /\ f = Head(tras) /\ ~file[f].finished
    BY QueueIs DEF IInv, FilesInv, Heads
  <2>2. file' = [file EXCEPT ![f] = file[f]] /\ tras' = tras
    BY <1>1 DEF Continue
  <2>3. file' = file
    BY <2>1, <2>2
  <2>4. ResultInv'
    BY <1>1, <2>1, <2>2, <2>3 DEF ResultInv
  <2>5. SearchInv' /\ op'.curop = "IDLE"
    BY <1>1 DEF SearchInv
  <2>6. \A g \in File : FileOK(g, file'[g])
    BY <2>3 DEF DirInv
  <2>7. DirInv'
    BY <2>4, <2>5, <2>6 DEF DirInv
  <2> QED BY <2>1, <2>3, <2>7 DEF DirTurn, Others, Answers
<1>2. CASE DirResult(f, ended)
  BY <1>2, DirResultDir
<1> QED BY <1>1, <1>2 DEF DirEnds

\* The search for the next entry.
LEMMA DirSearchDir ==
  ASSUME IInv, DirInv, NEW f, Heads(f), file[f].tratype = "READ", file[f].directory,
         NEW b, Holding(b), NEW l \in Nat, NEW end \in Nat,
         Stands(file[f].location, file[f].listed, l, end), DirSearch(f, b, l, end), Holding(buf')
  PROVE  DirTurn(f)
<1> DEFINE o == file[f]
           wanted == DOMAIN Entry
           stops == Stops(b, l, wanted)
           k == First(stops)
<1>1. o.listed \in Seq(Int) /\ o.tratype # "OPEN"
  BY ListingGoesOn DEF FileRecord
<1>2. \/ /\ ~InBuf(b, l, end) /\ OpLoad(l, end) /\ Continue(f, file[f], 1, 1)
      \/ /\ InBuf(b, l, end) /\ stops = {} /\ Exhausted(b, end) /\ Continue(f, file[f], 1, 1)
      \/ /\ InBuf(b, l, end) /\ stops # {} /\ EntryIn(b, k).kind = "end"
         /\ DirEnds(f, OpEnded("EOF", NoUnit, k, end))
      \/ /\ InBuf(b, l, end) /\ stops # {} /\ EntryIn(b, k).kind # "end"
         /\ DirEnds(f, OpEnded("OK", b.units[k % SectorUnits], k + 1, end))
  BY DEF DirSearch
<1> HIDE DEF stops, k, wanted
<1>3. CASE /\ ~InBuf(b, l, end) /\ OpLoad(l, end) /\ Continue(f, file[f], 1, 1)
  <2>1. AtPlace(l, end)
    BY <1>3, LoadIs
  <2>2. Searching(o, 1, l, end)
    BY <1>1 DEF Searching
  <2> QED BY <1>3, <2>1, <2>2, DirGoesOn
<1>4. CASE InBuf(b, l, end)
  <2>1. PICK c \in Directories : \E q \in Nat :
          /\ DirAt(c, q, l, end) /\ Clear(c, q)
          /\ o.location = ClusterToAddr(c) /\ o.listed = Shown(c, q)
    BY <1>4, NowhereIs DEF Stands
  <2>2. PICK q \in Nat : /\ DirAt(c, q, l, end) /\ Clear(c, q)
                         /\ o.location = ClusterToAddr(c) /\ o.listed = Shown(c, q)
    BY <2>1
  <2>3. /\ stops = {} => \E p \in Nat : Passes(c, q, p, wanted) /\ DirAt(c, p, BufEnd(b), end)
        /\ stops # {} => \E p \in Nat : Passes(c, q, p, wanted) /\ StopsAt(b, c, p, k, end, wanted)
    BY <2>2, <1>4, SearchIs DEF stops, k
  <2>4. CASE stops = {} /\ Exhausted(b, end) /\ Continue(f, file[f], 1, 1)
    <3>1. PICK p \in Nat : Passes(c, q, p, wanted) /\ DirAt(c, p, BufEnd(b), end)
      BY <2>3, <2>4
    <3>2. Shown(c, p) = Shown(c, q) /\ Clear(c, p)
      BY <3>1, DirAtBound, ListsNone DEF wanted
    <3>3. Stands(o.location, o.listed, BufEnd(b), end)
      BY <2>2, <3>1, <3>2 DEF Stands
    <3>4. AtPlace(BufEnd(b), end) /\ Searching(o, 1, BufEnd(b), end)
      BY <1>1, <2>4, <3>3, ExhaustedAt DEF Searching
    <3> QED BY <2>4, <3>4, DirGoesOn
  <2>5. CASE stops # {}
    <3>1. PICK p \in Nat : Passes(c, q, p, wanted) /\ StopsAt(b, c, p, k, end, wanted)
      BY <2>3, <2>5
    <3>2. /\ p \in Places(c) /\ k \in Nat /\ k = DataAt(c, p) /\ EntryIn(b, k) = EntryAt(c, p)
          /\ b.units[k % SectorUnits] = k /\ DirAt(c, p, k, end) /\ DirAt(c, p + 1, k + 1, end)
          /\ EntryAt(c, p).kind = "end" \/ EntryAt(c, p).kind = "entry"
      BY <3>1 DEF StopsAt
    <3>3. Shown(c, p) = Shown(c, q) /\ Clear(c, p)
      BY <3>1, <3>2, DirAtBound, ListsNone DEF wanted
    <3>4. CASE EntryIn(b, k).kind = "end" /\ DirEnds(f, OpEnded("EOF", NoUnit, k, end))
      <4> DEFINE ended == OpEnded("EOF", NoUnit, k, end)
      <4>1. /\ ended \in OpRecord /\ ended.curop = "IDLE" /\ ended.opresult = "EOF"
            /\ ended.location = k /\ ended.cluster_end = end
        BY <3>2 DEF OpEnded, OpRecord, NoUnit
      <4> HIDE DEF ended
      <4>2. o.listed = ListingOf(o)
        <5>1. Shown(c, p) = Listing[c]
          BY <3>2, <3>4, ShownAll
        <5>2. AddrToCluster(o.location) = c
          BY <2>2, DirAtStart
        <5> QED BY <5>1, <5>2, <2>2, <3>3 DEF ListingOf
      <4>3. Stands(o.location, o.listed, k, end)
        BY <2>2, <3>2, <3>3 DEF Stands
      <4>4. ResultOK(o, ended)
        BY <4>1, <4>2, <4>3 DEF ResultOK
      <4>5. DirEnds(f, ended)
        BY <3>4 DEF ended
      <4> QED BY <4>1, <4>4, <4>5, DirEndsDir
    <3>5. CASE /\ EntryIn(b, k).kind # "end"
               /\ DirEnds(f, OpEnded("OK", b.units[k % SectorUnits], k + 1, end))
      <4> DEFINE ended == OpEnded("OK", k, k + 1, end)
      <4>1. /\ ended \in OpRecord /\ ended.curop = "IDLE" /\ ended.opresult = "OK" /\ ended.fdata = k
            /\ ended.location = k + 1 /\ ended.cluster_end = end
        BY <3>2 DEF OpEnded, OpRecord
      <4>2. DirEnds(f, ended)
        BY <3>2, <3>5
      <4> HIDE DEF ended
      <4>3. EntryAt(c, p).kind = "entry"
        BY <3>2, <3>5
      <4>4. Clear(c, p + 1) /\ p \in LiveIn(c)
        <5>1. \A i \in 0 .. p : i \in 0 .. p - 1 \/ i = p
          OBVIOUS
        <5>2. \A i \in 0 .. p : EntryAt(c, i).kind # "end"
          BY <5>1, <3>3, <4>3 DEF Clear
        <5>3. (p + 1) - 1 = p
          OBVIOUS
        <5> QED BY <5>2, <5>3, <3>2, <4>3 DEF Clear, LiveIn
      <4>5. Append(o.listed, k) = Shown(c, p + 1)
        BY <2>2, <3>2, <3>3, <4>4, ShownNext
      <4>6. Stands(o.location, Append(o.listed, k), k + 1, end)
        BY <2>2, <3>2, <4>4, <4>5 DEF Stands
      <4>7. ResultOK(o, ended)
        BY <4>1, <4>6 DEF ResultOK
      <4> QED BY <4>1, <4>2, <4>7, DirEndsDir
    <3> QED BY <1>2, <1>4, <2>5, <3>4, <3>5
  <2> QED BY <1>2, <1>4, <2>4, <2>5
<1> QED BY <1>2, <1>3, <1>4
-----------------------------------------------------------------------------
(* A call of Run goes on with the operation. *)

\* The cluster that a search goes on in is the next one of its directory.
LEMMA NextPlace ==
  ASSUME IInv, DirInv, NEW f, Heads(f), op.curop # "IDLE", ~Stuck, op.opstate = 5,
         NEW c \in StorRun, c.errorcode = 0
  PROVE  /\ ~EndOfChain(c.next) =>
              Searching(file[f], seg, ClusterToAddr(c.next), ClusterToAddr(c.next) + ClusterUnits)
         /\ EndOfChain(c.next) => ~DirsEnd
<1> DEFINE l == op.location
           end == op.cluster_end
           o == file[f]
           next == c.next
           start == ClusterToAddr(next)
<1>1. Awaits(op, stra) /\ Searching(o, seg, l, end)
  BY DEF DirInv, SearchInv, Heads
<1>2. /\ ~(l < end) /\ ~stra.completed /\ stra.dst = "next_cluster"
      /\ stra.address = AddrToCluster(l) - 1
  BY <1>1 DEF Awaits, FindNextCluster, StorRead
<1>3. AddrToCluster(l) - 1 \in DOMAIN Fat => next = Fat[AddrToCluster(l) - 1]
  BY <1>2, StorRunIs
<1>4. ~Nowhere(l, end)
  BY <1>2, NowhereIs
<1>5. o.tratype \in {"OPEN", "READ"}
  BY DEF IInv, PhaseInv, Searches, DirReads, Heads
<1> HIDE DEF l, end, o, next
<1>6. ASSUME NEW d \in Directories, NEW q, DirAt(d, q, l, end), Clear(d, q)
      PROVE  /\ ~EndOfChain(next) => DirAt(d, q, start, start + ClusterUnits)
             /\ EndOfChain(next) => ~DirsEnd
  <2>1. /\ ~EndOfChain(next) => DirAt(d, q, start, start + ClusterUnits)
        /\ EndOfChain(next) => q = Units(d)
    BY <1>2, <1>3, <1>6, DirNext
  <2> QED BY <1>6, <2>1, NeverAtEnd
<1> HIDE DEF start
<1>7. CASE o.tratype = "READ"
  <2>1. PICK d \in Directories : \E q \in Nat :
          /\ DirAt(d, q, l, end) /\ Clear(d, q)
          /\ o.location = ClusterToAddr(d) /\ o.listed = Shown(d, q)
    BY <1>1, <1>4, <1>7 DEF Searching, Stands
  <2>2. PICK q \in Nat : /\ DirAt(d, q, l, end) /\ Clear(d, q)
                         /\ o.location = ClusterToAddr(d) /\ o.listed = Shown(d, q)
    BY <2>1
  <2>3. /\ ~EndOfChain(next) => DirAt(d, q, start, start + ClusterUnits)
        /\ EndOfChain(next) => ~DirsEnd
    BY <1>6, <2>2
  <2>4. ~EndOfChain(next) => Stands(o.location, o.listed, start, start + ClusterUnits)
    BY <2>2, <2>3 DEF Stands
  <2> QED BY <1>7, <2>3, <2>4 DEF Searching, o, next, start
<1>8. CASE o.tratype = "OPEN"
  <2>1. PICK d \in Directories : \E q \in Nat :
          /\ DirAt(d, q, l, end) /\ LeadsTo(PathOf(o), seg, d)
          /\ Passes(d, 0, q, Named(o.path[seg]))
    BY <1>1, <1>4, <1>8 DEF Searching, Seeking
  <2>2. PICK q \in Nat : /\ DirAt(d, q, l, end) /\ LeadsTo(PathOf(o), seg, d)
                         /\ Passes(d, 0, q, Named(o.path[seg]))
    BY <2>1
  <2>3. /\ ~EndOfChain(next) => DirAt(d, q, start, start + ClusterUnits)
        /\ EndOfChain(next) => ~DirsEnd
    BY <1>6, <2>2 DEF Passes
  <2>4. ~EndOfChain(next) => Seeking(o, seg, start, start + ClusterUnits)
    BY <2>2, <2>3 DEF Seeking
  <2> QED BY <1>8, <2>3, <2>4 DEF Searching, o, next, start
<1> QED BY <1>5, <1>7, <1>8

\* The end of the FAT chain, of a directory without an end mark.
LEMMA ChainEndsDir ==
  ASSUME IInv, DirInv, ~DirsEnd, NEW f, Heads(f), op.curop # "IDLE", op.opstate = 5, ChainEnds(f),
         Holding(buf')
  PROVE  DirTurn(f)
<1> DEFINE r == file[f]
<1>1. f \in File /\ file \in [File -> FileRecord] /\ r \in FileRecord /\ stra \in StorRecord
  BY QueueIs DEF IInv, FilesInv, FsysInv
<1>2. file' = [file EXCEPT ![f] = Over(r, "EOF")] /\ trastate' = 0
  BY DEF ChainEnds, Unchain, FinishTra, Over
<1>3. file'[f] = Over(r, "EOF") /\ \A g \in File : g # f => file'[g] = file[g]
  BY <1>1, <1>2
<1>4. FileOK(f, Over(r, "EOF"))
  <2>1. r.opened /\ r.directory => Stands(r.location, r.listed, r.curlocation, r.cluster_end)
    BY <1>1 DEF DirInv, FileOK
  <2> HIDE DEF r
  <2> QED BY <1>1, <2>1, OverOK
<1>5. \A g \in File : FileOK(g, file'[g])
  BY <1>1, <1>3, <1>4 DEF DirInv
<1>6. op' = op /\ stra'.completed
  BY <1>1 DEF ChainEnds, StorRecord
<1>7. Stuck'
  BY <1>2, <1>6 DEF Stuck
<1>8. SearchInv' /\ ResultInv'
  BY <1>6, <1>7 DEF SearchInv, ResultInv
<1>9. DirInv'
  <2>1. DirsEnd' <=> DirsEnd
    BY DEF DirsEnd, EntryAt
  <2> QED BY <1>5, <1>8, <2>1 DEF DirInv
<1> QED BY <1>3, <1>9 DEF DirTurn, Others

\* The operation goes on from the place of l and end.
LEMMA ContinuesDir ==
  ASSUME IInv, DirInv, NEW f, Heads(f), op.curop # "IDLE", ~Stuck, NEW b, Holding(b), b.addr \in Nat,
         NEW l \in Nat, NEW end \in Nat, Searching(file[f], seg, l, end), OpContinues(f, b, l, end),
         Holding(buf')
  PROVE  DirTurn(f)
<1>1. CASE file[f].tratype = "OPEN" /\ OpenSearch(f, seg, b, l, end)
  <2>1. Seeking(file[f], seg, l, end)
    BY <1>1 DEF Searching
  <2> QED BY <1>1, <2>1, OpenSearchDir
<1>2. CASE file[f].tratype = "READ" /\ DirSearch(f, b, l, end)
  <2>1. Stands(file[f].location, file[f].listed, l, end)
    BY <1>2 DEF Searching
  <2>2. file[f].directory
    BY <1>2 DEF IInv, PhaseInv, Searches, DirReads, Heads
  <2> QED BY <1>2, <2>1, <2>2, DirSearchDir
<1> QED BY <1>1, <1>2 DEF OpContinues

\* It fails.
LEMMA OpFailsDir ==
  ASSUME IInv, DirInv, NEW f, Heads(f), op.curop # "IDLE", ~Stuck, OpFails(f), Holding(buf')
  PROVE  DirTurn(f)
<1>1. CASE file[f].tratype = "OPEN" /\ FinishCurTra(f, file[f], "IOERROR")
  BY <1>1, OpenFails
<1>2. CASE file[f].tratype # "OPEN" /\ DirResult(f, OpEnded("IOERROR", NoUnit, op.location, op.cluster_end))
  <2> DEFINE ended == OpEnded("IOERROR", NoUnit, op.location, op.cluster_end)
  <2>1. file[f].tratype = "READ" /\ file[f].directory
    BY <1>2 DEF IInv, PhaseInv, Searches, DirReads, Heads
  <2>2. op.location \in Nat /\ op.cluster_end \in Nat
    BY DEF IInv, FsysInv, OpRecord
  <2>3. /\ ended \in OpRecord /\ ended.opresult = "IOERROR" /\ ended.location = op.location
        /\ ended.cluster_end = op.cluster_end
    BY <2>2 DEF OpEnded, OpRecord, NoUnit
  <2>4. DirResult(f, ended)
    BY <1>2
  <2> HIDE DEF ended
  <2>5. Stands(file[f].location, file[f].listed, op.location, op.cluster_end)
    BY <2>1 DEF DirInv, SearchInv, Searching, Heads
  <2>6. ResultOK(file[f], ended)
    BY <2>3, <2>5 DEF ResultOK
  <2> QED BY <2>1, <2>3, <2>4, <2>6, DirResultDir
<1> QED BY <1>1, <1>2 DEF OpFails

\* Run, with an operation under way.
LEMMA RunOpDir ==
  ASSUME FailsClean, IInv, DirInv, NEW f, f = Head(tras), RunOp
  PROVE  DirTurn(f)
<1>1. Heads(f) /\ op.curop # "IDLE"
  BY DEF RunOp, Heads, IInv, PhaseInv
<1>2. PICK c \in StorRun :
        LET b == BufAfter(c)
            start == ClusterToAddr(c.next)
        IN /\ buf' = b
           /\ \/ /\ c.errorcode # 0
                 /\ OpFails(f)
              \/ /\ c.errorcode = 0 /\ op.opstate # 5
                 /\ OpContinues(f, b, op.location, op.cluster_end)
              \/ /\ c.errorcode = 0 /\ op.opstate = 5
                 /\ IF EndOfChain(c.next) THEN ChainEnds(f)
                                          ELSE OpContinues(f, b, start, start + ClusterUnits)
  BY DEF RunOp
<1>3. op.location \in Nat /\ op.cluster_end \in Nat
  BY DEF IInv, FsysInv, OpRecord
<1> DEFINE b == BufAfter(c)
           start == ClusterToAddr(c.next)
<1>4. Awaits(op, stra) \/ (op.opstate = 5 /\ stra.completed)
  BY <1>1 DEF DirInv, SearchInv, Stuck
<1>5. Holding(b)
  BY <1>3, <1>4, HoldingAfter DEF DirInv
<1>6. b.addr \in Nat /\ buf' = b
  BY <1>2, <1>5 DEF Holding
<1> HIDE DEF b
<1>7. Holding(buf')
  BY <1>5, <1>6
<1>8. c.next \in Nat /\ (stra.completed => c.errorcode = 0 /\ c.next = 0)
  BY StorRunIs
<1>9. start \in Nat /\ start + ClusterUnits \in Nat
  BY <1>8, PlaceTypes, Sizes
<1> HIDE DEF start
<1>10. CASE Stuck
  <2>1. c.errorcode = 0 /\ c.next = 0 /\ op.opstate = 5
    BY <1>8, <1>10 DEF Stuck
  <2>2. EndOfChain(c.next)
    BY <2>1 DEF EndOfChain
  <2>3. ChainEnds(f)
    BY <1>2, <2>1, <2>2
  <2>4. ~DirsEnd
    BY <1>1, <1>10 DEF DirInv
  <2> QED BY <1>1, <1>7, <2>1, <2>3, <2>4, ChainEndsDir
<1>11. CASE ~Stuck
  <2>1. CASE OpFails(f)
    BY <1>1, <1>7, <1>11, <2>1, OpFailsDir
  <2>2. CASE c.errorcode = 0 /\ OpContinues(f, b, op.location, op.cluster_end)
    <3>1. Searching(file[f], seg, op.location, op.cluster_end)
      BY <1>1, <1>11 DEF DirInv, SearchInv, Heads
    <3> QED BY <1>1, <1>3, <1>5, <1>6, <1>7, <1>11, <2>2, <3>1, ContinuesDir
  <2>3. CASE c.errorcode = 0 /\ op.opstate = 5 /\ EndOfChain(c.next) /\ ChainEnds(f)
    <3>1. ~DirsEnd
      BY <1>1, <1>11, <2>3, NextPlace
    <3> QED BY <1>1, <1>7, <2>3, <3>1, ChainEndsDir
  <2>4. CASE /\ c.errorcode = 0 /\ op.opstate = 5 /\ ~EndOfChain(c.next)
             /\ OpContinues(f, b, start, start + ClusterUnits)
    <3>1. Searching(file[f], seg, start, start + ClusterUnits)
      BY <1>1, <1>11, <2>4, NextPlace DEF start
    <3> QED BY <1>1, <1>5, <1>6, <1>7, <1>9, <1>11, <2>4, <3>1, ContinuesDir
  <2> QED BY <1>2, <2>1, <2>2, <2>3, <2>4 DEF b, start
<1> QED BY <1>10, <1>11
-----------------------------------------------------------------------------
(* A Read or Seek of a file leaves the directories alone. *)

\* The place of a file with data is in a cluster of the volume.
LEMMA InVolume ==
  ASSUME NEW t, Good(t), t.opened, ~t.directory, ~t.strayed, t.size > 0, NEW next,
         t.cluster_end = ClusterToAddr(next) + ClusterUnits, ClusterToAddr(next) \in Nat
  PROVE  ~EndOfChain(next)
<1>1. PICK c \in DOMAIN Chain : Located(t, c)
  BY DEF Good, PlaceOK
<1>2. PICK m \in 0 .. Len(Chain[c]) - 1 : \E k \in 0 .. ClusterUnits : At(t, c, m, k)
  BY <1>1 DEF Located
<1> DEFINE x == Chain[c][m + 1]
<1>3. m + 1 \in 1 .. Len(Chain[c]) /\ Inside(x)
  BY ChainIs
<1>4. t.cluster_end = ClusterToAddr(x) + ClusterUnits
  BY <1>2 DEF At
<1> HIDE DEF x
<1>5. x \in Nat /\ x >= 2 /\ AddrToCluster(ClusterToAddr(x)) = x /\ ClusterToAddr(x) \in Nat
  <2>1. x \in Nat /\ AddrToCluster(ClusterToAddr(x)) = x
    BY <1>3, ClusterOf
  <2>2. x >= 2
    BY <1>3, Sizes DEF Inside
  <2> QED BY <2>1, <2>2, PlaceTypes
<1>6. ClusterToAddr(x) = ClusterToAddr(next)
  <2> DEFINE u == ClusterToAddr(x)
             v == ClusterToAddr(next)
  <2>1. u \in Nat /\ v \in Nat /\ u + ClusterUnits = v + ClusterUnits
    BY <1>4, <1>5
  <2> HIDE DEF u, v
  <2>2. u = v
    BY <2>1, Sizes
  <2> QED BY <2>2 DEF u, v
<1>7. ClusterToAddr(next) # InvalidAddr
  BY <1>5, <1>6, BeyondIs
<1> QED BY <1>7 DEF ClusterToAddr, EndOfChain

\* A transaction of an open file that goes on.
LEMMA FileGoesOn ==
  ASSUME NEW f, NEW o, FileOK(f, o), ~o.directory, NEW r, r.opened, ~r.directory,
         r.tratype # "OPEN", r.result = o.result, r.strayed = o.strayed
  PROVE  FileOK(f, r)
BY DEF FileOK, EofOK

\* It ends, with anything but EOF unless it has strayed.
LEMMA FileEnds ==
  ASSUME IInv, DirInv, NEW f, Heads(f), file[f].tratype # "OPEN", NEW r \in FileRecord, ~r.directory,
         NEW result, DirsEnd => result # "EOF" \/ r.strayed, FinishCurTra(f, r, result), Holding(buf')
  PROVE  DirTurn(f)
<1>1. FileOK(f, Over(r, result))
  BY OverOK
<1>2. Answers(file[f], Over(r, result))
  BY DEF Answers
<1> QED BY <1>1, <1>2, DirFinished

\* A file of which there is something to read has data.
LEMMA ToReadIs ==
  ASSUME NEW r, Good(r), ~r.finished, r.tratype = "READ", ~r.directory, r.remaining # 0
  PROVE  r.opened /\ r.size > 0
<1>1. r \in FileRecord /\ r.opened /\ r.filepos <= r.size /\ r.filepos + r.remaining = r.from + ToRead(r)
  BY DEF Good, PlaceOK, ReadOK
<1>2. /\ r.filepos \in Nat /\ r.size \in Nat /\ r.remaining \in Nat /\ r.from \in Nat /\ r.datalen \in Nat
  BY <1>1 DEF FileRecord
<1>3. r.from <= r.filepos
  BY DEF Good, ReadOK
<1>4. r.from + ToRead(r) <= r.size
  BY <1>1, <1>2, <1>3 DEF ToRead
<1>5. ToRead(r) \in Int
  BY <1>2 DEF ToRead
<1> QED BY <1>1, <1>2, <1>4, <1>5

\* A Read of a file.
LEMMA FileReadDir ==
  ASSUME IInv, DirInv, NEW f, Heads(f), op.curop = "IDLE", file[f].tratype = "READ", ~file[f].directory,
         NEW c \in StorRun, c.errorcode = 0, FileRead(f, c.next), Holding(buf')
  PROVE  DirTurn(f)
<1> DEFINE o == file[f]
           r == Advanced(o, Moved, stra.address)
<1>1. /\ Good(r) /\ ~r.finished /\ r.tratype = "READ" /\ ~r.directory
      /\ trastate = 5 =>
           /\ Chunk(r) = 0 /\ r.remaining # 0
           /\ AddrToCluster(r.curlocation) - 1 \in DOMAIN Fat =>
                c.next = Fat[AddrToCluster(r.curlocation) - 1]
  BY ReadGoesOn
<1>2. \/ r.remaining = 0 /\ FinishCurTra(f, r, "OK")
      \/ r.remaining # 0 /\ trastate # 5 /\ ReadChunk(f, r)
      \/ /\ r.remaining # 0 /\ trastate = 5
         /\ IF EndOfChain(c.next) THEN FinishCurTra(f, r, "EOF")
            ELSE ReadChunk(f, Enters(r, c.next))
  BY DEF FileRead, Advanced, Moved, Enters
<1>3. f \in File /\ o \in FileRecord /\ ~o.finished /\ FileOK(f, o)
  BY QueueIs DEF IInv, DirInv
<1>4. r.result = o.result /\ r.strayed = o.strayed
  BY <1>3 DEF FileRecord, Advanced
<1> HIDE DEF r
<1>5. r \in FileRecord /\ r.opened
  BY <1>1 DEF Good, ReadOK
<1>6. FileOK(f, r)
  BY <1>1, <1>3, <1>4, <1>5, FileGoesOn
<1>7. ASSUME NEW t, ReadChunk(f, t), ~t.finished, ~t.directory, FileOK(f, t) PROVE DirTurn(f)
  <2>1. op' = op /\ \E state : Continue(f, t, state, 1)
    BY <1>7 DEF ReadChunk
  <2>2. PICK state : Continue(f, t, state, 1)
    BY <2>1
  <2> QED BY <1>7, <2>1, <2>2, DirGoesOnInFile
<1>8. CASE r.remaining = 0 /\ FinishCurTra(f, r, "OK")
  BY <1>1, <1>5, <1>8, FileEnds
<1>9. CASE r.remaining # 0 /\ ReadChunk(f, r)
  BY <1>1, <1>6, <1>7, <1>9
<1>10. CASE r.remaining # 0 /\ trastate = 5
  <2> DEFINE t == Enters(r, c.next)
  <2>1. c.next \in Nat /\ ClusterToAddr(c.next) \in Nat
    BY StorRunIs, PlaceTypes
  <2>2. Good(t)
    BY <1>1, <1>10, <2>1, EntersGood
  <2>3. /\ t.finished = r.finished /\ t.tratype = r.tratype /\ t.directory = r.directory
        /\ t.remaining = r.remaining /\ t.result = r.result /\ t.strayed = r.strayed
        /\ t.opened = r.opened /\ t.cluster_end = ClusterToAddr(c.next) + ClusterUnits
    BY <1>5 DEF FileRecord, Enters
  <2> HIDE DEF t
  <2>4. ~t.finished /\ t.tratype = "READ" /\ ~t.directory /\ t.remaining # 0 /\ t.opened
    BY <1>1, <1>5, <1>10, <2>3
  <2>5. EndOfChain(c.next) => r.strayed
    <3>1. t.size > 0
      BY <2>2, <2>4, ToReadIs
    <3> QED BY <2>1, <2>2, <2>3, <2>4, <3>1, InVolume
  <2>6. CASE EndOfChain(c.next) /\ FinishCurTra(f, r, "EOF")
    BY <1>1, <1>5, <2>5, <2>6, FileEnds
  <2>7. CASE ReadChunk(f, t)
    <3>1. FileOK(f, t)
      BY <1>3, <1>4, <2>3, <2>4, FileGoesOn
    <3> QED BY <1>7, <2>4, <2>7, <3>1
  <2> QED BY <1>2, <1>10, <2>6, <2>7 DEF t
<1> QED BY <1>2, <1>8, <1>9, <1>10

\* A Seek of a file.
LEMMA FileSeekDir ==
  ASSUME IInv, DirInv, NEW f, Heads(f), op.curop = "IDLE", file[f].tratype = "SEEK",
         NEW c \in StorRun, c.errorcode = 0, FileSeek(f, c.next), Holding(buf')
  PROVE  DirTurn(f)
<1> DEFINE r == file[f]
<1>1. f \in File /\ Good(r) /\ r \in FileRecord /\ ~r.finished /\ FileOK(f, r)
  BY QueueIs DEF IInv, DirInv
<1>2. r.opened /\ ~r.directory
  BY <1>1 DEF Good, SeekOK
<1>3. ASSUME NEW t, SeekWalk(f, t), Good(t), ~t.finished, t.tratype = "SEEK", ~t.directory, FileOK(f, t)
      PROVE  DirTurn(f)
  <2>1. CASE op' = op /\ Continue(f, t, 5, 1)
    BY <1>3, <2>1, DirGoesOnInFile
  <2>2. CASE t.filepos + ClusterUnits >= t.targetpos /\ FinishCurTra(f, Arrives(t), "OK")
    <3>1. Arrives(t) \in FileRecord
      BY <1>3, <2>2, ArrivesGood
    <3>2. t \in FileRecord
      BY <1>3 DEF Good
    <3>3. ~Arrives(t).directory
      BY <1>3, <3>2 DEF FileRecord, Arrives
    <3> QED BY <2>2, <3>1, <3>3, FileEnds
  <2> QED BY <1>3, <2>1, <2>2 DEF SeekWalk, Arrives
<1>4. CASE trastate # 5
  <2>1. SeekWalk(f, r)
    BY <1>4 DEF FileSeek
  <2> QED BY <1>1, <1>2, <1>3, <2>1
<1>5. CASE trastate = 5
  <2>1. SeeksFat(r)
    BY <1>5 DEF IInv, PhaseInv, DirReads, ReadsChunk, ReadsFat, Heads
  <2>2. /\ r.filepos + ClusterUnits < r.targetpos /\ ~stra.completed /\ stra.dst = "next_cluster"
        /\ stra.address = AddrToCluster(r.curlocation)
    BY <2>1 DEF SeeksFat, FindNextCluster, StorRead
  <2>3. /\ c.next \in Nat /\ ClusterToAddr(c.next) \in Nat
        /\ (AddrToCluster(r.curlocation) \in DOMAIN Fat => c.next = Fat[AddrToCluster(r.curlocation)])
    BY <2>2, StorRunIs, PlaceTypes
  <2> DEFINE t == Steps(r, c.next)
  <2>4. Good(t)
    BY <1>1, <2>2, <2>3, StepsGood
  <2>5. /\ ~t.finished /\ t.tratype = "SEEK" /\ t.result = r.result /\ t.strayed = r.strayed
        /\ t.cluster_end = ClusterToAddr(c.next) + ClusterUnits
    BY <1>1 DEF FileRecord, Steps
  <2> HIDE DEF t
  <2>6. /\ t.opened /\ ~t.directory /\ ~t.strayed /\ t.filepos < t.targetpos /\ t.targetpos <= t.size
        /\ t \in FileRecord
    BY <2>4, <2>5 DEF Good, SeekOK
  <2>7. t.size > 0
    <3>1. t.filepos \in Nat /\ t.targetpos \in Nat /\ t.size \in Nat
      BY <2>6 DEF FileRecord
    <3> QED BY <2>6, <3>1
  <2>8. ~EndOfChain(c.next)
    BY <2>3, <2>4, <2>5, <2>6, <2>7, InVolume
  <2>9. SeekWalk(f, t)
    BY <1>5, <2>8 DEF FileSeek, Steps, t
  <2>10. FileOK(f, t)
    BY <1>1, <1>2, <2>5, <2>6, FileGoesOn
  <2> QED BY <1>3, <2>4, <2>5, <2>6, <2>9, <2>10
<1> QED BY <1>4, <1>5
-----------------------------------------------------------------------------
(* Every call keeps the directories in order. *)

\* Run, with no operation under way.
LEMMA RunTransactionDir ==
  ASSUME IInv, DirInv, NEW f, f = Head(tras), RunTransaction
  PROVE  DirTurn(f)
<1>1. Heads(f) /\ op.curop = "IDLE" /\ UNCHANGED <<buf, mount>>
  BY DEF RunTransaction, Heads
<1>2. PICK c \in StorRun :
        \/ c.errorcode # 0 /\ FinishCurTra(f, file[f], "IOERROR")
        \/ c.errorcode = 0 /\ HandleTransaction(f, c.next)
  BY DEF RunTransaction
<1>3. Holding(buf) /\ Holding(buf') /\ op \in OpRecord
  BY <1>1 DEF IInv, FsysInv, DirInv, Holding
<1>4. CASE FinishCurTra(f, file[f], "IOERROR")
  <2> DEFINE r == file[f]
             u == Over(r, "IOERROR")
  <2>1. f \in File /\ r \in FileRecord
    BY <1>1, QueueIs DEF IInv
  <2>2. r.opened /\ r.directory => Stands(r.location, r.listed, r.curlocation, r.cluster_end)
    BY <2>1 DEF DirInv, FileOK
  <2>3. u.result = "IOERROR"
    BY <2>1 DEF FileRecord, Over
  <2> HIDE DEF u
  <2>4. Answers(r, u)
    BY <2>3 DEF Answers
  <2> HIDE DEF r
  <2>5. FileOK(f, u)
    BY <2>1, <2>2, OverOK DEF u
  <2> QED BY <1>1, <1>3, <1>4, <2>4, <2>5, DirFinished DEF r, u
<1>5. CASE c.errorcode = 0 /\ HandleTransaction(f, c.next)
  <2>1. CASE file[f].tratype = "OPEN" /\ OpenStart(f)
    BY <2>1, <1>1, OpenStartDir
  <2>2. CASE file[f].tratype = "READ" /\ file[f].directory /\ DirReadStart(f)
    <3>1. file[f].curlocation \in Nat /\ file[f].cluster_end \in Nat
      <4>1. file[f] \in FileRecord
        BY <1>1, QueueIs DEF IInv
      <4> QED BY <4>1 DEF FileRecord
    <3>2. DirSearch(f, buf, file[f].curlocation, file[f].cluster_end)
      BY <2>2 DEF DirReadStart
    <3>3. Stands(file[f].location, file[f].listed, file[f].curlocation, file[f].cluster_end)
      BY <1>1, <2>2, ListingGoesOn
    <3> QED BY <2>2, <3>1, <3>2, <3>3, <1>1, <1>3, DirSearchDir
  <2>3. CASE /\ file[f].tratype = "READ" /\ file[f].directory /\ trastate = 1
             /\ DirResult(f, op)
    <3>1. ResultOK(file[f], op)
      BY <1>1, <2>3 DEF DirInv, ResultInv, Heads
    <3> QED BY <2>3, <3>1, <1>1, <1>3, DirResultDir
  <2>4. CASE file[f].tratype = "READ" /\ ~file[f].directory /\ FileRead(f, c.next)
    BY <2>4, <1>1, <1>3, <1>5, FileReadDir
  <2>5. CASE file[f].tratype = "SEEK" /\ FileSeek(f, c.next)
    BY <2>5, <1>1, <1>3, <1>5, FileSeekDir
  <2> QED BY <1>5, <2>1, <2>2, <2>3, <2>4, <2>5 DEF HandleTransaction
<1> QED BY <1>2, <1>4, <1>5

\* Run, while the volume is not mounted.
LEMMA RunInitDir ==
  ASSUME IInv, DirInv, RunInit
  PROVE  DirInv' /\ file' = file
<1>1. UNCHANGED <<file, tras, trastate, seg, op, buf>> /\ mount # "ok"
  BY DEF RunInit
<1>2. op.curop = "IDLE" /\ trastate = 0
  BY <1>1 DEF IInv, PhaseInv
<1>3. op'.curop = "IDLE" /\ trastate' = 0
  BY <1>1, <1>2
<1>4. Holding(buf')
  BY <1>1 DEF DirInv
<1>5. \A f \in File : FileOK(f, file'[f])
  BY <1>1 DEF DirInv
<1>6. SearchInv' /\ ResultInv'
  BY <1>3 DEF SearchInv, ResultInv
<1> QED BY <1>1, <1>3, <1>4, <1>5, <1>6 DEF DirInv

\* A call of a client changes a file that waits for nothing.
LEMMA ClientDir ==
  ASSUME IInv, DirInv, NEW f \in File, file[f].finished, NEW t, FileOK(f, t),
         file' = [file EXCEPT ![f] = t], UNCHANGED fsys, tras' = tras \/ tras' = Append(tras, f)
  PROVE  DirTurn(f)
<1>1. file \in [File -> FileRecord] /\ tras \in Seq(File)
  BY DEF IInv, FilesInv, QueueInv
<1>2. file'[f] = t /\ \A g \in File : g # f => file'[g] = file[g]
  BY <1>1
<1>3. UNCHANGED <<trastate, seg, op, buf, stra, mount>>
  BY DEF fsys
<1>4. tras # <<>> => tras' # <<>> /\ Head(tras') = Head(tras) /\ file'[Head(tras)] = file[Head(tras)]
  <2> SUFFICES ASSUME tras # <<>>
               PROVE  tras' # <<>> /\ Head(tras') = Head(tras) /\ file'[Head(tras)] = file[Head(tras)]
    OBVIOUS
  <2>1. Len(tras) \in Nat /\ 1 \in 1 .. Len(tras) /\ Head(tras) = tras[1] /\ tras[1] \in File
    BY <1>1
  <2>2. Append(tras, f) # <<>> /\ Head(Append(tras, f)) = Append(tras, f)[1] /\ Append(tras, f)[1] = tras[1]
    BY <1>1, <2>1
  <2>3. ~file[Head(tras)].finished
    BY <2>1 DEF IInv, QueueInv
  <2> QED BY <2>1, <2>2, <2>3, <1>2
<1>5. tras = <<>> => trastate = 0 /\ (op.curop # "IDLE" => Stuck)
  BY DEF IInv, PhaseInv
<1>6. Stuck' <=> Stuck
  BY <1>3 DEF Stuck
<1>7. SearchInv'
  <2>1. CASE tras = <<>>
    BY <2>1, <1>3, <1>5, <1>6 DEF SearchInv
  <2>2. CASE tras # <<>>
    <3>1. ASSUME op.curop # "IDLE", ~Stuck
          PROVE  Awaits(op', stra') /\ Searching(file'[Head(tras')], seg', op'.location, op'.cluster_end)
      BY <2>2, <3>1, <1>3, <1>4 DEF DirInv, SearchInv
    <3> QED BY <3>1, <1>3, <1>6 DEF SearchInv
  <2> QED BY <2>1, <2>2
<1>8. ResultInv'
  <2>1. CASE tras = <<>>
    BY <2>1, <1>3, <1>5 DEF ResultInv
  <2>2. CASE tras # <<>>
    BY <2>2, <1>3, <1>4 DEF DirInv, ResultInv
  <2> QED BY <2>1, <2>2
<1>9. \A g \in File : FileOK(g, file'[g])
  BY <1>2 DEF DirInv
<1>10. DirInv'
  BY <1>3, <1>6, <1>7, <1>8, <1>9 DEF DirInv
<1>11. Answers(file[f], file'[f])
  BY DEF Answers
<1> QED BY <1>2, <1>10, <1>11 DEF DirTurn, Others

\* A call that ends at once.
LEMMA EndsDir ==
  ASSUME IInv, DirInv, NEW f \in File, file[f].finished, NEW r, NEW result, Ends(f, r, result),
         UNCHANGED fsys, FileOK(f, Over(r, result))
  PROVE  DirTurn(f)
<1>1. file' = [file EXCEPT ![f] = Over(r, result)] /\ tras' = tras
  BY DEF Ends, FinishTra, Over
<1> QED BY <1>1, ClientDir

\* A call that puts its transaction into the queue.
LEMMA AddsDir ==
  ASSUME IInv, DirInv, NEW f \in File, file[f].finished, NEW r, NEW type, AddTransaction(f, r, type),
         UNCHANGED fsys, FileOK(f, Starts(r, type))
  PROVE  DirTurn(f)
<1>1. file' = [file EXCEPT ![f] = Starts(r, type)] /\ tras' = Append(tras, f)
  BY DEF AddTransaction, Starts
<1> QED BY <1>1, ClientDir

\* An Open.
LEMMA OpenDir ==
  ASSUME IInv, DirInv, NEW f \in File, NEW path \in Paths[f], Open(f, path)
  PROVE  DirTurn(f)
<1>1. file[f] \in FileRecord /\ file[f].finished /\ UNCHANGED fsys
  BY DEF IInv, FilesInv, Open
<1> DEFINE r == Opening(file[f], path)
           t == Starts(r, "OPEN")
<1>2. AddTransaction(f, r, "OPEN")
  BY DEF Open, Opening
<1>3. /\ t.opened = FALSE /\ t.listed = <<>> /\ t.path = path.segments /\ t.directory = path.directory
      /\ t.tratype = "OPEN" /\ t.result = "OK"
  BY <1>1 DEF FileRecord, Opening, Starts
<1> HIDE DEF r, t
<1>4. PathOf(t) \in Paths[f]
  <2>1. path = [segments |-> path.segments, directory |-> path.directory]
    BY ClientAssumption
  <2>2. PathOf(t) = [segments |-> path.segments, directory |-> path.directory]
    BY <1>3 DEF PathOf
  <2> QED BY <2>1, <2>2
<1>5. FileOK(f, t)
  BY <1>3, <1>4 DEF FileOK, EofOK
<1> QED BY <1>1, <1>2, <1>5, AddsDir DEF t

\* A Read.
LEMMA ReadDir ==
  ASSUME IInv, DirInv, NEW f \in File, NEW len \in Lengths, Read(f, len)
  PROVE  DirTurn(f)
<1> DEFINE r == file[f]
           cut == ~r.directory /\ r.filepos + len > r.size
           pos == IF cut /\ r.filepos > r.size THEN r.size ELSE r.filepos
           left == IF cut THEN r.size - pos ELSE len
           s == [r EXCEPT !.datalen = len, !.got = <<>>]
<1>1. r \in FileRecord /\ r.finished /\ UNCHANGED fsys /\ len \in Nat /\ FileOK(f, r)
  BY ClientAssumption DEF IInv, FilesInv, DirInv, Read
<1>2. \/ ~r.opened /\ Ends(f, s, "FILE_NOT_OPEN")
      \/ r.opened /\ AddTransaction(f, Reading(r, len, pos, left), "READ")
  BY DEF Read, Reading
<1> HIDE DEF pos, left
<1>3. CASE ~r.opened /\ Ends(f, s, "FILE_NOT_OPEN")
  <2>1. <<>> \in Seq(Nat)
    OBVIOUS
  <2>2. s \in FileRecord /\ s.opened = r.opened
    BY <1>1, <2>1 DEF FileRecord
  <2>3. Ends(f, s, "FILE_NOT_OPEN")
    BY <1>3
  <2> HIDE DEF s
  <2>4. FileOK(f, Over(s, "FILE_NOT_OPEN"))
    BY <1>3, <2>2, OverOK
  <2> QED BY <1>1, <2>3, <2>4, EndsDir
<1>4. CASE r.opened /\ AddTransaction(f, Reading(r, len, pos, left), "READ")
  <2> DEFINE u == Reading(r, len, pos, left)
             t == Starts(u, "READ")
  <2>1. /\ t.opened = r.opened /\ t.directory = r.directory /\ t.location = r.location
        /\ t.listed = r.listed /\ t.curlocation = r.curlocation /\ t.cluster_end = r.cluster_end
        /\ t.tratype = "READ" /\ t.result = "OK"
    BY <1>1 DEF FileRecord, Reading, Starts
  <2>2. AddTransaction(f, u, "READ")
    BY <1>4
  <2> HIDE DEF t, u
  <2>3. FileOK(f, t)
    BY <1>1, <1>4, <2>1 DEF FileOK, EofOK
  <2> QED BY <1>1, <2>2, <2>3, AddsDir DEF t
<1> QED BY <1>2, <1>3, <1>4

\* A Seek.
LEMMA SeekDir ==
  ASSUME IInv, DirInv, NEW f \in File, NEW pos \in Positions, Seek(f, pos)
  PROVE  DirTurn(f)
<1> DEFINE r == [file[f] EXCEPT !.got = <<>>]
<1>1. file[f] \in FileRecord /\ PlaceOK(file[f]) /\ UNCHANGED fsys /\ pos \in Nat
  BY ClientAssumption DEF IInv, FilesInv, Good, Seek
<1>2. r \in FileRecord
  <2>1. <<>> \in Seq(Nat)
    OBVIOUS
  <2> QED BY <1>1, <2>1 DEF FileRecord
<1>3. SamePlace(r, file[f]) /\ r.finished = file[f].finished
  BY <1>1 DEF FileRecord, SamePlace
<1>4. /\ r.finished /\ ~r.directory
      /\ \/ r.opened /\ pos <= r.size /\ SeekInCluster(f, r, pos)
         \/ r.opened /\ pos <= r.size /\ SeekFromStart(f, r, pos)
         \/ Ends(f, r, "FILE_NOT_OPEN")
         \/ Ends(f, r, "SEEK_BEYOND_EOF")
  BY DEF Seek
<1> HIDE DEF r
<1>5. PlaceOK(r) /\ file[f].finished
  BY <1>1, <1>3, <1>4, PlaceSame
\* It ends at once, with no EOF.
<1>6. ASSUME NEW t \in FileRecord, ~t.directory, NEW result, result # "EOF", Ends(f, t, result)
      PROVE  DirTurn(f)
  <2>1. FileOK(f, Over(t, result))
    BY <1>6, OverOK
  <2> QED BY <1>1, <1>5, <1>6, <2>1, EndsDir
<1>7. CASE r.opened /\ pos <= r.size /\ SeekInCluster(f, r, pos)
  <2> DEFINE t == InCluster(r, pos)
  <2>1. StartOf(pos) = StartOf(r.filepos) /\ Ends(f, t, "OK")
    BY <1>7 DEF SeekInCluster, InCluster
  <2>2. t \in FileRecord
    BY <1>1, <1>2, <1>4, <1>5, <1>7, <2>1, InClusterGood
  <2>3. ~t.directory
    BY <1>2, <1>4 DEF FileRecord, InCluster
  <2> HIDE DEF t
  <2> QED BY <1>6, <2>1, <2>2, <2>3
<1>8. CASE r.opened /\ pos <= r.size /\ SeekFromStart(f, r, pos)
  <2>1. IF pos < ClusterUnits THEN Ends(f, InFirst(FromStart(r, pos), pos), "OK")
                              ELSE AddTransaction(f, FromStart(r, pos), "SEEK")
    BY <1>8 DEF SeekFromStart, FromStart, InFirst
  <2> DEFINE s == FromStart(r, pos)
  <2>2. s \in FileRecord /\ s.directory = r.directory
    BY <1>1, <1>2, FromStartIs
  <2>3. CASE pos < ClusterUnits
    <3> DEFINE t == InFirst(s, pos)
    <3>1. t \in FileRecord
      BY <1>1, <1>2, <1>4, <1>5, <1>8, <2>3, InFirstGood
    <3> HIDE DEF s
    <3>2. Ends(f, t, "OK")
      BY <2>1, <2>3 DEF s
    <3>3. ~t.directory
      BY <1>4, <2>2 DEF FileRecord, InFirst
    <3> HIDE DEF t
    <3> QED BY <1>6, <3>1, <3>2, <3>3
  <2>4. CASE ~(pos < ClusterUnits)
    <3> DEFINE t == Starts(s, "SEEK")
    <3>1. AddTransaction(f, s, "SEEK")
      BY <2>1, <2>4
    <3> HIDE DEF s
    <3>2. t.directory = s.directory /\ t.tratype = "SEEK" /\ t.result = "OK"
      BY <2>2 DEF FileRecord, Starts
    <3> HIDE DEF t
    <3>3. FileOK(f, t)
      BY <1>4, <2>2, <3>2 DEF FileOK, EofOK
    <3> QED BY <1>1, <1>5, <3>1, <3>3, AddsDir DEF t
  <2> QED BY <2>3, <2>4
<1>9. CASE Ends(f, r, "FILE_NOT_OPEN")
  BY <1>2, <1>4, <1>6, <1>9
<1>10. CASE Ends(f, r, "SEEK_BEYOND_EOF")
  BY <1>2, <1>4, <1>6, <1>10
<1> QED BY <1>4, <1>7, <1>8, <1>9, <1>10

\* No Open that ends has found anything but what its path leads to.
Answered == \A f \in File : Answers(file[f], file'[f])

\* One step of the system.
LEMMA NextDir ==
  ASSUME FailsClean, IInv, DirInv, [Next]_vars
  PROVE  DirInv' /\ (DirsEnd => Answered)
<1>1. \A f \in File : file[f] = file'[f] => Answers(file[f], file'[f])
  BY DEF Answers
<1>2. ASSUME NEW f, DirTurn(f) PROVE DirInv' /\ (DirsEnd => Answered)
  BY <1>1, <1>2 DEF DirTurn, Others, Answered
<1>3. CASE RunInit
  BY <1>1, <1>3, RunInitDir DEF Answered
<1>4. CASE RunOp
  <2>1. PICK f : f = Head(tras)
    OBVIOUS
  <2>2. DirTurn(f)
    BY <1>4, <2>1, RunOpDir
  <2> QED BY <1>2, <2>2
<1>5. CASE RunTransaction
  <2>1. PICK f : f = Head(tras)
    OBVIOUS
  <2>2. DirTurn(f)
    BY <1>5, <2>1, RunTransactionDir
  <2> QED BY <1>2, <2>2
<1>6. ASSUME NEW f \in File, NEW p \in Paths[f], Open(f, p)
      PROVE  DirInv' /\ (DirsEnd => Answered)
  BY <1>2, <1>6, OpenDir
<1>7. ASSUME NEW f \in File, NEW n \in Lengths, Read(f, n)
      PROVE  DirInv' /\ (DirsEnd => Answered)
  BY <1>2, <1>7, ReadDir
<1>8. ASSUME NEW f \in File, NEW pos \in Positions, Seek(f, pos)
      PROVE  DirInv' /\ (DirsEnd => Answered)
  BY <1>2, <1>8, SeekDir
<1>9. CASE UNCHANGED vars
  <2>1. UNCHANGED <<file, tras, trastate, seg, op, buf, stra, mount>>
    BY <1>9 DEF vars, fsys
  <2>2. Holding(buf') /\ \A f \in File : FileOK(f, file'[f])
    BY <2>1 DEF DirInv
  <2>3. Stuck' <=> Stuck
    BY <2>1 DEF Stuck
  <2>4. SearchInv' /\ ResultInv'
    BY <2>1, <2>3 DEF DirInv, SearchInv, ResultInv
  <2>5. DirInv'
    BY <2>1, <2>2, <2>3, <2>4 DEF DirInv
  <2> QED BY <1>1, <2>1, <2>5 DEF Answered
<1> QED BY <1>3, <1>4, <1>5, <1>6, <1>7, <1>8, <1>9 DEF Next, Run

\* The first state.
LEMMA InitDir == Init => DirInv
<1> SUFFICES ASSUME Init PROVE DirInv
  OBVIOUS
<1>1. Holding(buf)
  <2>1. 0 \in Int /\ InvalidBuf \in Nat
    BY DEF InvalidBuf
  <2> QED BY <2>1 DEF Init, Holding, NoUnit
<1>2. \A f \in File : FileOK(f, file[f])
  BY DEF Init, FileOK, EofOK
<1>3. op.curop = "IDLE" /\ trastate = 0
  BY DEF Init, OpIdle, OpEnded
<1> QED BY <1>1, <1>2, <1>3 DEF DirInv, SearchInv, ResultInv

\* The invariant of the directories holds as long as no read of a sector fails half way.
LEMMA DirInvariance == ASSUME FailsClean PROVE Spec => []DirInv
<1>1. IInv /\ DirInv /\ [Next]_vars => DirInv'
  BY NextDir
<1> QED BY <1>1, InitDir, Invariance, PTL DEF Spec

\* What a directory has listed is the beginning of what it has to list.
LEMMA StandsInOrder ==
  ASSUME NEW r, NEW l, NEW e, Stands(r.location, r.listed, l, e)
  PROVE  LET all == ListingOf(r)
         IN Len(r.listed) <= Len(all) /\ r.listed = SubSeq(all, 1, Len(r.listed))
<1>1. CASE r.location = InvalidAddr /\ r.listed = <<>>
  <2>1. 0 \notin Directories
    BY DirectoryIs, Sizes DEF Inside
  <2>2. ListingOf(r) = <<>>
    BY <1>1, <2>1, BeyondIs DEF ListingOf
  <2>3. Len(<<>>) = 0 /\ SubSeq(<<>>, 1, 0) = <<>>
    OBVIOUS
  <2> QED BY <1>1, <2>2, <2>3
<1>2. CASE \E c \in Directories : \E q \in Nat : r.location = ClusterToAddr(c) /\ r.listed = Shown(c, q)
  <2>1. PICK c \in Directories : \E q \in Nat : r.location = ClusterToAddr(c) /\ r.listed = Shown(c, q)
    BY <1>2
  <2>2. PICK q \in Nat : r.location = ClusterToAddr(c) /\ r.listed = Shown(c, q)
    BY <2>1
  <2>3. ListingOf(r) = Listing[c]
    BY <2>2, DirAtStart DEF ListingOf
  <2> QED BY <2>2, <2>3, ShownBegins
<1> QED BY <1>1, <1>2 DEF Stands
-----------------------------------------------------------------------------
\* The Reads of a directory give its live entries in order, each once, when a read of a
\* sector that fails has moved nothing (else a part of that sector is searched as one of
\* the sector that was in buf before, filesys_fat.cpp:234).
THEOREM ListsCorrect == ASSUME FailsClean PROVE Spec => []DirListsInOrder
<1>1. DirInv => DirListsInOrder
  <2> SUFFICES ASSUME DirInv, NEW f \in File, file[f].opened, file[f].directory
               PROVE  LET all == ListingOf(file[f])
                      IN /\ Len(file[f].listed) <= Len(all)
                         /\ file[f].listed = SubSeq(all, 1, Len(file[f].listed))
    BY DEF DirListsInOrder
  <2>1. Stands(file[f].location, file[f].listed, file[f].curlocation, file[f].cluster_end)
    BY DEF DirInv, FileOK
  <2> QED BY <2>1, StandsInOrder
<1> QED BY <1>1, DirInvariance, PTL

\* EOF says that a directory has been read to its end, when every directory has an end mark
\* (a directory that fills its clusters has none: there the operation goes on and answers
\* the next transaction).
THEOREM EofCorrect == ASSUME FailsClean, DirsEnd PROVE Spec => []EofIsEnd
<1>1. DirInv => EofIsEnd
  BY DEF DirInv, FileOK, EofOK, EofIsEnd
<1> QED BY <1>1, DirInvariance, PTL

\* Open finds what its path leads to, through any chain of directory clusters and whatever
\* is in buf.
THEOREM ResolveCorrect == ASSUME FailsClean, DirsEnd PROVE Spec => OpenResolves
<1> DEFINE Resolves ==
      \A f \in File :
       LET r == file'[f]
           right == Resolved[[segments |-> file[f].path, directory |-> file[f].directory]]
       IN Completes(f, "OPEN") /\ r.result # "IOERROR" =>
            /\ r.result = right.result
            /\ r.opened = (right.result = "OK")
            /\ r.opened => r.location = ClusterToAddr(right.cluster)
<1>1. IInv /\ DirInv /\ [Next]_vars => [Resolves]_vars
  <2> SUFFICES ASSUME IInv, DirInv, [Next]_vars PROVE Resolves
    OBVIOUS
  <2>1. Answered
    BY NextDir
  <2> QED BY <2>1 DEF Answered, Answers, Completes, PathOf
<1>2. [][Next]_vars /\ []IInv /\ []DirInv => [][Resolves]_vars
  BY <1>1, PTL
<1> QED BY <1>2, Invariance, DirInvariance, PTL DEF Spec, OpenResolves
=============================================================================
