---------------------------- MODULE SetUpProofs ----------------------------
(***************************************************************************)
(* Proofs about SetUp, for all statements, topics, datasets, charts and    *)
(* dashboards, all limits of the Jobs, and any number of edits and of      *)
(* requests that are carried out when nobody waits for them any more.      *)
(***************************************************************************)
EXTENDS SetUp, SequenceTheorems, TLAPS

JobsOK == at \in [Jobs -> Nat] /\ retries \in [Jobs -> Nat] /\ \A j \in Jobs : retries[j] \in 0..Backoff[j]

LEMMA AttemptKeeps ==
  ASSUME JobsOK, NEW j \in Jobs, Passes(j) \/ Aborts(j)
  PROVE  JobsOK' /\ \A k \in Jobs \ {j} : at'[k] = at[k]
<1>1. Backoff[j] \in Nat /\ at[j] \in Nat /\ retries[j] \in 0..Backoff[j]
  BY JobsAssumption DEF JobsOK
<1>2. CASE Passes(j)
  BY <1>1, <1>2 DEF Passes, JobsOK
<1>3. CASE Aborts(j)
  BY <1>1, <1>3 DEF Aborts, JobsOK
<1> QED
  BY <1>2, <1>3

LEMMA SeqIs ==
  ASSUME NEW S, NEW n \in Nat, NEW f, f \in [1..n -> S]
  PROVE  f \in Seq(S) /\ Len(f) = n
  OBVIOUS

----------------------------------------------------------------------------
(***************************************************************************)
(* The calls of configure_superset.py and their order                      *)
(***************************************************************************)

D == 2 * Len(Datasets)
B == Len(Boards)
C == Len(Charts)

DatasetCalls == {Do(op, d) : op \in {"dataset", "refresh"}, d \in Range(Datasets)}
BoardCalls == {Do(op, b) : op \in {"board", "layout"}, b \in Range(Boards)}
ChartCalls == {Do(op, c) : op \in {"chart", "uuid"}, c \in Range(Charts)}
FirstCalls == {Do("login", Database), Do("database", Database), Do("role", Role), Do("grant", Role)}
MainCalls == FirstCalls \union DatasetCalls \union BoardCalls \union ChartCalls

LEMMA DoIs == \A op, name : Do(op, name).op = op /\ Do(op, name).name = name
  BY DEF Do

LEMMA Lengths ==
  /\ Len(Datasets) \in Nat /\ DOMAIN Datasets = 1..Len(Datasets)
  /\ B \in Nat /\ DOMAIN Boards = 1..B
  /\ C \in Nat /\ DOMAIN Charts = 1..C
  /\ D \in Nat
<1>1. Datasets \in Seq(Range(Datasets)) /\ Boards \in Seq(Range(Boards)) /\ Charts \in Seq(Range(Charts))
  BY NamesAssumption
<1> QED
  BY <1>1, LenProperties DEF B, C, D

LEMMA AllIs ==
  ASSUME NEW op, NEW seq, seq \in Seq(Range(seq)), NEW S, \A n \in Range(seq) : Do(op, n) \in S
  PROVE  All(op, seq) \in Seq(S) /\ Len(All(op, seq)) = Len(seq)
         /\ \A i \in 1..Len(seq) : All(op, seq)[i] = Do(op, seq[i])
<1>1. Len(seq) \in Nat /\ \A i \in 1..Len(seq) : seq[i] \in Range(seq)
  BY LenProperties
<1>2. All(op, seq) = [i \in 1..Len(seq) |-> Do(op, seq[i])]
  BY DEF All, Each
<1> DEFINE f == [i \in 1..Len(seq) |-> Do(op, seq[i])]
<1>3. f \in [1..Len(seq) -> S]
  BY <1>1
<1>4. \A i \in 1..Len(seq) : f[i] = Do(op, seq[i])
  OBVIOUS
<1> HIDE DEF f
<1>5. f \in Seq(S) /\ Len(f) = Len(seq)
  BY <1>1, <1>3, SeqIs
<1>6. All(op, seq) = f
  BY <1>2 DEF f
<1> QED
  BY <1>4, <1>5, <1>6

LEMMA EachDatasetIs ==
  /\ EachDataset \in Seq(DatasetCalls) /\ Len(EachDataset) = D
  /\ \A j \in 1..Len(Datasets) : EachDataset[2 * j - 1] = Do("dataset", Datasets[j])
<1>1. \A i \in 1..D : (i + 1) \div 2 \in 1..Len(Datasets)
  BY Lengths DEF D
<1>2. \A j \in 1..Len(Datasets) : Datasets[j] \in Range(Datasets)
  BY Lengths DEF Range
<1>3. ASSUME NEW i \in 1..D
      PROVE  Do(IF i % 2 = 1 THEN "dataset" ELSE "refresh", Datasets[(i + 1) \div 2]) \in DatasetCalls
  BY <1>1, <1>2 DEF DatasetCalls
<1>4. EachDataset \in [1..D -> DatasetCalls]
  BY <1>3 DEF EachDataset, D
<1>5. ASSUME NEW j \in 1..Len(Datasets)
      PROVE  EachDataset[2 * j - 1] = Do("dataset", Datasets[j])
  <2>1. 2 * j - 1 \in 1..2 * Len(Datasets) /\ (2 * j - 1) % 2 = 1 /\ (2 * j - 1 + 1) \div 2 = j
    BY Lengths
  <2> QED
    BY <2>1 DEF EachDataset
<1>6. D \in Nat
  BY Lengths
<1> QED
  BY <1>4, <1>5, <1>6, SeqIs

First == <<Do("login", Database), Do("database", Database), Do("role", Role), Do("grant", Role)>>

LEMMA MainIs ==
  /\ Main \in Seq(MainCalls) /\ Len(Main) = 4 + D + B + C + C + B
  /\ \A i \in 1..Len(Main) : Main[i] =
        IF i <= 4 THEN First[i]
        ELSE IF i <= 4 + D THEN EachDataset[i - 4]
        ELSE IF i <= 4 + D + B THEN Do("board", Boards[i - (4 + D)])
        ELSE IF i <= 4 + D + B + C THEN Do("chart", Charts[i - (4 + D + B)])
        ELSE IF i <= 4 + D + B + C + C THEN Do("uuid", Charts[i - (4 + D + B + C)])
        ELSE Do("layout", Boards[i - (4 + D + B + C + C)])
<1> DEFINE boards == All("board", Boards)
           chs == All("chart", Charts)
           uuids == All("uuid", Charts)
           layouts == All("layout", Boards)
           s2 == First \o EachDataset
           s3 == s2 \o boards
           s4 == s3 \o chs
           s5 == s4 \o uuids
           s6 == s5 \o layouts
<1>0. B \in Nat /\ C \in Nat /\ D \in Nat
  BY Lengths
<1>1. First \in Seq(MainCalls) /\ Len(First) = 4
  BY DEF First, MainCalls, FirstCalls
<1>2. EachDataset \in Seq(MainCalls) /\ Len(EachDataset) = D
  <2>1. \A i \in 1..D : EachDataset[i] \in MainCalls
    BY <1>0, EachDatasetIs, ElementOfSeq DEF MainCalls
  <2>2. EachDataset \in [1..D -> MainCalls]
    BY <2>1 DEF EachDataset, D
  <2> QED
    BY <1>0, <2>2, SeqIs
<1>3. /\ boards \in Seq(MainCalls) /\ Len(boards) = B
      /\ \A i \in 1..B : boards[i] = Do("board", Boards[i])
  <2>1. \A n \in Range(Boards) : Do("board", n) \in MainCalls
    BY DEF MainCalls, BoardCalls
  <2> QED
    BY <2>1, AllIs, NamesAssumption DEF B
<1>4. /\ chs \in Seq(MainCalls) /\ Len(chs) = C
      /\ \A i \in 1..C : chs[i] = Do("chart", Charts[i])
  <2>1. \A n \in Range(Charts) : Do("chart", n) \in MainCalls
    BY DEF MainCalls, ChartCalls
  <2> QED
    BY <2>1, AllIs, NamesAssumption DEF C
<1>5. /\ uuids \in Seq(MainCalls) /\ Len(uuids) = C
      /\ \A i \in 1..C : uuids[i] = Do("uuid", Charts[i])
  <2>1. \A n \in Range(Charts) : Do("uuid", n) \in MainCalls
    BY DEF MainCalls, ChartCalls
  <2> QED
    BY <2>1, AllIs, NamesAssumption DEF C
<1>6. /\ layouts \in Seq(MainCalls) /\ Len(layouts) = B
      /\ \A i \in 1..B : layouts[i] = Do("layout", Boards[i])
  <2>1. \A n \in Range(Boards) : Do("layout", n) \in MainCalls
    BY DEF MainCalls, BoardCalls
  <2> QED
    BY <2>1, AllIs, NamesAssumption DEF B
<1>7. Main = s6
  BY DEF Main, First
<1> HIDE DEF boards, chs, uuids, layouts
<1>8. /\ s2 \in Seq(MainCalls) /\ Len(s2) = 4 + D
      /\ \A i \in 1..4 + D : s2[i] = IF i <= 4 THEN First[i] ELSE EachDataset[i - 4]
  <2>1. First \in Seq(MainCalls) /\ EachDataset \in Seq(MainCalls)
    BY <1>1, <1>2
  <2>2. /\ s2 \in Seq(MainCalls) /\ Len(s2) = Len(First) + Len(EachDataset)
        /\ \A i \in 1..Len(First) + Len(EachDataset) : s2[i] = IF i <= Len(First) THEN First[i] ELSE EachDataset[i - Len(First)]
    BY <2>1, ConcatProperties
  <2> HIDE DEF s2
  <2> QED
    BY <1>0, <2>2, <1>1, <1>2
<1> HIDE DEF s2
<1>9. /\ s3 \in Seq(MainCalls) /\ Len(s3) = 4 + D + B
      /\ \A i \in 1..4 + D + B : s3[i] = IF i <= 4 + D THEN s2[i] ELSE boards[i - (4 + D)]
  <2>1. s2 \in Seq(MainCalls) /\ boards \in Seq(MainCalls)
    BY <1>8, <1>3
  <2>2. /\ s3 \in Seq(MainCalls) /\ Len(s3) = Len(s2) + Len(boards)
        /\ \A i \in 1..Len(s2) + Len(boards) : s3[i] = IF i <= Len(s2) THEN s2[i] ELSE boards[i - Len(s2)]
    BY <2>1, ConcatProperties
  <2> HIDE DEF s3
  <2> QED
    BY <1>0, <2>2, <1>8, <1>3
<1> HIDE DEF s3
<1>10. /\ s4 \in Seq(MainCalls) /\ Len(s4) = 4 + D + B + C
       /\ \A i \in 1..4 + D + B + C : s4[i] = IF i <= 4 + D + B THEN s3[i] ELSE chs[i - (4 + D + B)]
  <2>1. s3 \in Seq(MainCalls) /\ chs \in Seq(MainCalls)
    BY <1>9, <1>4
  <2>2. /\ s4 \in Seq(MainCalls) /\ Len(s4) = Len(s3) + Len(chs)
        /\ \A i \in 1..Len(s3) + Len(chs) : s4[i] = IF i <= Len(s3) THEN s3[i] ELSE chs[i - Len(s3)]
    BY <2>1, ConcatProperties
  <2> HIDE DEF s4
  <2> QED
    BY <1>0, <2>2, <1>9, <1>4
<1> HIDE DEF s4
<1>11. /\ s5 \in Seq(MainCalls) /\ Len(s5) = 4 + D + B + C + C
       /\ \A i \in 1..4 + D + B + C + C :
             s5[i] = IF i <= 4 + D + B + C THEN s4[i] ELSE uuids[i - (4 + D + B + C)]
  <2>1. s4 \in Seq(MainCalls) /\ uuids \in Seq(MainCalls)
    BY <1>10, <1>5
  <2>2. /\ s5 \in Seq(MainCalls) /\ Len(s5) = Len(s4) + Len(uuids)
        /\ \A i \in 1..Len(s4) + Len(uuids) : s5[i] = IF i <= Len(s4) THEN s4[i] ELSE uuids[i - Len(s4)]
    BY <2>1, ConcatProperties
  <2> HIDE DEF s5
  <2> QED
    BY <1>0, <2>2, <1>10, <1>5
<1> HIDE DEF s5
<1>12. /\ s6 \in Seq(MainCalls) /\ Len(s6) = 4 + D + B + C + C + B
       /\ \A i \in 1..4 + D + B + C + C + B :
             s6[i] = IF i <= 4 + D + B + C + C THEN s5[i] ELSE layouts[i - (4 + D + B + C + C)]
  <2>1. s5 \in Seq(MainCalls) /\ layouts \in Seq(MainCalls)
    BY <1>11, <1>6
  <2>2. /\ s6 \in Seq(MainCalls) /\ Len(s6) = Len(s5) + Len(layouts)
        /\ \A i \in 1..Len(s5) + Len(layouts) : s6[i] = IF i <= Len(s5) THEN s5[i] ELSE layouts[i - Len(s5)]
    BY <2>1, ConcatProperties
  <2> HIDE DEF s6
  <2> QED
    BY <1>0, <2>2, <1>11, <1>6
<1> HIDE DEF s6
<1>13. Main \in Seq(MainCalls) /\ Len(Main) = 4 + D + B + C + C + B
  BY <1>7, <1>12
<1>14. ASSUME NEW i \in 1..Len(Main)
       PROVE  Main[i] =
        IF i <= 4 THEN First[i]
        ELSE IF i <= 4 + D THEN EachDataset[i - 4]
        ELSE IF i <= 4 + D + B THEN Do("board", Boards[i - (4 + D)])
        ELSE IF i <= 4 + D + B + C THEN Do("chart", Charts[i - (4 + D + B)])
        ELSE IF i <= 4 + D + B + C + C THEN Do("uuid", Charts[i - (4 + D + B + C)])
        ELSE Do("layout", Boards[i - (4 + D + B + C + C)])
  <2>0. i \in Nat /\ 1 <= i /\ i <= 4 + D + B + C + C + B
    BY <1>0, <1>13
  <2>1. CASE i <= 4 + D
    <3>1. i \in 1..4 + D /\ i \in 1..4 + D + B /\ i \in 1..4 + D + B + C /\ i \in 1..4 + D + B + C + C
      BY <1>0, <2>0, <2>1
    <3>2. i <= 4 + D + B /\ i <= 4 + D + B + C /\ i <= 4 + D + B + C + C
      BY <1>0, <2>0, <2>1
    <3>3. s6[i] = s5[i] /\ s5[i] = s4[i]
      BY <1>11, <1>12, <1>13, <1>7, <3>1, <3>2
    <3>4. s4[i] = s3[i] /\ s3[i] = s2[i]
      BY <1>9, <1>10, <2>1, <3>1, <3>2
    <3> QED
      BY <1>0, <1>7, <1>8, <2>0, <2>1, <3>1, <3>3, <3>4
  <2>2. CASE i > 4 + D /\ i <= 4 + D + B
    <3>1. /\ i - (4 + D) \in 1..B /\ ~(i <= 4) /\ ~(i <= 4 + D)
          /\ i <= 4 + D + B /\ i <= 4 + D + B + C /\ i <= 4 + D + B + C + C
          /\ i \in 1..4 + D + B /\ i \in 1..4 + D + B + C /\ i \in 1..4 + D + B + C + C
      BY <1>0, <2>0, <2>2
    <3>2. s6[i] = s5[i] /\ s5[i] = s4[i] /\ s4[i] = s3[i]
      BY <1>7, <1>10, <1>11, <1>12, <1>13, <3>1
    <3>3. s3[i] = Do("board", Boards[i - (4 + D)])
      BY <1>3, <1>9, <3>1
    <3> QED
      BY <1>7, <3>1, <3>2, <3>3
  <2>3. CASE i > 4 + D + B /\ i <= 4 + D + B + C
    <3>1. /\ i - (4 + D + B) \in 1..C /\ ~(i <= 4) /\ ~(i <= 4 + D) /\ ~(i <= 4 + D + B)
          /\ i <= 4 + D + B + C /\ i <= 4 + D + B + C + C
          /\ i \in 1..4 + D + B + C /\ i \in 1..4 + D + B + C + C
      BY <1>0, <2>0, <2>3
    <3>2. s6[i] = s5[i] /\ s5[i] = s4[i]
      BY <1>7, <1>11, <1>12, <1>13, <3>1
    <3>3. s4[i] = Do("chart", Charts[i - (4 + D + B)])
      BY <1>4, <1>10, <3>1
    <3> QED
      BY <1>7, <3>1, <3>2, <3>3
  <2>4. CASE i > 4 + D + B + C /\ i <= 4 + D + B + C + C
    <3>1. /\ i - (4 + D + B + C) \in 1..C /\ ~(i <= 4) /\ ~(i <= 4 + D) /\ ~(i <= 4 + D + B) /\ ~(i <= 4 + D + B + C)
          /\ i <= 4 + D + B + C + C /\ i \in 1..4 + D + B + C + C
      BY <1>0, <2>0, <2>4
    <3>2. s6[i] = s5[i]
      BY <1>7, <1>12, <1>13, <3>1
    <3>3. s5[i] = Do("uuid", Charts[i - (4 + D + B + C)])
      BY <1>5, <1>11, <3>1
    <3> QED
      BY <1>7, <3>1, <3>2, <3>3
  <2>5. CASE i > 4 + D + B + C + C
    <3>1. /\ i - (4 + D + B + C + C) \in 1..B /\ ~(i <= 4) /\ ~(i <= 4 + D) /\ ~(i <= 4 + D + B)
          /\ ~(i <= 4 + D + B + C) /\ ~(i <= 4 + D + B + C + C)
      BY <1>0, <2>0, <2>5
    <3>2. s6[i] = Do("layout", Boards[i - (4 + D + B + C + C)])
      BY <1>6, <1>7, <1>12, <1>13, <3>1
    <3> QED
      BY <1>7, <3>1, <3>2
  <2> QED
    BY <1>0, <2>0, <2>1, <2>2, <2>3, <2>4, <2>5
<1> QED
  BY <1>13, <1>14

LEMMA MainPlaces ==
  /\ Main[1] = Do("login", Database) /\ Main[2] = Do("database", Database)
  /\ Main[3] = Do("role", Role) /\ Main[4] = Do("grant", Role)
  /\ \A j \in 1..Len(Datasets) : Main[4 + (2 * j - 1)] = Do("dataset", Datasets[j])
  /\ \A j \in 1..B : Main[4 + D + j] = Do("board", Boards[j])
  /\ \A j \in 1..C : Main[4 + D + B + j] = Do("chart", Charts[j])
  /\ \A j \in 1..B : Main[4 + D + B + C + C + j] = Do("layout", Boards[j])
<1>0. B \in Nat /\ C \in Nat /\ D \in Nat /\ Len(Datasets) \in Nat /\ D = 2 * Len(Datasets)
  BY Lengths DEF D
<1>1. /\ Main[1] = First[1] /\ Main[2] = First[2] /\ Main[3] = First[3] /\ Main[4] = First[4]
  <2>1. 1 \in 1..Len(Main) /\ 2 \in 1..Len(Main) /\ 3 \in 1..Len(Main) /\ 4 \in 1..Len(Main)
    BY <1>0, MainIs
  <2> QED
    BY <2>1, MainIs
<1>2. ASSUME NEW j \in 1..Len(Datasets)
      PROVE  Main[4 + (2 * j - 1)] = Do("dataset", Datasets[j])
  <2> DEFINE i == 4 + (2 * j - 1)
  <2>1. i \in 1..4 + D + B + C + C + B /\ i > 4 /\ i <= 4 + D /\ i - 4 = 2 * j - 1
    BY <1>0
  <2> HIDE DEF i
  <2>2. Main[i] = EachDataset[i - 4]
    BY <1>0, <2>1, MainIs
  <2> QED
    BY <2>1, <2>2, EachDatasetIs DEF i
<1>3. ASSUME NEW j \in 1..B
      PROVE  Main[4 + D + j] = Do("board", Boards[j])
  <2> DEFINE i == 4 + D + j
  <2>1. i \in 1..4 + D + B + C + C + B /\ i > 4 /\ i > 4 + D /\ i <= 4 + D + B /\ i - (4 + D) = j
    BY <1>0
  <2> HIDE DEF i
  <2>2. Main[i] = Do("board", Boards[i - (4 + D)])
    BY <1>0, <2>1, MainIs
  <2> QED
    BY <2>1, <2>2 DEF i
<1>4. ASSUME NEW j \in 1..C
      PROVE  Main[4 + D + B + j] = Do("chart", Charts[j])
  <2> DEFINE i == 4 + D + B + j
  <2>1. /\ i \in 1..4 + D + B + C + C + B /\ i > 4 /\ i > 4 + D /\ i > 4 + D + B
        /\ i <= 4 + D + B + C /\ i - (4 + D + B) = j
    BY <1>0
  <2> HIDE DEF i
  <2>2. Main[i] = Do("chart", Charts[i - (4 + D + B)])
    BY <1>0, <2>1, MainIs
  <2> QED
    BY <2>1, <2>2 DEF i
<1>5. ASSUME NEW j \in 1..B
      PROVE  Main[4 + D + B + C + C + j] = Do("layout", Boards[j])
  <2> DEFINE i == 4 + D + B + C + C + j
  <2>1. /\ i \in 1..4 + D + B + C + C + B /\ i > 4 /\ i > 4 + D /\ i > 4 + D + B
        /\ i > 4 + D + B + C /\ i > 4 + D + B + C + C /\ i - (4 + D + B + C + C) = j
    BY <1>0
  <2> HIDE DEF i
  <2>2. Main[i] = Do("layout", Boards[i - (4 + D + B + C + C)])
    BY <1>0, <2>1, MainIs
  <2> QED
    BY <2>1, <2>2 DEF i
<1> QED
  BY <1>1, <1>2, <1>3, <1>4, <1>5 DEF First

LEMMA MainKinds ==
  ASSUME NEW k \in 1..Len(Main)
  PROVE  /\ Main[k] \in MainCalls
         /\ Main[k].op = "database" => k = 2
         /\ Main[k].op = "grant" => k = 4
         /\ Main[k].op = "role" => k = 3
         /\ Main[k].op = "dataset" => k > 4 /\ \E i \in 1..Len(Datasets) : k = 4 + (2 * i - 1) /\ Main[k] = Do("dataset", Datasets[i])
         /\ Main[k].op = "board" => \E i \in 1..B : k = 4 + D + i /\ Main[k] = Do("board", Boards[i])
         /\ Main[k].op = "chart" => \E i \in 1..C : k = 4 + D + B + i /\ Main[k] = Do("chart", Charts[i])
         /\ Main[k].op = "layout" => k > 4 + D + B + C + C
<1>0. B \in Nat /\ C \in Nat /\ D \in Nat /\ k \in Nat /\ k >= 1 /\ k <= 4 + D + B + C + C + B
  BY Lengths, MainIs
<1>1. Main[k] \in MainCalls
  BY MainIs, ElementOfSeq
<1>2. CASE k <= 4
  <2>1. k = 1 \/ k = 2 \/ k = 3 \/ k = 4
    BY <1>0, <1>2
  <2> QED
    BY <1>1, <2>1, MainPlaces DEF Do
<1>3. CASE k > 4 /\ k <= 4 + D
  <2>1. k - 4 \in 1..D /\ ~(k <= 4)
    BY <1>0, <1>3
  <2>2. Main[k] = EachDataset[k - 4]
    BY <1>3, <2>1, MainIs
  <2>3. EachDataset[k - 4] = Do(IF (k - 4) % 2 = 1 THEN "dataset" ELSE "refresh", Datasets[(k - 4 + 1) \div 2])
    BY <2>1 DEF EachDataset, D
  <2>4. Main[k].op = IF (k - 4) % 2 = 1 THEN "dataset" ELSE "refresh"
    BY <2>2, <2>3, DoIs
  <2>5. ASSUME Main[k].op = "dataset"
        PROVE  \E i \in 1..Len(Datasets) : k = 4 + (2 * i - 1) /\ Main[k] = Do("dataset", Datasets[i])
    <3>1. (k - 4) % 2 = 1
      BY <2>4, <2>5
    <3> DEFINE i == (k - 4 + 1) \div 2
    <3>2. i \in 1..Len(Datasets) /\ k = 4 + (2 * i - 1)
      BY <1>0, <2>1, <3>1, Lengths DEF D
    <3>3. Main[k] = Do("dataset", Datasets[i])
      BY <2>2, <2>3, <3>1
    <3> QED
      BY <3>2, <3>3
  <2> QED
    BY <1>1, <1>3, <2>4, <2>5
<1>4. CASE k > 4 + D /\ k <= 4 + D + B
  <2>1. Main[k] = Do("board", Boards[k - (4 + D)])
    BY <1>0, <1>4, MainIs
  <2>2. k - (4 + D) \in 1..B /\ k = 4 + D + (k - (4 + D))
    BY <1>0, <1>4
  <2>3. Main[k].op = "board"
    BY <2>1 DEF Do
  <2> QED
    BY <1>1, <2>1, <2>2, <2>3
<1>5. CASE k > 4 + D + B /\ k <= 4 + D + B + C
  <2>1. Main[k] = Do("chart", Charts[k - (4 + D + B)])
    BY <1>0, <1>5, MainIs
  <2>2. k - (4 + D + B) \in 1..C /\ k = 4 + D + B + (k - (4 + D + B))
    BY <1>0, <1>5
  <2>3. Main[k].op = "chart"
    BY <2>1 DEF Do
  <2> QED
    BY <1>1, <2>1, <2>2, <2>3
<1>6. CASE k > 4 + D + B + C /\ k <= 4 + D + B + C + C
  <2>1. Main[k] = Do("uuid", Charts[k - (4 + D + B + C)])
    BY <1>0, <1>6, MainIs
  <2> QED
    BY <1>1, <2>1 DEF Do
<1>7. CASE k > 4 + D + B + C + C
  <2>0. ~(k <= 4) /\ ~(k <= 4 + D) /\ ~(k <= 4 + D + B) /\ ~(k <= 4 + D + B + C) /\ ~(k <= 4 + D + B + C + C)
    BY <1>0, <1>7
  <2>1. Main[k] = Do("layout", Boards[k - (4 + D + B + C + C)])
    BY <2>0, MainIs
  <2> QED
    BY <1>1, <1>7, <2>1 DEF Do
<1> QED
  BY <1>0, <1>2, <1>3, <1>4, <1>5, <1>6, <1>7

\* The names whose ids a call uses.
Needs(do) ==
    {n \in Sought :
        \/ do.op \in {"dataset", "grant"} /\ n = Database
        \/ do.op \in {"grant", "layout"} /\ n = do.name
        \/ do.op = "chart" /\ (n = DatasetOf[do.name] \/ n \in ShownOn[do.name])
        \/ do.op = "chart" /\ do.name = LayeredMap /\ n \in Layers
        \/ do.op = "layout" /\ n \in Range(Charts) /\ do.name \in ShownOn[n]}

MadeBefore(k, n) == \E j \in 1..(k - 1) : Main[j].op \in Ensures /\ Main[j].name = n

LEMMA MadeWhere ==
  /\ \A k \in 1..(Len(Main) + 1) : k > 2 => MadeBefore(k, Database)
  /\ \A k \in 1..(Len(Main) + 1) : k > 3 => MadeBefore(k, Role)
  /\ \A k \in 1..(Len(Main) + 1), n \in Range(Datasets) : k > 4 + D => MadeBefore(k, n)
  /\ \A k \in 1..(Len(Main) + 1), n \in Range(Boards) : k > 4 + D + B => MadeBefore(k, n)
  /\ \A k \in 1..(Len(Main) + 1), j \in 1..C : k > 4 + D + B + j => MadeBefore(k, Charts[j])
<1>0. B \in Nat /\ C \in Nat /\ D \in Nat /\ Len(Main) \in Nat /\ Len(Datasets) \in Nat /\ D = 2 * Len(Datasets)
  BY Lengths, MainIs DEF D
<1>1. \A k \in 1..(Len(Main) + 1) : k > 2 => MadeBefore(k, Database)
  <2>1. Main[2].op \in Ensures /\ Main[2].name = Database
    BY MainPlaces DEF Do, Ensures
  <2> QED
    BY <1>0, <2>1 DEF MadeBefore
<1>2. \A k \in 1..(Len(Main) + 1) : k > 3 => MadeBefore(k, Role)
  <2>1. Main[3].op \in Ensures /\ Main[3].name = Role
    BY MainPlaces DEF Do, Ensures
  <2> QED
    BY <1>0, <2>1 DEF MadeBefore
<1>3. ASSUME NEW k \in 1..(Len(Main) + 1), NEW n \in Range(Datasets), k > 4 + D
      PROVE  MadeBefore(k, n)
  <2>1. PICK j \in 1..Len(Datasets) : n = Datasets[j]
    BY Lengths DEF Range
  <2>2. Main[4 + (2 * j - 1)].op \in Ensures /\ Main[4 + (2 * j - 1)].name = n
    <3>1. Main[4 + (2 * j - 1)] = Do("dataset", Datasets[j])
      BY MainPlaces
    <3>2. Do("dataset", Datasets[j]).op \in Ensures /\ Do("dataset", Datasets[j]).name = Datasets[j]
      BY DoIs DEF Ensures
    <3> QED
      BY <2>1, <3>1, <3>2
  <2>3. 4 + (2 * j - 1) \in 1..(k - 1)
    BY <1>0, <1>3
  <2> QED
    BY <2>2, <2>3 DEF MadeBefore
<1>4. ASSUME NEW k \in 1..(Len(Main) + 1), NEW n \in Range(Boards), k > 4 + D + B
      PROVE  MadeBefore(k, n)
  <2>1. PICK j \in 1..B : n = Boards[j]
    BY Lengths DEF Range
  <2>2. Main[4 + D + j].op \in Ensures /\ Main[4 + D + j].name = n
    <3>1. Main[4 + D + j] = Do("board", Boards[j])
      BY MainPlaces
    <3>2. Do("board", Boards[j]).op \in Ensures /\ Do("board", Boards[j]).name = Boards[j]
      BY DoIs DEF Ensures
    <3> QED
      BY <2>1, <3>1, <3>2
  <2>3. 4 + D + j \in 1..(k - 1)
    BY <1>0, <1>4
  <2> QED
    BY <2>2, <2>3 DEF MadeBefore
<1>5. ASSUME NEW k \in 1..(Len(Main) + 1), NEW j \in 1..C, k > 4 + D + B + j
      PROVE  MadeBefore(k, Charts[j])
  <2>1. Main[4 + D + B + j].op \in Ensures /\ Main[4 + D + B + j].name = Charts[j]
    <3>1. Main[4 + D + B + j] = Do("chart", Charts[j])
      BY MainPlaces
    <3>2. Do("chart", Charts[j]).op \in Ensures /\ Do("chart", Charts[j]).name = Charts[j]
      BY DoIs DEF Ensures
    <3> QED
      BY <3>1, <3>2
  <2>2. 4 + D + B + j \in 1..(k - 1)
    BY <1>0, <1>5
  <2> QED
    BY <2>1, <2>2 DEF MadeBefore
<1> QED
  BY <1>1, <1>2, <1>3, <1>4, <1>5

\* Whatever a call uses the id of, a call before it has looked for.
LEMMA MadeInOrder ==
  ASSUME NEW k \in 1..Len(Main), NEW n \in Needs(Main[k])
  PROVE  MadeBefore(k, n)
<1>0. B \in Nat /\ C \in Nat /\ D \in Nat /\ k \in Nat
  BY Lengths, MainIs
<1>1. Main[k] \in MainCalls
  BY MainKinds
<1>2. CASE Main[k].op = "dataset"
  <2>1. n = Database /\ k > 2
    BY <1>0, <1>2, MainKinds DEF Needs
  <2> QED
    BY <2>1, MadeWhere
<1>3. CASE Main[k].op = "grant"
  <2>1. Main[k].name = Role /\ k = 4
    BY <1>3, MainKinds, MainPlaces DEF Do
  <2>2. n = Database \/ n = Role
    BY <1>3, <2>1 DEF Needs
  <2> QED
    BY <2>1, <2>2, MadeWhere
<1>4. CASE Main[k].op = "chart"
  <2>1. PICK i \in 1..C : k = 4 + D + B + i /\ Main[k] = Do("chart", Charts[i])
    BY <1>4, MainKinds
  <2>2. Main[k].name = Charts[i] /\ Charts[i] \in Range(Charts)
    BY <2>1, Lengths DEF Do, Range
  <2>3. k > 4 + D /\ k > 4 + D + B
    BY <1>0, <2>1
  <2>4. CASE n = DatasetOf[Charts[i]]
    <3>1. n \in Range(Datasets)
      BY <2>2, <2>4, ChartsAssumption
    <3> QED
      BY <2>3, <3>1, MadeWhere
  <2>5. CASE n \in ShownOn[Charts[i]]
    <3>1. n \in Range(Boards)
      BY <2>2, <2>5, ChartsAssumption
    <3> QED
      BY <2>3, <3>1, MadeWhere
  <2>6. CASE Charts[i] = LayeredMap /\ n \in Layers
    <3>1. PICK j \in 1..C : n = Charts[j]
      BY <2>6, ChartsAssumption, Lengths DEF Range
    <3>2. i = C
      <4>1. C \in 1..C /\ Charts[i] = Charts[C]
        BY <1>0, <2>6 DEF LayeredMap, C
      <4> QED
        BY <4>1, Lengths, NamesAssumption DEF IsInjective
    <3>3. j # C
      BY <2>6, <3>1, ChartsAssumption DEF LayeredMap, C
    <3>4. k > 4 + D + B + j
      BY <1>0, <2>1, <3>2, <3>3
    <3> QED
      BY <3>1, <3>4, MadeWhere
  <2> QED
    BY <1>4, <2>2, <2>4, <2>5, <2>6 DEF Needs
<1>5. CASE Main[k].op = "layout"
  <2>1. k > 4 + D + B + C + C
    BY <1>5, MainKinds
  <2>2. CASE n = Main[k].name
    <3>1. n \in Range(Boards)
      BY <1>1, <1>5, <2>2 DEF MainCalls, FirstCalls, DatasetCalls, BoardCalls, ChartCalls, Do
    <3>2. k > 4 + D + B
      BY <1>0, <2>1
    <3> QED
      BY <3>1, <3>2, MadeWhere
  <2>3. CASE n \in Range(Charts)
    <3>1. PICK j \in 1..C : n = Charts[j]
      BY <2>3, Lengths DEF Range
    <3>2. k > 4 + D + B + j
      BY <1>0, <2>1
    <3> QED
      BY <3>1, <3>2, MadeWhere
  <2> QED
    BY <1>5, <2>2, <2>3 DEF Needs
<1> QED
  BY <1>2, <1>3, <1>4, <1>5 DEF Needs


LEMMA CallNames ==
  ASSUME NEW do \in MainCalls
  PROVE  /\ do = Do(do.op, do.name) /\ do.name \in Sought /\ do.name # "renamed"
         /\ do.op \in {"login", "database", "role", "grant", "dataset", "refresh", "board", "layout", "chart", "uuid"}
         /\ do.op \in {"login", "database"} <=> do.name = Database
         /\ do.op \in {"role", "grant"} <=> do.name = Role
         /\ do.op \in {"dataset", "refresh"} <=> do.name \in Range(Datasets)
         /\ do.op \in {"board", "layout"} <=> do.name \in Range(Boards)
         /\ do.op \in {"chart", "uuid"} <=> do.name \in Range(Charts)
<1>1. CASE do \in FirstCalls
  <2>1. /\ Database # Role /\ Database # "renamed" /\ Role # "renamed"
        /\ Database \notin Range(Datasets) /\ Database \notin Range(Boards) /\ Database \notin Range(Charts)
        /\ Role \notin Range(Datasets) /\ Role \notin Range(Boards) /\ Role \notin Range(Charts)
    BY NamesAssumption DEF Database, Role
  <2>2. do = Do("login", Database) \/ do = Do("database", Database) \/ do = Do("role", Role) \/ do = Do("grant", Role)
    BY <1>1 DEF FirstCalls
  <2> QED
    BY <2>1, <2>2, DoIs DEF Sought
<1>2. CASE do \in DatasetCalls
  <2>1. PICK op \in {"dataset", "refresh"}, d \in Range(Datasets) : do = Do(op, d)
    BY <1>2 DEF DatasetCalls
  <2>2. d # Database /\ d # Role /\ d # "renamed" /\ d \notin Range(Boards) /\ d \notin Range(Charts)
    BY NamesAssumption
  <2> QED
    BY <2>1, <2>2, DoIs DEF Sought
<1>3. CASE do \in BoardCalls
  <2>1. PICK op \in {"board", "layout"}, b \in Range(Boards) : do = Do(op, b)
    BY <1>3 DEF BoardCalls
  <2>2. b # Database /\ b # Role /\ b # "renamed" /\ b \notin Range(Datasets) /\ b \notin Range(Charts)
    BY NamesAssumption
  <2> QED
    BY <2>1, <2>2, DoIs DEF Sought
<1>4. CASE do \in ChartCalls
  <2>1. PICK op \in {"chart", "uuid"}, c \in Range(Charts) : do = Do(op, c)
    BY <1>4 DEF ChartCalls
  <2>2. c # Database /\ c # Role /\ c # "renamed" /\ c \notin Range(Datasets) /\ c \notin Range(Boards)
    BY NamesAssumption
  <2> QED
    BY <2>1, <2>2, DoIs DEF Sought
<1> QED
  BY <1>1, <1>2, <1>3, <1>4 DEF MainCalls

LEMMA RefersIs ==
  ASSUME NEW do \in MainCalls, NEW ids
  PROVE  /\ do.op \in {"dataset", "grant"} => Refers(do, ids) = {ids[Database]}
         /\ do.op = "chart" => Refers(do, ids) =
              {ids[DatasetOf[do.name]]} \union {ids[b] : b \in ShownOn[do.name]}
              \union (IF do.name = LayeredMap THEN {ids[c] : c \in Layers} ELSE {})
         /\ do.op = "layout" => Refers(do, ids) = {ids[c] : c \in {c \in Range(Charts) : do.name \in ShownOn[c]}}
         /\ do.op \notin {"dataset", "grant", "chart", "layout"} => Refers(do, ids) = {}
  BY DEF Refers

LEMMA ChartNeeds ==
  ASSUME NEW c \in Range(Charts)
  PROVE  /\ DatasetOf[c] \in Range(Datasets) /\ ShownOn[c] \subseteq Range(Boards) /\ Layers \subseteq Range(Charts)
  BY ChartsAssumption

LEMMA RefersAre ==
  ASSUME NEW do \in MainCalls, NEW S, NEW ids \in [Sought -> S]
  PROVE  Refers(do, ids) \subseteq S
<1>1. CASE do.op \in {"dataset", "grant"}
  BY <1>1, RefersIs DEF Sought
<1>2. CASE do.op = "chart"
  <2>1. do.name \in Range(Charts)
    BY <1>2, CallNames
  <2>2. DatasetOf[do.name] \in Sought /\ ShownOn[do.name] \subseteq Sought /\ Layers \subseteq Sought
    BY <2>1, ChartNeeds DEF Sought
  <2> QED
    BY <1>2, <2>2, RefersIs
<1>3. CASE do.op = "layout"
  BY <1>3, RefersIs DEF Sought
<1>4. CASE do.op \notin {"dataset", "grant", "chart", "layout"}
  BY <1>4, RefersIs
<1> QED
  BY <1>1, <1>2, <1>3, <1>4

\* What a call refers to are ids of names it needs.
LEMMA RefersSame ==
  ASSUME NEW do \in MainCalls, NEW f, NEW g, \A n \in Needs(do) : f[n] = g[n]
  PROVE  Refers(do, f) = Refers(do, g)
<1>1. CASE do.op \in {"dataset", "grant"}
  <2>1. Database \in Needs(do)
    BY <1>1 DEF Needs, Sought
  <2>2. Refers(do, f) = {f[Database]}
    BY <1>1, RefersIs
  <2>3. Refers(do, g) = {g[Database]}
    BY <1>1, RefersIs
  <2> QED
    BY <2>1, <2>2, <2>3
<1>2. CASE do.op = "chart"
  <2>1. do.name \in Range(Charts)
    BY <1>2, CallNames
  <2>2. DatasetOf[do.name] \in Needs(do) /\ ShownOn[do.name] \subseteq Needs(do)
    BY <1>2, <2>1, ChartNeeds DEF Needs, Sought
  <2>3. do.name = LayeredMap => Layers \subseteq Needs(do)
    BY <1>2, <2>1, ChartNeeds DEF Needs, Sought
  <2>4. /\ f[DatasetOf[do.name]] = g[DatasetOf[do.name]]
        /\ {f[b] : b \in ShownOn[do.name]} = {g[b] : b \in ShownOn[do.name]}
        /\ do.name = LayeredMap => {f[c] : c \in Layers} = {g[c] : c \in Layers}
    BY <2>2, <2>3
  <2> DEFINE Of(ids) ==
        {ids[DatasetOf[do.name]]} \union {ids[b] : b \in ShownOn[do.name]}
        \union (IF do.name = LayeredMap THEN {ids[c] : c \in Layers} ELSE {})
  <2>5. Refers(do, f) = Of(f)
    BY <1>2, RefersIs
  <2>6. Refers(do, g) = Of(g)
    BY <1>2, RefersIs
  <2>7. Of(f) = Of(g)
    BY <2>4
  <2> HIDE DEF Of
  <2> QED
    BY <2>5, <2>6, <2>7
<1>3. CASE do.op = "layout"
  <2>1. {c \in Range(Charts) : do.name \in ShownOn[c]} \subseteq Needs(do)
    BY <1>3 DEF Needs, Sought
  <2> QED
    BY <1>3, <2>1, RefersIs
<1>4. CASE do.op \notin {"dataset", "grant", "chart", "layout"}
  BY <1>4, RefersIs
<1> QED
  BY <1>1, <1>2, <1>3, <1>4

\* No name is looked for twice.
LEMMA EnsuredOnce ==
  ASSUME NEW j \in 1..Len(Main), NEW k \in 1..Len(Main), Main[j].op \in Ensures, Main[k].op \in Ensures,
         Main[j].name = Main[k].name
  PROVE  j = k
<1>1. Main[j] \in MainCalls /\ Main[k] \in MainCalls
  BY MainKinds
<1>2. Main[j].op = Main[k].op
  <2>1. \A do \in MainCalls : do.op \in Ensures =>
           /\ do.op = "database" <=> do.name = Database
           /\ do.op = "role" <=> do.name = Role
           /\ do.op = "dataset" <=> do.name \in Range(Datasets)
           /\ do.op = "board" <=> do.name \in Range(Boards)
           /\ do.op = "chart" <=> do.name \in Range(Charts)
    BY CallNames DEF Ensures
  <2> QED
    BY <1>1, <2>1 DEF Ensures
<1>3. CASE Main[k].op \in {"database", "role"}
  BY <1>2, <1>3, MainKinds
<1>4. CASE Main[k].op = "dataset"
  <2>1. PICK i \in 1..Len(Datasets) : k = 4 + (2 * i - 1) /\ Main[k] = Do("dataset", Datasets[i])
    BY <1>4, MainKinds
  <2>2. PICK h \in 1..Len(Datasets) : j = 4 + (2 * h - 1) /\ Main[j] = Do("dataset", Datasets[h])
    BY <1>2, <1>4, MainKinds
  <2>3. Datasets[i] = Datasets[h]
    BY <2>1, <2>2, DoIs
  <2>4. i = h
    BY <2>3, Lengths, NamesAssumption DEF IsInjective
  <2> QED
    BY <2>1, <2>2, <2>4
<1>5. CASE Main[k].op = "board"
  <2>1. PICK i \in 1..B : k = 4 + D + i /\ Main[k] = Do("board", Boards[i])
    BY <1>5, MainKinds
  <2>2. PICK h \in 1..B : j = 4 + D + h /\ Main[j] = Do("board", Boards[h])
    BY <1>2, <1>5, MainKinds
  <2>3. Boards[i] = Boards[h]
    BY <2>1, <2>2, DoIs
  <2>4. i = h
    BY <2>3, Lengths, NamesAssumption DEF IsInjective
  <2> QED
    BY <2>1, <2>2, <2>4
<1>6. CASE Main[k].op = "chart"
  <2>1. PICK i \in 1..C : k = 4 + D + B + i /\ Main[k] = Do("chart", Charts[i])
    BY <1>6, MainKinds
  <2>2. PICK h \in 1..C : j = 4 + D + B + h /\ Main[j] = Do("chart", Charts[h])
    BY <1>2, <1>6, MainKinds
  <2>3. Charts[i] = Charts[h]
    BY <2>1, <2>2, DoIs
  <2>4. i = h
    BY <2>3, Lengths, NamesAssumption DEF IsInjective
  <2> QED
    BY <2>1, <2>2, <2>4
<1> QED
  BY <1>3, <1>4, <1>5, <1>6 DEF Ensures

LEMMA MadeOnce ==
  ASSUME NEW k \in 1..Len(Main), MadeBefore(k, Main[k].name)
  PROVE  Main[k].op \notin Ensures
<1>1. PICK j \in 1..(k - 1) : Main[j].op \in Ensures /\ Main[j].name = Main[k].name
  BY DEF MadeBefore
<1>2. Len(Main) \in Nat /\ j \in 1..Len(Main) /\ j # k
  BY <1>1, MainIs, Lengths
<1> QED
  BY <1>1, <1>2, EnsuredOnce

----------------------------------------------------------------------------
(***************************************************************************)
(* The invariant of Superset and of the attempts                           *)
(***************************************************************************)

Object == [id: 1..newest, name: Sought \union {"renamed"}, refers: SUBSET (1..newest),
           ours: BOOLEAN, kept: BOOLEAN, late: BOOLEAN]

ObjectsOK ==
    /\ newest \in Nat
    /\ objects \subseteq Object
    /\ \A o, p \in objects : o.id = p.id => o = p

\* A dataset stands on the database, unless one of the two was edited in a way
\* that the script leaves: a database with datasets is not deleted.
OnDatabase(o) ==
    \/ o.kept
    \/ \E p \in objects : p.id \in o.refers /\ (p.kept \/ (p.name = Database /\ o.refers = {p.id}))

EditedOK ==
    /\ \A o \in objects : o.name = "renamed" => o.kept
    /\ \A o \in objects : o.name \in Range(Datasets) \ Virtual => o.ours \/ o.kept
    /\ \A o \in objects : o.name \in Range(Datasets) => OnDatabase(o)

\* Names that Superset does not give twice.
Own == {Database, Role} \union Range(Boards)
OwnOK == \A o, p \in objects : o.name = p.name /\ o.name \in Own => o = p

\* The attempt, or a request, goes by the id k for the name n.
Sees(n, k) == k \in 1..newest /\ (k = got[n] \/ (k = found /\ n = Main[at["superset"]].name))
Goes(n, k) ==
    \/ Sees(n, k)
    \/ \E w \in pending : \/ k \in 1..newest /\ k = w.id /\ n = w.do.name
                          \/ w.do.op = "dataset" /\ k \in w.refers /\ n = Database

AttemptOK ==
    /\ got \in [Sought -> 0..newest]
    /\ found \in {NotYet} \union 0..newest
    /\ found # NotYet => at["superset"] \in 1..Len(Main) /\ Main[at["superset"]].op \in Ensures
    /\ \A n \in Sought : got[n] # 0 <=> MadeBefore(at["superset"], n)
    /\ alone \in BOOLEAN

Written(w) ==
    /\ w.do \in MainCalls
    /\ w.id = 0 => w.do.op \in Ensures
    /\ w.do.op = "dataset" => w.needs = w.refers /\ \E k \in 1..newest : w.refers = {k}

PendingOK == pending \subseteq Requests /\ \A w \in pending : Written(w)

\* An id is one name's, which its object has unless people renamed it.
FitsOK ==
    /\ \A n \in Sought, o \in objects : Goes(n, o.id) => o.name \in {n, "renamed"}
    /\ \A n, m \in Sought, k \in 1..newest : Goes(n, k) /\ Goes(m, k) => n = m

\* An attempt that goes by an object made in time goes by the only one of the
\* name, and one that has found none is about to make it.
InTimeOK ==
    /\ OnePerName
    /\ \A n \in Sought, o, p \in objects :
          Sees(n, o.id) /\ ~o.late /\ p.name = n /\ ~p.late => o = p
    /\ found = 0 => \A o \in objects : o.name = Main[at["superset"]].name => o.late

SupersetInv == ObjectsOK /\ EditedOK /\ OwnOK /\ AttemptOK /\ PendingOK /\ FitsOK /\ InTimeOK

----------------------------------------------------------------------------
(***************************************************************************)
(* What a request does to the objects                                      *)
(***************************************************************************)

\* A request that can be carried out.
Asked(w) ==
    /\ Written(w)
    /\ w.id \in 0..newest /\ w.refers \in SUBSET (1..newest)
    /\ w.id # 0 => Goes(w.do.name, w.id)
    /\ w.do.op = "dataset" => \A k \in w.refers : Goes(Database, k)

Turned(w, o, late) == IF o.id = w.id THEN Put(w, o, late) ELSE o

LEMMA TurnedIs ==
  ASSUME ObjectsOK, FitsOK, NEW w, Asked(w), NEW late \in BOOLEAN, NEW o \in objects, NEW p, p = Turned(w, o, late)
  PROVE  /\ p \in Object /\ p.id = o.id /\ p.kept = o.kept /\ (o.late => p.late)
         /\ p.refers = IF o.id = w.id /\ w.do.op # "dataset" THEN w.refers ELSE o.refers
         /\ p.ours = (o.id = w.id \/ o.ours)
         /\ \/ p.name = o.name
            \/ /\ o.id = w.id /\ o.name = "renamed" /\ p.name = w.do.name
               /\ w.do.op \notin {"dataset", "grant"}
               /\ late => p.late
         /\ o.id = w.id /\ w.do.op \notin {"dataset", "grant"} => p.name = w.do.name
<1>1. /\ o \in Object /\ o.id \in 1..newest /\ o.id # 0 /\ newest \in Nat
      /\ w.do \in MainCalls /\ w.refers \in SUBSET (1..newest)
  BY DEF ObjectsOK, Object, Asked, Written
<1>2. w.do.name \in Sought
  BY <1>1, CallNames
<1>3. CASE o.id # w.id
  BY <1>1, <1>3 DEF Turned, Object
<1>4. CASE o.id = w.id
  <2>1. Goes(w.do.name, o.id)
    BY <1>1, <1>4 DEF Asked
  <2>2. o.name \in {w.do.name, "renamed"}
    BY <1>2, <2>1 DEF FitsOK
  <2>3. p = Put(w, o, late)
    BY <1>4 DEF Turned
  <2>4. /\ p.id = o.id /\ p.kept = o.kept /\ p.ours = TRUE
        /\ p.name = IF w.do.op \in {"dataset", "grant"} THEN o.name ELSE w.do.name
        /\ p.refers = IF w.do.op = "dataset" THEN o.refers ELSE w.refers
        /\ p.late = (o.late \/ (late /\ w.do.op \notin {"dataset", "grant"} /\ o.name # w.do.name))
        /\ p \in Object
    BY <1>1, <1>2, <2>3 DEF Put, Object
  <2> QED
    BY <1>4, <2>2, <2>4
<1> QED
  BY <1>3, <1>4

LEMMA MadeIs ==
  ASSUME ObjectsOK, NEW w, Asked(w), NEW late \in BOOLEAN, NEW p, p = Made(w, late)
  PROVE  /\ p \in [id: 1..newest + 1, name: Sought \union {"renamed"}, refers: SUBSET (1..newest + 1),
                   ours: BOOLEAN, kept: BOOLEAN, late: BOOLEAN]
         /\ p.id = newest + 1 /\ p.name = w.do.name /\ p.name \in Sought /\ p.refers = w.refers
         /\ p.ours = TRUE /\ p.kept = FALSE /\ p.late = late
<1>1. newest \in Nat /\ w.do \in MainCalls /\ w.refers \in SUBSET (1..newest)
  BY DEF ObjectsOK, Asked, Written
<1>2. w.do.name \in Sought
  BY <1>1, CallNames
<1>3. newest + 1 \in 1..newest + 1 /\ w.refers \in SUBSET (1..newest + 1)
  BY <1>1
<1> QED
  BY <1>2, <1>3 DEF Made

\* Requests leave every object, with its id.
Adds(w, late) ==
    w.id = 0 /\ objects' = objects \union {Made(w, late)} /\ newest' = newest + 1
Turns(w, late) ==
    w.id # 0 /\ objects' = {Turned(w, o, late) : o \in objects} /\ newest' = newest

LEMMA PerformsIs ==
  ASSUME NEW w, NEW late, Performs(w, late)
  PROVE  /\ Accepted(w)
         /\ \/ w.do.op \in Reads /\ UNCHANGED <<objects, newest>>
            \/ w.do.op \notin Reads /\ (Adds(w, late) \/ Turns(w, late))
<1>1. Accepted(w)
  BY DEF Performs
<1>2. CASE w.do.op \in Reads
  BY <1>1, <1>2 DEF Performs
<1>3. CASE w.do.op \notin Reads /\ w.id = 0
  BY <1>1, <1>3 DEF Performs, Adds
<1>4. CASE w.do.op \notin Reads /\ w.id # 0
  <2>1. objects' = {IF o.id = w.id THEN Put(w, o, late) ELSE o : o \in objects} /\ newest' = newest
    BY <1>4 DEF Performs
  <2>2. {IF o.id = w.id THEN Put(w, o, late) ELSE o : o \in objects} = {Turned(w, o, late) : o \in objects}
    BY DEF Turned
  <2> QED
    BY <1>1, <1>4, <2>1, <2>2 DEF Turns
<1> QED
  BY <1>2, <1>3, <1>4

\* What a step leaves of the objects, with the ids known before it.
Sound ==
    /\ newest' \in {newest, newest + 1}
    /\ ObjectsOK' /\ EditedOK' /\ OwnOK' /\ OnePerName'
    /\ \A n \in Sought, o \in objects' : Goes(n, o.id) => o.name \in {n, "renamed"}
    /\ \A n \in Sought, o, p \in objects' : Sees(n, o.id) /\ ~o.late /\ p.name = n /\ ~p.late => o = p

SoundLate == found = 0 => \A o \in objects' : o.name = Main[at["superset"]].name => o.late

LEMMA SameSound ==
  ASSUME SupersetInv, UNCHANGED <<objects, newest>>
  PROVE  Sound /\ SoundLate
<1>1. ObjectsOK' /\ EditedOK' /\ OwnOK' /\ OnePerName'
  BY DEF SupersetInv, ObjectsOK, Object, EditedOK, OnDatabase, OwnOK, InTimeOK, OnePerName
<1> QED
  BY <1>1 DEF SupersetInv, Sound, SoundLate, FitsOK, InTimeOK

\* Ids that are known have been given.
LEMMA GoesBelow ==
  ASSUME ObjectsOK, PendingOK, NEW n, NEW k, Goes(n, k)
  PROVE  k \in 1..newest
  BY DEF ObjectsOK, PendingOK, Requests, Goes, Sees

LEMMA AddsSound ==
  ASSUME SupersetInv, NEW w, Asked(w), Accepted(w), NEW late \in BOOLEAN, Adds(w, late), w.do.op \notin Reads,
         late \/ ((\A o \in objects : o.name = w.do.name => o.late) /\ \A k : ~Sees(w.do.name, k))
  PROVE  Sound /\ (late => SoundLate)
<1>0. PICK new : new = Made(w, late)
  OBVIOUS
<1>1. /\ ObjectsOK /\ EditedOK /\ OwnOK /\ AttemptOK /\ PendingOK /\ FitsOK /\ InTimeOK
      /\ newest \in Nat /\ newest' = newest + 1 /\ w.id = 0
  BY DEF SupersetInv, ObjectsOK, Adds
<1>2. /\ new \in Object' /\ new.id = newest + 1 /\ new.name = w.do.name /\ new.name \in Sought
      /\ new.refers = w.refers /\ new.ours = TRUE /\ new.kept = FALSE /\ new.late = late
  BY <1>0, <1>1, MadeIs DEF Object
<1>3. objects' = objects \union {new}
  BY <1>0 DEF Adds
<1>4. \A o \in objects : o \in Object /\ o.id \in 1..newest /\ o.id # new.id /\ o.refers \in SUBSET (1..newest)
  BY <1>1, <1>2 DEF ObjectsOK, Object
<1>5. \A o \in objects : o \in Object'
  <2>1. 1..newest \subseteq 1..newest'
    BY <1>1
  <2> QED
    BY <1>4, <2>1 DEF Object
<1>6. ObjectsOK'
  <2>1. objects' \subseteq Object'
    BY <1>2, <1>3, <1>5
  <2>2. \A o, p \in objects' : o.id = p.id => o = p
    BY <1>1, <1>3, <1>4 DEF ObjectsOK
  <2> QED
    BY <1>1, <2>1, <2>2 DEF ObjectsOK
<1>7. w.do \in MainCalls /\ w.do.op \in Ensures /\ w.do.name # "renamed"
  BY <1>1, CallNames DEF Asked, Written
<1>8. EditedOK'
  <2>1. \A o \in objects' : o.name = "renamed" => o.kept
    BY <1>1, <1>2, <1>3, <1>7 DEF EditedOK
  <2>2. \A o \in objects' : o.name \in Range(Datasets) \ Virtual => o.ours \/ o.kept
    BY <1>1, <1>2, <1>3 DEF EditedOK
  <2>3. ASSUME NEW o \in objects, o.name \in Range(Datasets)
        PROVE  OnDatabase(o)'
    BY <1>1, <1>3, <2>3 DEF EditedOK, OnDatabase
  <2>4. ASSUME new.name \in Range(Datasets)
        PROVE  OnDatabase(new)'
    <3>1. w.do.op = "dataset"
      BY <1>2, <1>7, <2>4, CallNames DEF Ensures
    <3>2. PICK k \in 1..newest : w.refers = {k} /\ w.needs = {k}
      BY <3>1 DEF Asked, Written
    <3>3. PICK p \in objects : p.id = k
      BY <3>2 DEF Accepted, Ids
    <3>4. p.name \in {Database, "renamed"}
      BY <1>1, <3>1, <3>2, <3>3 DEF Asked, FitsOK, Sought
    <3>5. p.kept \/ p.name = Database
      BY <1>1, <3>4 DEF EditedOK
    <3>6. p \in objects' /\ new.refers = {p.id}
      BY <1>2, <1>3, <3>2, <3>3
    <3> QED
      BY <3>5, <3>6 DEF OnDatabase
  <2> QED
    BY <1>3, <2>1, <2>2, <2>3, <2>4 DEF EditedOK
<1>9. OwnOK'
  <2>1. ASSUME NEW o \in objects, o.name = new.name, new.name \in Own
        PROVE  FALSE
    <3>1. w.do.op \in {"database", "role", "board"}
      BY <1>2, <1>7, <2>1, CallNames, NamesAssumption DEF Own, Ensures
    <3>2. o \in Find(w.do.name) \ {p \in objects : p.id = w.id}
      BY <1>1, <1>2, <1>4, <2>1 DEF Find
    <3> QED
      BY <3>1, <3>2 DEF Accepted, Taken
  <2> QED
    BY <1>1, <1>3, <2>1 DEF OwnOK
<1>10. OnePerName'
  BY <1>1, <1>2, <1>3 DEF InTimeOK, OnePerName
<1>11. \A n : ~Goes(n, new.id)
  <2>1. ~(new.id \in 1..newest)
    BY <1>1, <1>2
  <2> QED
    BY <1>1, <2>1, GoesBelow
<1>12. \A n \in Sought, o \in objects' : Goes(n, o.id) => o.name \in {n, "renamed"}
  BY <1>1, <1>3, <1>11 DEF FitsOK
<1>13. \A n \in Sought, o, p \in objects' : Sees(n, o.id) /\ ~o.late /\ p.name = n /\ ~p.late => o = p
  BY <1>1, <1>2, <1>3, <1>11 DEF InTimeOK, Goes
<1>14. late => SoundLate
  BY <1>1, <1>2, <1>3 DEF InTimeOK, SoundLate
<1> QED
  BY <1>1, <1>6, <1>8, <1>9, <1>10, <1>12, <1>13, <1>14 DEF Sound

\* An attempt goes by one id of a name.
LEMMA SeesOne ==
  ASSUME AttemptOK, NEW n \in Sought, NEW k, NEW l, Sees(n, k), Sees(n, l)
  PROVE  k = l
<1>1. CASE found \in 1..newest /\ n = Main[at["superset"]].name
  <2>1. Main[at["superset"]].op \in Ensures /\ at["superset"] \in 1..Len(Main)
    BY <1>1 DEF AttemptOK, NotYet
  <2>2. ~MadeBefore(at["superset"], n)
    BY <1>1, <2>1, MadeOnce
  <2>3. got[n] = 0
    BY <2>2 DEF AttemptOK
  <2> QED
    BY <2>3 DEF Sees
<1>2. CASE ~(found \in 1..newest /\ n = Main[at["superset"]].name)
  BY <1>2 DEF Sees
<1> QED
  BY <1>1, <1>2

LEMMA TurnsSound ==
  ASSUME SupersetInv, NEW w, Asked(w), Accepted(w), NEW late \in BOOLEAN, Turns(w, late), w.do.op \notin Reads,
         late \/ Sees(w.do.name, w.id)
  PROVE  Sound /\ (late => SoundLate)
<1>1. /\ ObjectsOK /\ EditedOK /\ OwnOK /\ AttemptOK /\ PendingOK /\ FitsOK /\ InTimeOK
      /\ newest \in Nat /\ newest' = newest /\ w.id # 0
  BY DEF SupersetInv, ObjectsOK, Turns
<1> DEFINE T(o) == Turned(w, o, late)
<1>2. objects' = {T(o) : o \in objects}
  BY DEF Turns
<1>3. ASSUME NEW o \in objects
      PROVE  /\ T(o) \in Object /\ T(o).id = o.id /\ T(o).kept = o.kept /\ (o.late => T(o).late)
             /\ T(o).refers = IF o.id = w.id /\ w.do.op # "dataset" THEN w.refers ELSE o.refers
             /\ T(o).ours = (o.id = w.id \/ o.ours)
             /\ \/ T(o).name = o.name
                \/ /\ o.id = w.id /\ o.name = "renamed" /\ T(o).name = w.do.name
                   /\ w.do.op \notin {"dataset", "grant"}
                   /\ late => T(o).late
             /\ o.id = w.id /\ w.do.op \notin {"dataset", "grant"} => T(o).name = w.do.name
  BY <1>1, TurnedIs
<1> HIDE DEF T
<1>4. w.do \in MainCalls /\ w.do.name # "renamed" /\ w.do.name \in Sought /\ Goes(w.do.name, w.id)
  BY <1>1, CallNames DEF Asked, Written
<1>5. ObjectsOK'
  <2>1. objects' \subseteq Object'
    BY <1>1, <1>2, <1>3 DEF Object
  <2>2. \A o, p \in objects' : o.id = p.id => o = p
    BY <1>1, <1>2, <1>3 DEF ObjectsOK
  <2> QED
    BY <1>1, <2>1, <2>2 DEF ObjectsOK
<1>6. EditedOK'
  <2>1. \A o \in objects : T(o).name = "renamed" => T(o).kept
    BY <1>1, <1>3, <1>4 DEF EditedOK
  <2>2. \A o \in objects : T(o).name \in Range(Datasets) =>
           o.name = T(o).name /\ (o.id = w.id => w.do.op = "dataset")
    <3>1. \A o \in objects : T(o).name \in Range(Datasets) /\ o.id = w.id => w.do.op = "dataset"
      <4>1. ASSUME NEW o \in objects, T(o).name \in Range(Datasets), o.id = w.id
            PROVE  w.do.op = "dataset"
        <5>1. T(o).name = w.do.name \/ T(o).name = o.name
          BY <1>3
        <5>2. o.name \in {w.do.name, "renamed"}
          BY <1>1, <1>4, <4>1 DEF FitsOK
        <5>3. w.do.name \in Range(Datasets)
          BY <4>1, <5>1, <5>2, NamesAssumption
        <5>4. w.do.op \in {"dataset", "refresh"}
          BY <1>4, <5>3, CallNames
        <5> QED
          BY <5>4 DEF Reads
      <4> QED
        BY <4>1
    <3> QED
      BY <1>3, <3>1
  <2>3. \A o \in objects : T(o).name \in Range(Datasets) \ Virtual => T(o).ours \/ T(o).kept
    BY <1>1, <1>3, <2>2 DEF EditedOK
  <2>4. ASSUME NEW o \in objects, T(o).name \in Range(Datasets)
        PROVE  OnDatabase(T(o))'
    <3>1. T(o).refers = o.refers /\ T(o).kept = o.kept /\ OnDatabase(o)
      BY <1>1, <1>3, <2>2, <2>4 DEF EditedOK
    <3>2. CASE o.kept
      BY <3>1, <3>2 DEF OnDatabase
    <3>3. CASE ~o.kept
      <4>1. PICK p \in objects : p.id \in o.refers /\ (p.kept \/ (p.name = Database /\ o.refers = {p.id}))
        BY <3>1, <3>3 DEF OnDatabase
      <4>2. T(p) \in objects' /\ T(p).id = p.id /\ T(p).kept = p.kept
        BY <1>2, <1>3
      <4>3. p.name = Database => T(p).name = Database
        BY <1>3, NamesAssumption DEF Database
      <4> QED
        BY <3>1, <4>1, <4>2, <4>3 DEF OnDatabase
    <3> QED
      BY <3>2, <3>3
  <2> QED
    BY <1>2, <2>1, <2>3, <2>4 DEF EditedOK
<1>7. OwnOK'
  <2>1. ASSUME NEW o \in objects, NEW p \in objects, T(o).name = T(p).name, T(o).name \in Own, o # p, o.id = w.id,
               T(o).name # o.name
        PROVE  FALSE
    <3>1. T(o).name = w.do.name /\ w.do.op \notin {"dataset", "grant"}
      BY <1>3, <2>1
    <3>2. w.do.op \in {"database", "role", "board", "layout"}
      BY <1>4, <2>1, <3>1, CallNames, NamesAssumption DEF Own, Reads
    <3>3. p.id # w.id
      BY <1>1, <2>1 DEF ObjectsOK
    <3>4. p.name = w.do.name
      BY <1>3, <2>1, <3>1, <3>3
    <3>5. p \in Find(w.do.name) \ {q \in objects : q.id = w.id}
      BY <3>3, <3>4 DEF Find
    <3> QED
      BY <3>2, <3>5 DEF Accepted, Taken
  <2>2. ASSUME NEW o \in objects, NEW p \in objects, T(o).name = T(p).name, T(o).name \in Own
        PROVE  o = p
    <3>1. CASE T(o).name = o.name /\ T(p).name = p.name
      BY <1>1, <2>2, <3>1 DEF OwnOK
    <3>2. CASE T(o).name # o.name
      BY <1>3, <2>1, <2>2, <3>2
    <3>3. CASE T(p).name # p.name
      BY <1>3, <2>1, <2>2, <3>3
    <3> QED
      BY <3>1, <3>2, <3>3
  <2> QED
    BY <1>2, <2>2 DEF OwnOK
<1>8. ASSUME NEW n \in Sought, NEW o \in objects, Goes(n, o.id)
      PROVE  T(o).name \in {n, "renamed"}
  <2>1. o.name \in {n, "renamed"}
    BY <1>1, <1>8 DEF FitsOK
  <2>2. o.id = w.id => n = w.do.name
    <3>1. o.id \in 1..newest
      BY <1>1, <1>8, GoesBelow
    <3> QED
      BY <1>1, <1>4, <1>8, <3>1 DEF FitsOK
  <2> QED
    BY <1>3, <2>1, <2>2
\* Only a late request renames an object that the attempt does not go by.
<1>9. ASSUME NEW o \in objects, ~T(o).late, T(o).name # o.name
      PROVE  T(o).name = w.do.name /\ Sees(w.do.name, o.id) /\ ~o.late
  BY <1>3, <1>9
<1>10. ASSUME NEW n \in Sought, NEW o \in objects, NEW p \in objects, Sees(n, o.id), ~T(o).late, T(p).name = n, ~T(p).late
       PROVE  o = p
  <2>1. ~o.late /\ ~p.late
    BY <1>3, <1>10
  <2>2. CASE T(p).name = p.name
    BY <1>1, <1>10, <2>1, <2>2 DEF InTimeOK
  <2>3. CASE T(p).name # p.name
    <3>1. n = w.do.name /\ Sees(n, p.id)
      BY <1>9, <1>10, <2>3
    <3>2. o.id = p.id
      BY <1>1, <1>10, <3>1, SeesOne
    <3> QED
      BY <1>1, <3>2 DEF ObjectsOK
  <2> QED
    BY <2>2, <2>3
<1>11. OnePerName'
  <2>1. ASSUME NEW o \in objects, NEW p \in objects, T(o).name = T(p).name, T(o).name # "renamed", ~T(o).late, ~T(p).late
        PROVE  o = p
    <3>1. ~o.late /\ ~p.late
      BY <1>3, <2>1
    <3>2. CASE T(o).name = o.name /\ T(p).name = p.name
      BY <1>1, <2>1, <3>1, <3>2 DEF InTimeOK, OnePerName
    <3>3. CASE T(o).name # o.name
      <4>1. T(p).name = w.do.name /\ Sees(w.do.name, o.id)
        BY <1>9, <2>1, <3>3
      <4> QED
        BY <1>4, <1>10, <2>1, <4>1
    <3>4. CASE T(p).name # p.name
      <4>1. T(o).name = w.do.name /\ Sees(w.do.name, p.id)
        BY <1>9, <2>1, <3>4
      <4> QED
        BY <1>4, <1>10, <2>1, <4>1
    <3> QED
      BY <3>2, <3>3, <3>4
  <2> QED
    BY <1>2, <2>1 DEF OnePerName
<1>12. late => SoundLate
  BY <1>1, <1>2, <1>3 DEF InTimeOK, SoundLate
<1>13. \A n \in Sought, o \in objects' : Goes(n, o.id) => o.name \in {n, "renamed"}
  BY <1>2, <1>3, <1>8
<1>14. \A n \in Sought, o, p \in objects' : Sees(n, o.id) /\ ~o.late /\ p.name = n /\ ~p.late => o = p
  BY <1>2, <1>3, <1>10
<1> QED
  BY <1>1, <1>5, <1>6, <1>7, <1>11, <1>12, <1>13, <1>14 DEF Sound

\* People change an object, but not its id.
LEMMA BecomesSound ==
  ASSUME SupersetInv, NEW o \in objects, NEW p, Becomes(o, p), p \in Object, p.id = o.id, p.late = o.late,
         o.kept => p.kept, p.name = o.name \/ (p.name = "renamed" /\ p.kept),
         o.name \in Range(Datasets) => p.kept \/ p.refers = o.refers,
         o.name \in Range(Datasets) \ Virtual => p.kept
  PROVE  Sound /\ SoundLate
<1>1. /\ ObjectsOK /\ EditedOK /\ OwnOK /\ FitsOK /\ InTimeOK
      /\ newest \in Nat /\ newest' = newest /\ objects' = (objects \ {o}) \union {p}
  BY DEF SupersetInv, ObjectsOK, Becomes
<1>2. \A q \in objects' : \E r \in objects :
         /\ r.id = q.id /\ r.late = q.late /\ q \in Object /\ (r.kept => q.kept)
         /\ q.name = r.name \/ (q.name = "renamed" /\ q.kept)
  BY <1>1 DEF ObjectsOK
<1>3. \A r \in objects : \E q \in objects' : r.id = q.id /\ (r.kept => q.kept) /\ (q.name = r.name \/ q.kept)
  BY <1>1
<1>4. ObjectsOK'
  <2>1. objects' \subseteq Object'
    BY <1>1, <1>2 DEF Object
  <2>2. \A q, r \in objects' : q.id = r.id => q = r
    BY <1>1 DEF ObjectsOK
  <2> QED
    BY <1>1, <2>1, <2>2 DEF ObjectsOK
<1>5. \A q, r \in objects' : \A c, d \in objects : c.id = q.id /\ d.id = r.id /\ c = d => q = r
  BY <1>4 DEF ObjectsOK
<1>6. EditedOK'
  <2>1. \A q \in objects' : q.name = "renamed" => q.kept
    BY <1>1 DEF EditedOK
  <2>2. \A q \in objects' : q.name \in Range(Datasets) \ Virtual => q.ours \/ q.kept
    BY <1>1, NamesAssumption DEF EditedOK
  <2>3. ASSUME NEW q \in objects', q.name \in Range(Datasets)
        PROVE  OnDatabase(q)'
    <3>1. q.kept \/ \E r \in objects : r.id = q.id /\ r.refers = q.refers /\ OnDatabase(r) /\ ~r.kept
      <4>1. CASE q = p
        <5>1. p.kept \/ p.name = o.name
          OBVIOUS
        <5> QED
          BY <1>1, <2>3, <4>1, <5>1 DEF EditedOK
      <4>2. CASE q \in objects
        BY <1>1, <2>3, <4>2 DEF EditedOK
      <4> QED
        BY <1>1, <4>1, <4>2
    <3>2. CASE q.kept
      BY <3>2 DEF OnDatabase
    <3>3. CASE ~q.kept
      <4>1. PICK r \in objects : r.refers = q.refers /\ OnDatabase(r) /\ ~r.kept
        BY <3>1, <3>3
      <4>2. PICK e \in objects : e.id \in r.refers /\ (e.kept \/ (e.name = Database /\ r.refers = {e.id}))
        BY <4>1 DEF OnDatabase
      <4>3. PICK f \in objects' : f.id = e.id /\ (e.kept => f.kept) /\ (f.name = e.name \/ f.kept)
        BY <1>3
      <4> QED
        BY <4>1, <4>2, <4>3 DEF OnDatabase
    <3> QED
      BY <3>2, <3>3
  <2> QED
    BY <2>1, <2>2, <2>3 DEF EditedOK
<1>7. "renamed" \notin Own
  BY NamesAssumption DEF Own, Database, Role
<1>8. OwnOK'
  <2>1. ASSUME NEW q \in objects', NEW r \in objects', q.name = r.name, q.name \in Own
        PROVE  q = r
    <3>1. PICK c \in objects : c.id = q.id /\ c.name = q.name
      BY <1>2, <1>7, <2>1
    <3>2. PICK d \in objects : d.id = r.id /\ d.name = r.name
      BY <1>2, <1>7, <2>1
    <3> QED
      BY <1>1, <1>5, <2>1, <3>1, <3>2 DEF OwnOK
  <2> QED
    BY <2>1 DEF OwnOK
<1>9. OnePerName'
  <2>1. ASSUME NEW q \in objects', NEW r \in objects', q.name = r.name, q.name # "renamed", ~q.late, ~r.late
        PROVE  q = r
    <3>1. PICK c \in objects : c.id = q.id /\ c.name = q.name /\ ~c.late
      BY <1>2, <2>1
    <3>2. PICK d \in objects : d.id = r.id /\ d.name = r.name /\ ~d.late
      BY <1>2, <2>1
    <3> QED
      BY <1>1, <1>5, <2>1, <3>1, <3>2 DEF InTimeOK, OnePerName
  <2> QED
    BY <2>1 DEF OnePerName
<1>10. \A n \in Sought, q \in objects' : Goes(n, q.id) => q.name \in {n, "renamed"}
  BY <1>1, <1>2 DEF FitsOK
<1>11. ASSUME NEW n \in Sought, NEW q \in objects', NEW r \in objects', Sees(n, q.id), ~q.late, r.name = n, ~r.late
       PROVE  q = r
  <2>1. PICK c \in objects : c.id = q.id /\ ~c.late
    BY <1>2, <1>11
  <2>2. n # "renamed"
    BY NamesAssumption DEF Sought, Database, Role
  <2>3. PICK d \in objects : d.id = r.id /\ d.name = r.name /\ ~d.late
    BY <1>2, <1>11, <2>2
  <2> QED
    BY <1>1, <1>5, <1>11, <2>1, <2>3 DEF InTimeOK
<1>12. SoundLate
  <2>1. ASSUME found = 0, NEW q \in objects', q.name = Main[at["superset"]].name
        PROVE  q.late
    <3>1. Main[at["superset"]].name # "renamed"
      BY <2>1, MainKinds, CallNames DEF SupersetInv, AttemptOK, NotYet
    <3>2. PICK c \in objects : c.late = q.late /\ c.name = q.name
      BY <1>2, <2>1, <3>1
    <3> QED
      BY <1>1, <2>1, <3>2 DEF InTimeOK
  <2> QED
    BY <2>1 DEF SoundLate
<1> QED
  BY <1>1, <1>4, <1>6, <1>8, <1>9, <1>10, <1>11, <1>12 DEF Sound

LEMMA DeletesSound ==
  ASSUME SupersetInv, NEW o \in objects, Deletes(o)
  PROVE  Sound /\ SoundLate
<1>1. /\ ObjectsOK /\ EditedOK /\ OwnOK /\ FitsOK /\ InTimeOK
      /\ newest' = newest /\ objects' = objects \ {o}
      /\ \A d \in objects : d.name \in Range(Datasets) => o.id \notin d.refers
  BY DEF SupersetInv, Deletes
<1>2. ObjectsOK'
  BY <1>1 DEF ObjectsOK, Object
<1>3. ASSUME NEW d \in objects', d.name \in Range(Datasets)
      PROVE  OnDatabase(d)'
  <2>1. OnDatabase(d) /\ d \in objects
    BY <1>1, <1>3 DEF EditedOK
  <2> QED
    BY <1>1, <1>3, <2>1 DEF OnDatabase
<1>4. EditedOK'
  BY <1>1, <1>3 DEF EditedOK
<1> QED
  BY <1>1, <1>2, <1>4 DEF Sound, SoundLate, OwnOK, OnePerName, InTimeOK, FitsOK

LEMMA CopiesSound ==
  ASSUME SupersetInv, NEW o \in objects, Copies(o)
  PROVE  Sound /\ SoundLate
<1>0. PICK new : new = [o EXCEPT !.id = newest + 1, !.ours = FALSE, !.late = TRUE]
  OBVIOUS
<1>1. /\ ObjectsOK /\ EditedOK /\ OwnOK /\ AttemptOK /\ PendingOK /\ FitsOK /\ InTimeOK
      /\ newest \in Nat /\ newest' = newest + 1 /\ objects' = objects \union {new} /\ o.name \in Range(Charts)
  BY <1>0 DEF SupersetInv, ObjectsOK, Copies
<1>2. /\ new \in [id: 1..newest + 1, name: Sought \union {"renamed"}, refers: SUBSET (1..newest),
                  ours: BOOLEAN, kept: BOOLEAN, late: BOOLEAN]
      /\ new.id = newest + 1 /\ new.name = o.name /\ new.late = TRUE /\ new.kept = o.kept
  <2>1. o \in Object /\ newest + 1 \in 1..newest + 1
    BY <1>1 DEF ObjectsOK
  <2> QED
    BY <1>0, <2>1 DEF Object
<1>3. \A p \in objects : p \in Object /\ p.id \in 1..newest /\ p.id # new.id
  BY <1>1, <1>2 DEF ObjectsOK, Object
<1>4. ObjectsOK'
  <2>1. 1..newest \subseteq 1..newest' /\ 1..newest + 1 = 1..newest'
    BY <1>1
  <2>2. \A p \in objects : p \in Object'
    BY <1>3, <2>1 DEF Object
  <2>3. new \in Object'
    BY <1>2, <2>1 DEF Object
  <2>4. \A p, q \in objects' : p.id = q.id => p = q
    BY <1>1, <1>3 DEF ObjectsOK
  <2> QED
    BY <1>1, <2>2, <2>3, <2>4 DEF ObjectsOK
<1>5. o.name # "renamed" /\ o.name \notin Range(Datasets) /\ o.name \notin Own
  BY <1>1, NamesAssumption DEF Own, Database, Role
<1>6. EditedOK'
  <2>1. \A p \in objects : p.name \in Range(Datasets) => OnDatabase(p)'
    BY <1>1 DEF EditedOK, OnDatabase
  <2> QED
    BY <1>1, <1>2, <1>5, <2>1 DEF EditedOK
<1>7. OwnOK' /\ OnePerName'
  BY <1>1, <1>2, <1>5 DEF OwnOK, InTimeOK, OnePerName
<1>8. \A n : ~Goes(n, new.id)
  <2>1. ~(new.id \in 1..newest)
    BY <1>1, <1>2
  <2> QED
    BY <1>1, <2>1, GoesBelow
<1>9. \A n \in Sought, p \in objects' : Goes(n, p.id) => p.name \in {n, "renamed"}
  BY <1>1, <1>8 DEF FitsOK
<1>10. \A n \in Sought, p, q \in objects' : Sees(n, p.id) /\ ~p.late /\ q.name = n /\ ~q.late => p = q
  BY <1>1, <1>2 DEF InTimeOK
<1>11. SoundLate
  BY <1>1, <1>2 DEF InTimeOK, SoundLate
<1> QED
  BY <1>1, <1>4, <1>6, <1>7, <1>9, <1>10, <1>11 DEF Sound

LEMMA EditsSound ==
  ASSUME SupersetInv, NEW o \in objects, Deletes(o) \/ Changes(o) \/ Moves(o) \/ Renames(o) \/ Copies(o)
  PROVE  Sound /\ SoundLate
<1>1. o \in Object
  BY DEF SupersetInv, ObjectsOK
<1>2. CASE Changes(o)
  <2>1. o.name \in Sought
    BY <1>2 DEF Changes
  <2>2. CASE o.name \in Range(Datasets)
    <3>1. PICK p : p = [o EXCEPT !.ours = FALSE, !.kept = @ \/ o.name \notin Virtual] /\ Becomes(o, p)
      BY <1>2, <2>2 DEF Changes
    <3>2. /\ p \in Object /\ p.id = o.id /\ p.late = o.late /\ p.name = o.name /\ p.refers = o.refers
          /\ (o.kept => p.kept) /\ (o.name \notin Virtual => p.kept)
      BY <1>1, <3>1 DEF Object
    <3> QED
      BY <3>1, <3>2, BecomesSound
  <2>3. CASE o.name \notin Range(Datasets)
    <3>1. PICK p : p = [o EXCEPT !.ours = FALSE, !.refers = {}] /\ Becomes(o, p)
      BY <1>2, <2>3 DEF Changes
    <3>2. p \in Object /\ p.id = o.id /\ p.late = o.late /\ p.name = o.name /\ p.kept = o.kept
      BY <1>1, <3>1 DEF Object
    <3> QED
      BY <2>3, <3>1, <3>2, BecomesSound
  <2> QED
    BY <2>2, <2>3
<1>3. CASE Moves(o)
  <2>1. PICK p : p = [o EXCEPT !.refers = {}, !.kept = TRUE] /\ Becomes(o, p)
    BY <1>3 DEF Moves
  <2>2. p \in Object /\ p.id = o.id /\ p.late = o.late /\ p.name = o.name /\ p.kept
    BY <1>1, <2>1 DEF Object
  <2> QED
    BY <2>1, <2>2, BecomesSound
<1>4. CASE Renames(o)
  <2>1. PICK p : p = [o EXCEPT !.name = "renamed", !.kept = TRUE] /\ Becomes(o, p)
    BY <1>4 DEF Renames
  <2>2. p \in Object /\ p.id = o.id /\ p.late = o.late /\ p.name = "renamed" /\ p.kept
    BY <1>1, <2>1 DEF Object
  <2> QED
    BY <2>1, <2>2, BecomesSound
<1> QED
  BY <1>2, <1>3, <1>4, DeletesSound, CopiesSound

----------------------------------------------------------------------------
(***************************************************************************)
(* What an attempt asks for                                                *)
(***************************************************************************)

LEMMA RefersIn ==
  ASSUME NEW do \in MainCalls, NEW ids, NEW k \in Refers(do, ids)
  PROVE  \E n \in Needs(do) : k = ids[n]
<1>1. CASE do.op \in {"dataset", "grant"}
  <2>1. Database \in Needs(do) /\ Refers(do, ids) = {ids[Database]}
    BY <1>1, RefersIs DEF Needs, Sought
  <2> QED
    BY <2>1
<1>2. CASE do.op = "chart"
  <2>1. do.name \in Range(Charts)
    BY <1>2, CallNames
  <2>2. DatasetOf[do.name] \in Needs(do) /\ ShownOn[do.name] \subseteq Needs(do)
    BY <1>2, <2>1, ChartNeeds DEF Needs, Sought
  <2>3. do.name = LayeredMap => Layers \subseteq Needs(do)
    BY <1>2, <2>1, ChartNeeds DEF Needs, Sought
  <2>4. Refers(do, ids) = {ids[DatasetOf[do.name]]} \union {ids[b] : b \in ShownOn[do.name]}
                          \union (IF do.name = LayeredMap THEN {ids[c] : c \in Layers} ELSE {})
    BY <1>2, RefersIs
  <2> QED
    BY <2>2, <2>3, <2>4
<1>3. CASE do.op = "layout"
  <2>1. {c \in Range(Charts) : do.name \in ShownOn[c]} \subseteq Needs(do)
    BY <1>3 DEF Needs, Sought
  <2>2. Refers(do, ids) = {ids[c] : c \in {c \in Range(Charts) : do.name \in ShownOn[c]}}
    BY <1>3, RefersIs
  <2> QED
    BY <2>1, <2>2
<1>4. CASE do.op \notin {"dataset", "grant", "chart", "layout"}
  BY <1>4, RefersIs
<1> QED
  BY <1>1, <1>2, <1>3, <1>4

\* What a call needs, the attempt has an id for.
LEMMA NeedsSeen ==
  ASSUME AttemptOK, at["superset"] \in 1..Len(Main), NEW n \in Needs(Main[at["superset"]])
  PROVE  n \in Sought /\ got[n] # 0 /\ MadeBefore(at["superset"], n)
<1>1. n \in Sought /\ MadeBefore(at["superset"], n)
  BY MadeInOrder DEF Needs
<1> QED
  BY <1>1 DEF AttemptOK

LEMMA RequestAsked ==
  ASSUME SupersetInv, JobsOK, at["superset"] \in 1..Len(Main), NEW do, do = Main[at["superset"]],
         Looked(do), do.op \notin Reads
  PROVE  /\ Asked(Request(do)) /\ Request(do) \in Requests
         /\ Request(do).do = do
         /\ Request(do).id = IF do.op \in Ensures THEN found ELSE got[do.name]
         /\ Request(do).refers = Refers(do, got)
         /\ Request(do).id # 0 => Sees(do.name, Request(do).id)
<1>1. /\ ObjectsOK /\ AttemptOK /\ FitsOK /\ newest \in Nat
      /\ do \in MainCalls /\ do.name \in Sought /\ do.op \notin {"login", "refresh", "uuid"}
      /\ do.op \in {"login", "database", "role", "grant", "dataset", "refresh", "board", "layout", "chart", "uuid"}
  BY MainKinds, CallNames DEF SupersetInv, ObjectsOK, Reads
<1> DEFINE w == Request(do)
<1>2. /\ w.do = do /\ w.id = (IF do.op \in Ensures THEN found ELSE got[do.name])
      /\ w.refers = Refers(do, got) /\ w.needs = Refers(do, got) \ {got[c] : c \in Range(Charts)}
      /\ w.attempt = retries["superset"]
      /\ w = [do |-> w.do, id |-> w.id, refers |-> w.refers, needs |-> w.needs, attempt |-> w.attempt]
  BY DEF Request
<1> HIDE DEF w
<1>3. \A n \in Sought : got[n] \in 0..newest /\ (got[n] # 0 => got[n] \in 1..newest)
  BY <1>1 DEF AttemptOK
<1>4. w.refers \in SUBSET (1..newest)
  <2>1. ASSUME NEW k \in Refers(do, got)
        PROVE  k \in 1..newest
    <3>1. PICK n \in Needs(do) : k = got[n]
      BY <1>1, RefersIn
    <3> QED
      BY <1>1, <1>3, <3>1, NeedsSeen
  <2> QED
    BY <1>2, <2>1
<1>5. w.id \in 0..newest /\ (w.id = 0 => do.op \in Ensures) /\ (w.id # 0 => Sees(do.name, w.id))
  <2>1. CASE do.op \in Ensures
    <3>1. w.id = found /\ found \in 0..newest
      BY <1>1, <1>2, <2>1 DEF Looked, AttemptOK
    <3> QED
      BY <1>1, <2>1, <3>1 DEF Sees
  <2>2. CASE do.op \notin Ensures
    <3>1. do.op \in {"grant", "layout"}
      BY <1>1, <2>2 DEF Ensures
    <3>2. do.name \in Needs(do)
      BY <1>1, <3>1 DEF Needs
    <3>3. got[do.name] # 0
      BY <1>1, <3>2, NeedsSeen
    <3> QED
      BY <1>1, <1>2, <1>3, <2>2, <3>3 DEF Sees
  <2> QED
    BY <2>1, <2>2
<1>6. do.op = "dataset" => w.needs = w.refers /\ (\E k \in 1..newest : w.refers = {k}) /\ \A k \in w.refers : Goes(Database, k)
  <2>1. ASSUME do.op = "dataset"
        PROVE  w.refers = {got[Database]} /\ got[Database] \in 1..newest /\ w.needs = w.refers
    <3>1. w.refers = {got[Database]}
      BY <1>1, <1>2, <2>1, RefersIs
    <3>2. got[Database] \in 1..newest
      BY <1>4, <3>1
    <3>3. \A c \in Range(Charts) : got[c] # got[Database]
      <4>1. ASSUME NEW c \in Range(Charts), got[c] = got[Database]
            PROVE  FALSE
        <5>1. Goes(Database, got[Database]) /\ Goes(c, got[Database])
          BY <3>2, <4>1 DEF Goes, Sees
        <5>2. c \in Sought /\ Database \in Sought /\ c # Database
          BY NamesAssumption DEF Sought
        <5> QED
          BY <1>1, <3>2, <5>1, <5>2 DEF FitsOK
      <4> QED
        BY <4>1
    <3> QED
      BY <1>2, <3>1, <3>2, <3>3
  <2> QED
    BY <2>1 DEF Goes, Sees
<1>7. Asked(w)
  BY <1>1, <1>2, <1>4, <1>5, <1>6 DEF Asked, Written, Goes
<1>8. w \in Requests
  <2>1. do \in {Main[n] : n \in 1..Len(Main)}
    OBVIOUS
  <2>2. w.needs \in SUBSET (1..newest) /\ w.attempt \in Nat
    BY <1>2, <1>4 DEF JobsOK, Jobs
  <2> QED
    BY <1>2, <1>4, <1>5, <2>1, <2>2 DEF Requests
<1> QED
  BY <1>2, <1>5, <1>7, <1>8 DEF w

----------------------------------------------------------------------------
(***************************************************************************)
(* Every step keeps the invariant                                          *)
(***************************************************************************)

\* At most one id becomes known for one name.
LEMMA StepKeeps ==
  ASSUME SupersetInv, Sound, AttemptOK', PendingOK', NEW m \in Sought, NEW l,
         \A n \in Sought : \A k : Goes(n, k)' => Goes(n, k) \/ (n = m /\ k = l),
         \A n \in Sought : \A k : Sees(n, k)' => Sees(n, k) \/ (n = m /\ k = l),
         \A n \in Sought : Goes(n, l) => n = m,
         \A o \in objects' : o.id = l => o.name \in {m, "renamed"},
         \A o, p \in objects' : o.id = l /\ ~o.late /\ p.name = m /\ ~p.late => o = p,
         found' = 0 => \A o \in objects' : o.name = Main[at'["superset"]].name => o.late
  PROVE  SupersetInv'
<1>1. FitsOK'
  <2>1. \A n \in Sought, o \in objects' : Goes(n, o.id)' => o.name \in {n, "renamed"}
    BY DEF Sound
  <2>2. \A n, j \in Sought : \A k : Goes(n, k) /\ Goes(j, k) => n = j
    <3>1. ObjectsOK /\ PendingOK
      BY DEF SupersetInv
    <3> QED
      BY <3>1, GoesBelow DEF SupersetInv, FitsOK
  <2>3. \A n, j \in Sought, k \in 1..newest' : Goes(n, k)' /\ Goes(j, k)' => n = j
    BY <2>2
  <2> QED
    BY <2>1, <2>3 DEF FitsOK
<1>2. InTimeOK'
  <2>1. ASSUME NEW n \in Sought, NEW o \in objects', NEW p \in objects', Sees(n, o.id)', ~o.late, p.name = n, ~p.late
        PROVE  o = p
    BY <2>1 DEF Sound
  <2> QED
    BY <2>1 DEF InTimeOK, Sound
<1> QED
  BY <1>1, <1>2 DEF Sound, SupersetInv

\* No id becomes known.
LEMMA NoneNew ==
  ASSUME SupersetInv, Sound, AttemptOK', PendingOK',
         \A n \in Sought : \A k : Goes(n, k)' => Goes(n, k),
         \A n \in Sought : \A k : Sees(n, k)' => Sees(n, k),
         found' = 0 => \A o \in objects' : o.name = Main[at'["superset"]].name => o.late
  PROVE  SupersetInv'
<1>1. Database \in Sought /\ ObjectsOK /\ PendingOK
  BY DEF Sought, SupersetInv
<1>2. \A n : ~Goes(n, 0)
  BY <1>1, GoesBelow
<1>3. \A o \in objects' : o.id # 0
  BY DEF Sound, ObjectsOK, Object
<1> QED
  BY <1>1, <1>2, <1>3, StepKeeps

LEMMA PendingStays ==
  ASSUME PendingOK, ObjectsOK, newest' \in {newest, newest + 1}, pending' \subseteq pending
  PROVE  PendingOK'
<1>1. newest \in Nat /\ 0..newest \subseteq 0..newest' /\ 1..newest \subseteq 1..newest'
  BY DEF ObjectsOK
<1>2. Requests \subseteq Requests'
  BY <1>1 DEF Requests
<1>3. \A w \in pending : Written(w)'
  BY <1>1 DEF PendingOK, Written
<1> QED
  BY <1>2, <1>3 DEF PendingOK

LEMMA ElsewhereKeeps ==
  ASSUME SupersetInv, UNCHANGED <<objects, newest, got, found, pending, alone>>, at'["superset"] = at["superset"]
  PROVE  SupersetInv'
<1>1. Sound /\ SoundLate
  BY SameSound
<1>2. AttemptOK'
  BY DEF SupersetInv, AttemptOK
<1>3. PendingOK'
  BY PendingStays DEF SupersetInv
<1>4. \A n, k : (Sees(n, k)' <=> Sees(n, k)) /\ (Goes(n, k)' <=> Goes(n, k))
  BY DEF Sees, Goes
<1> QED
  BY <1>1, <1>2, <1>3, <1>4, NoneNew DEF SoundLate

LEMMA LooksKeeps ==
  ASSUME SupersetInv, at["superset"] \in 1..Len(Main), NEW do, do = Main[at["superset"]], Looks(do)
  PROVE  SupersetInv'
<1>1. /\ ObjectsOK /\ AttemptOK /\ PendingOK /\ FitsOK /\ InTimeOK
      /\ do \in MainCalls /\ do.name \in Sought /\ do.name # "renamed" /\ do.op \in Ensures
      /\ UNCHANGED <<at, retries, objects, newest, got, pending, delays, alone>>
  BY MainKinds, CallNames DEF SupersetInv, Looks
<1>2. \/ found' = 0 /\ \A o \in objects : o.name # do.name
      \/ \E o \in objects : o.name = do.name /\ found' = o.id
  BY DEF Looks, Find
<1>3. found' \in 0..newest
  <2>1. newest \in Nat /\ \A o \in objects : o.id \in 1..newest
    BY <1>1 DEF ObjectsOK, Object
  <2>2. 0 \in 0..newest /\ \A o \in objects : o.id \in 0..newest
    BY <2>1
  <2>3. CASE found' = 0
    BY <2>2, <2>3
  <2>4. CASE \E o \in objects : found' = o.id
    BY <2>2, <2>4
  <2> QED
    BY <1>2, <2>3, <2>4
<1>4. Sound
  BY <1>1, SameSound
<1>5. AttemptOK'
  BY <1>1, <1>3 DEF AttemptOK
<1>6. PendingOK'
  BY <1>1, PendingStays
<1>7. \A n, k : Sees(n, k)' => Sees(n, k) \/ (n = do.name /\ k = found')
  BY <1>1 DEF Sees
<1>8. \A n, k : Goes(n, k)' => Goes(n, k) \/ (n = do.name /\ k = found')
  BY <1>1, <1>7 DEF Goes
<1>9. \A n \in Sought : Goes(n, found') => n = do.name
  <2>1. \A n : ~Goes(n, 0)
    BY <1>1, GoesBelow
  <2> QED
    BY <1>1, <1>2, <2>1 DEF FitsOK
<1>10. \A o \in objects' : o.id = found' => o.name = do.name
  BY <1>1, <1>2 DEF ObjectsOK, Object
<1>11. \A o, p \in objects' : o.id = found' /\ ~o.late /\ p.name = do.name /\ ~p.late => o = p
  BY <1>1, <1>10 DEF InTimeOK, OnePerName
<1>12. found' = 0 => \A o \in objects' : o.name = Main[at'["superset"]].name => o.late
  BY <1>1, <1>2 DEF ObjectsOK, Object
<1>13. /\ \A n \in Sought : \A k : Goes(n, k)' => Goes(n, k) \/ (n = do.name /\ k = found')
       /\ \A n \in Sought : \A k : Sees(n, k)' => Sees(n, k) \/ (n = do.name /\ k = found')
       /\ \A o \in objects' : o.id = found' => o.name \in {do.name, "renamed"}
  BY <1>7, <1>8, <1>10
<1>14. do.name \in Sought
  BY <1>1
<1> QED
  BY <1>4, <1>5, <1>6, <1>9, <1>11, <1>12, <1>13, <1>14, StepKeeps

\* Which names the next call finds made.
LEMMA NextMade ==
  ASSUME NEW k \in 1..Len(Main), NEW n
  PROVE  MadeBefore(k + 1, n) <=> MadeBefore(k, n) \/ (Main[k].op \in Ensures /\ n = Main[k].name)
<1>1. Len(Main) \in Nat
  BY MainIs, Lengths
<1>2. \A j : j \in 1..(k + 1 - 1) <=> j \in 1..(k - 1) \/ j = k
  BY <1>1
<1> QED
  BY <1>2 DEF MadeBefore

\* How a call of an attempt comes out for the objects.
LEMMA OwnRequest ==
  ASSUME SupersetInv, JobsOK, at["superset"] \in 1..Len(Main), NEW do, do = Main[at["superset"]],
         Looked(do), Performs(Request(do), FALSE)
  PROVE  /\ Sound
         /\ do.op \in Ensures /\ found = 0 =>
               newest' = newest + 1 /\ objects' = objects \union {Made(Request(do), FALSE)}
<1>1. /\ ObjectsOK /\ AttemptOK /\ InTimeOK /\ do \in MainCalls
      /\ do.name \in Sought
  BY MainKinds, CallNames DEF SupersetInv
<1> DEFINE w == Request(do)
<1>2. w.do = do
  BY DEF Request
<1>3. CASE do.op \in Reads
  <2>1. UNCHANGED <<objects, newest>>
    BY <1>2, <1>3, PerformsIs
  <2> QED
    BY <1>3, <2>1, SameSound DEF Reads, Ensures
<1>4. CASE do.op \notin Reads
  <2>1. /\ Asked(w) /\ w.id = (IF do.op \in Ensures THEN found ELSE got[do.name])
        /\ w.id # 0 => Sees(do.name, w.id)
    BY <1>4, RequestAsked
  <2>2. Accepted(w) /\ (Adds(w, FALSE) \/ Turns(w, FALSE))
    BY <1>2, <1>4, PerformsIs
  <2> HIDE DEF w
  <2>3. CASE Adds(w, FALSE)
    <3>1. do.op \in Ensures /\ found = 0
      BY <1>2, <2>1, <2>3 DEF Adds, Asked, Written
    <3>2. \A o \in objects : o.name = do.name => o.late
      BY <1>1, <3>1 DEF InTimeOK
    <3>3. got[do.name] = 0
      <4>1. ~MadeBefore(at["superset"], do.name)
        BY <3>1, MadeOnce
      <4> QED
        BY <1>1, <4>1 DEF AttemptOK
    <3>4. \A k : ~Sees(do.name, k)
      BY <3>1, <3>3 DEF Sees
    <3>5. Sound
      BY <1>2, <1>4, <2>1, <2>2, <2>3, <3>2, <3>4, AddsSound
    <3> QED
      BY <2>3, <3>5 DEF Adds, w
  <2>4. CASE Turns(w, FALSE)
    <3>1. w.id # 0
      BY <2>4 DEF Turns
    <3>2. Sound
      BY <1>2, <1>4, <2>1, <2>2, <2>4, <3>1, TurnsSound
    <3> QED
      BY <2>1, <3>1, <3>2
  <2> QED
    BY <2>2, <2>3, <2>4
<1> QED
  BY <1>3, <1>4

LEMMA ProceedsKeeps ==
  ASSUME SupersetInv, JobsOK, at["superset"] \in 1..Len(Main), NEW do, do = Main[at["superset"]], Proceeds(do)
  PROVE  SupersetInv'
<1>1. /\ ObjectsOK /\ AttemptOK /\ PendingOK /\ FitsOK /\ InTimeOK /\ newest \in Nat
      /\ do \in MainCalls /\ do.name \in Sought /\ do.name # "renamed"
      /\ Looked(do) /\ found' = NotYet /\ UNCHANGED <<pending, alone>>
      /\ got' = [got EXCEPT ![do.name] = IF do.op \in Ensures /\ found = 0 THEN newest' ELSE Request(do).id]
  BY MainKinds, CallNames DEF SupersetInv, Proceeds, ObjectsOK
<1>2. at'["superset"] = at["superset"] + 1
  BY DEF Proceeds, Passes, JobsOK, Jobs
<1>3. found = 0 => Calls(do)
  BY DEF Calls
<1>4. /\ Sound
      /\ do.op \in Ensures /\ found = 0 =>
            newest' = newest + 1 /\ objects' = objects \union {Made(Request(do), FALSE)}
  <2>1. CASE Calls(do)
    BY <1>1, <2>1, OwnRequest DEF Proceeds
  <2>2. CASE ~Calls(do)
    BY <1>3, <2>2, SameSound DEF Proceeds
  <2> QED
    BY <2>1, <2>2
<1>5. newest' \in {newest, newest + 1}
  BY <1>4 DEF Sound
<1>6. Request(do).id = IF do.op \in Ensures THEN found ELSE got[do.name]
  BY DEF Request
<1>7. PendingOK'
  BY <1>1, <1>5, PendingStays
<1> DEFINE l == got'[do.name]
<1>8. /\ l = IF do.op \in Ensures /\ found = 0 THEN newest' ELSE IF do.op \in Ensures THEN found ELSE got[do.name]
      /\ \A n \in Sought : n # do.name => got'[n] = got[n]
      /\ l \in 0..newest' /\ got' \in [Sought -> 0..newest']
  <2>1. /\ l = IF do.op \in Ensures /\ found = 0 THEN newest' ELSE IF do.op \in Ensures THEN found ELSE got[do.name]
        /\ \A n \in Sought : n # do.name => got'[n] = got[n]
        /\ DOMAIN got' = Sought
    BY <1>1, <1>6 DEF AttemptOK
  <2>2. do.op \in Ensures => found \in 0..newest
    BY <1>1 DEF Looked, AttemptOK
  <2>3. \A n \in Sought : got[n] \in 0..newest
    BY <1>1 DEF AttemptOK
  <2>4. l \in 0..newest' /\ \A n \in Sought : got'[n] \in 0..newest'
    BY <1>1, <1>5, <2>1, <2>2, <2>3
  <2>5. got' = [n \in Sought |-> got'[n]]
    BY <1>1 DEF AttemptOK
  <2> QED
    BY <2>1, <2>4, <2>5
<1>9. AttemptOK'
  <2>1. do.op \in Ensures => l # 0
    <3>1. newest + 1 # 0
      BY <1>1
    <3>2. CASE do.op \in Ensures /\ found = 0
      <4>1. l = newest' /\ newest' = newest + 1
        BY <1>4, <1>8, <3>2
      <4> QED
        BY <3>1, <4>1
    <3>3. CASE do.op \in Ensures /\ found # 0
      <4>1. l = found
        BY <1>8, <3>3
      <4> QED
        BY <3>3, <4>1
    <3> QED
      BY <3>2, <3>3
  <2>2. ASSUME NEW n \in Sought
        PROVE  got'[n] # 0 <=> MadeBefore(at'["superset"], n)
    <3>1. MadeBefore(at'["superset"], n) <=> MadeBefore(at["superset"], n) \/ (do.op \in Ensures /\ n = do.name)
      BY <1>2, NextMade
    <3>2. got[n] # 0 <=> MadeBefore(at["superset"], n)
      BY <1>1 DEF AttemptOK
    <3> QED
      BY <1>8, <2>1, <3>1, <3>2
  <2> QED
    BY <1>1, <1>8, <2>2 DEF AttemptOK, NotYet
<1> HIDE DEF l
<1>10. got'[do.name] = l
  BY DEF l
<1>11. \A k : Sees(do.name, k)' => k = l
  BY <1>1, <1>10 DEF Sees, NotYet
<1>12. \A n \in Sought : \A k : Sees(n, k)' /\ n # do.name => Sees(n, k)
  <2>1. ASSUME NEW n \in Sought, NEW k, Sees(n, k)', n # do.name
        PROVE  Sees(n, k)
    <3>1. k = got'[n] /\ k \in 1..newest'
      BY <1>1, <2>1 DEF Sees, NotYet
    <3>2. k = got[n] /\ got[n] \in 0..newest
      BY <1>1, <1>8, <2>1, <3>1 DEF AttemptOK
    <3> QED
      BY <1>1, <3>1, <3>2 DEF Sees
  <2> QED
    BY <2>1
<1>13. \A n \in Sought : \A k : Goes(n, k)' => Goes(n, k) \/ Sees(n, k)'
  <2>1. ASSUME NEW n \in Sought, NEW k, Goes(n, k)', ~Sees(n, k)'
        PROVE  Goes(n, k)
    <3>1. PICK w \in pending : \/ k \in 1..newest' /\ k = w.id /\ n = w.do.name
                               \/ w.do.op = "dataset" /\ k \in w.refers /\ n = Database
      BY <1>1, <2>1 DEF Goes
    <3>2. w.id \in 0..newest
      BY <1>1 DEF PendingOK, Requests
    <3> QED
      BY <1>1, <3>1, <3>2 DEF Goes
  <2> QED
    BY <2>1
<1>14. CASE do.op \in Ensures /\ found = 0
  <2>1. l = newest + 1 /\ newest' = newest + 1
    BY <1>4, <1>8, <1>14
  <2>2. PICK new : new = Made(Request(do), FALSE)
    OBVIOUS
  <2>3. objects' = objects \union {new} /\ new.name = do.name /\ new.id = l /\ new.late = FALSE
    BY <1>4, <1>14, <2>1, <2>2 DEF Made, Request
  <2>4. \A o \in objects : o.id # l
    BY <1>1, <2>1 DEF ObjectsOK, Object
  <2>5. \A o \in objects' : o.id = l => o = new
    BY <2>3, <2>4
  <2>6. \A n \in Sought : Goes(n, l) => n = do.name
    <3>1. ~(l \in 1..newest)
      BY <1>1, <2>1
    <3> QED
      BY <1>1, <3>1, GoesBelow
  <2>7. \A o, p \in objects' : o.id = l /\ ~o.late /\ p.name = do.name /\ ~p.late => o = p
    BY <1>1, <1>4, <2>3, <2>5 DEF Sound, OnePerName
  <2>8. \A o \in objects' : o.id = l => o.name \in {do.name, "renamed"}
    BY <2>3, <2>5
  <2>9. /\ \A n \in Sought : \A k : Sees(n, k)' => Sees(n, k) \/ (n = do.name /\ k = l)
        /\ \A n \in Sought : \A k : Goes(n, k)' => Goes(n, k) \/ (n = do.name /\ k = l)
    BY <1>11, <1>12, <1>13 DEF Goes
  <2>10. do.name \in Sought
    BY <1>1
  <2>11. found' = 0 => \A o \in objects' : o.name = Main[at'["superset"]].name => o.late
    BY <1>1 DEF NotYet
  <2>12. Sound
    BY <1>4
  <2> HIDE DEF l
  <2> QED
    BY <1>7, <1>9, <2>6, <2>7, <2>8, <2>9, <2>10, <2>11, <2>12, StepKeeps
<1>15. CASE ~(do.op \in Ensures /\ found = 0)
  <2>1. l = IF do.op \in Ensures THEN found ELSE got[do.name]
    BY <1>8, <1>15
  <2>2. \A k : Sees(do.name, k)' => Sees(do.name, k)
    <3>1. ASSUME NEW k, Sees(do.name, k)'
          PROVE  Sees(do.name, k)
      <4>1. k = l /\ k # 0
        BY <1>11, <3>1 DEF Sees
      <4>2. l \in 0..newest
        BY <1>1, <2>1 DEF Looked, AttemptOK
      <4> QED
        BY <1>1, <2>1, <4>1, <4>2 DEF Sees
    <3> QED
      BY <3>1
  <2>3. /\ \A n \in Sought : \A k : Sees(n, k)' => Sees(n, k)
        /\ \A n \in Sought : \A k : Goes(n, k)' => Goes(n, k)
    BY <1>12, <1>13, <2>2 DEF Goes
  <2>4. found' # 0
    BY <1>1 DEF NotYet
  <2> QED
    BY <1>4, <1>7, <1>9, <2>3, <2>4, NoneNew
<1> QED
  BY <1>14, <1>15

\* An attempt that ends, with its last call done, not done or still to come.
LEMMA FailsKeeps ==
  ASSUME SupersetInv, JobsOK, at["superset"] \in 1..Len(Main), NEW do, do = Main[at["superset"]], Fails(do)
  PROVE  SupersetInv'
<1>1. /\ ObjectsOK /\ AttemptOK /\ PendingOK /\ FitsOK /\ InTimeOK /\ newest \in Nat
      /\ do \in MainCalls /\ got' = [n \in Sought |-> 0] /\ found' = NotYet /\ alone' = TRUE
  BY MainKinds, CallNames DEF SupersetInv, Fails, ObjectsOK
<1>2. at'["superset"] \in {0, 1}
  BY DEF Fails, Aborts, JobsOK, Jobs
<1>3. /\ Sound
      /\ \/ pending' = pending
         \/ Looked(do) /\ do.op \notin Reads /\ pending' = pending \union {Request(do)}
  <2>1. CASE UNCHANGED <<objects, newest, pending, delays>>
    BY <2>1, SameSound
  <2>2. CASE Looked(do) /\ Performs(Request(do), FALSE) /\ pending' = pending
    BY <2>2, OwnRequest
  <2>3. CASE Looked(do) /\ do.op \notin Reads /\ pending' = pending \union {Request(do)} /\ UNCHANGED <<objects, newest>>
    BY <2>3, SameSound
  <2> QED
    BY <2>1, <2>2, <2>3 DEF Fails
<1>4. newest' \in {newest, newest + 1}
  BY <1>3 DEF Sound
<1>5. AttemptOK'
  <2>1. 0 \in 0..newest'
    BY <1>1, <1>4
  <2>2. \A n : ~MadeBefore(at'["superset"], n)
    BY <1>2 DEF MadeBefore
  <2> QED
    BY <1>1, <2>1, <2>2 DEF AttemptOK, NotYet
<1>6. \A n \in Sought : \A k : ~Sees(n, k)'
  BY <1>1 DEF Sees, NotYet
<1>7. PendingOK' /\ \A n \in Sought : \A k : Goes(n, k)' => Goes(n, k)
  <2>1. ASSUME NEW n \in Sought, NEW k, NEW w \in pending,
               \/ k \in 1..newest' /\ k = w.id /\ n = w.do.name
               \/ w.do.op = "dataset" /\ k \in w.refers /\ n = Database
        PROVE  Goes(n, k)
    <3>1. w.id \in 0..newest
      BY <1>1 DEF PendingOK, Requests
    <3> QED
      BY <1>1, <2>1, <3>1 DEF Goes
  <2>2. CASE pending' = pending
    BY <1>1, <1>4, <1>6, <2>1, <2>2, PendingStays DEF Goes
  <2>3. CASE Looked(do) /\ do.op \notin Reads /\ pending' = pending \union {Request(do)}
    <3>1. PICK w : w = Request(do)
      OBVIOUS
    <3>2. Asked(w) /\ w \in Requests
      BY <2>3, <3>1, RequestAsked
    <3>3. 0..newest \subseteq 0..newest' /\ 1..newest \subseteq 1..newest'
      BY <1>1, <1>4
    <3>4. Requests \subseteq Requests'
      BY <3>3 DEF Requests
    <3>5. \A v \in pending \union {w} : v \in Requests' /\ Written(v)'
      BY <1>1, <3>2, <3>3, <3>4 DEF PendingOK, Asked, Written
    <3>6. PendingOK'
      BY <2>3, <3>1, <3>5 DEF PendingOK
    <3>7. ASSUME NEW n \in Sought, NEW k,
                 \/ k \in 1..newest' /\ k = w.id /\ n = w.do.name
                 \/ w.do.op = "dataset" /\ k \in w.refers /\ n = Database
          PROVE  Goes(n, k)
      <4>1. CASE k \in 1..newest' /\ k = w.id /\ n = w.do.name
        <5>1. w.id # 0
          BY <1>1, <1>4, <4>1
        <5> QED
          BY <3>2, <4>1, <5>1 DEF Asked
      <4> QED
        BY <3>2, <3>7, <4>1 DEF Asked
    <3>8. ASSUME NEW n \in Sought, NEW k, Goes(n, k)'
          PROVE  Goes(n, k)
      <4>1. PICK v \in pending' : \/ k \in 1..newest' /\ k = v.id /\ n = v.do.name
                                  \/ v.do.op = "dataset" /\ k \in v.refers /\ n = Database
        BY <1>6, <3>8 DEF Goes
      <4>2. v \in pending \/ v = w
        BY <2>3, <3>1
      <4> QED
        BY <2>1, <3>7, <4>1, <4>2
    <3> QED
      BY <3>6, <3>8
  <2> QED
    BY <1>3, <2>2, <2>3
<1>8. found' # 0
  BY <1>1 DEF NotYet
<1> QED
  BY <1>3, <1>5, <1>6, <1>7, <1>8, NoneNew

\* A request nobody waits for any more.
LEMMA ArrivesKeeps ==
  ASSUME SupersetInv, Arrives
  PROVE  SupersetInv'
<1>1. /\ ObjectsOK /\ AttemptOK /\ PendingOK /\ FitsOK /\ InTimeOK /\ newest \in Nat
      /\ UNCHANGED <<at, got, found>>
  BY DEF SupersetInv, Arrives, ObjectsOK, jobVars
<1>2. PICK w \in pending : /\ pending' = pending \ {w}
                           /\ Performs(w, TRUE) \/ UNCHANGED <<objects, newest>>
                           /\ alone' = (alone /\ w.id = 0)
  BY DEF Arrives
<1>3. Asked(w)
  <2>1. w \in Requests /\ Written(w)
    BY <1>1 DEF PendingOK
  <2>2. w.id \in 0..newest /\ w.refers \in SUBSET (1..newest)
    BY <2>1 DEF Requests
  <2>3. w.id # 0 => Goes(w.do.name, w.id)
    BY <1>1, <2>2 DEF Goes
  <2>4. w.do.op = "dataset" => \A k \in w.refers : Goes(Database, k)
    BY DEF Goes
  <2> QED
    BY <2>1, <2>2, <2>3, <2>4 DEF Asked
<1>4. Sound /\ SoundLate
  <2>1. CASE UNCHANGED <<objects, newest>>
    BY <2>1, SameSound
  <2>2. CASE Performs(w, TRUE) /\ w.do.op \in Reads
    <3>1. UNCHANGED <<objects, newest>>
      BY <2>2, PerformsIs
    <3> QED
      BY <3>1, SameSound
  <2>3. CASE Performs(w, TRUE) /\ w.do.op \notin Reads /\ Adds(w, TRUE)
    <3>1. Accepted(w)
      BY <2>3, PerformsIs
    <3> QED
      BY <1>3, <2>3, <3>1, AddsSound
  <2>4. CASE Performs(w, TRUE) /\ w.do.op \notin Reads /\ Turns(w, TRUE)
    <3>1. Accepted(w)
      BY <2>4, PerformsIs
    <3> QED
      BY <1>3, <2>4, <3>1, TurnsSound
  <2> QED
    BY <1>2, <2>1, <2>2, <2>3, <2>4, PerformsIs
<1>5. newest' \in {newest, newest + 1}
  BY <1>4 DEF Sound
<1>6. AttemptOK'
  <2>1. 0..newest \subseteq 0..newest'
    BY <1>1, <1>5
  <2> QED
    BY <1>1, <1>2, <2>1 DEF AttemptOK
<1>7. PendingOK'
  BY <1>1, <1>2, <1>5, PendingStays
<1>8. SoundLate => (found' = 0 => \A o \in objects' : o.name = Main[at'["superset"]].name => o.late)
  BY <1>1 DEF SoundLate
<1>9. \A n \in Sought : \A k : Sees(n, k)' => Sees(n, k)
  <2>1. ASSUME NEW n \in Sought, NEW k, Sees(n, k)'
        PROVE  k \in 1..newest
    <3>1. k \in 1..newest' /\ (k = got[n] \/ k = found)
      BY <1>1, <2>1 DEF Sees
    <3>2. got[n] \in 0..newest /\ found \in {NotYet} \union 0..newest
      BY <1>1 DEF AttemptOK
    <3> QED
      BY <1>1, <1>5, <3>1, <3>2 DEF NotYet
  <2> QED
    BY <1>1, <2>1 DEF Sees
<1>10. ASSUME NEW n \in Sought, NEW k, Goes(n, k)'
       PROVE  Goes(n, k)
  <2>1. CASE Sees(n, k)'
    BY <1>9, <2>1 DEF Goes
  <2>2. CASE ~Sees(n, k)'
    <3>1. PICK v \in pending : \/ k \in 1..newest' /\ k = v.id /\ n = v.do.name
                               \/ v.do.op = "dataset" /\ k \in v.refers /\ n = Database
      BY <1>2, <1>10, <2>2 DEF Goes
    <3>2. v.id \in 0..newest
      BY <1>1 DEF PendingOK, Requests
    <3> QED
      BY <1>1, <3>1, <3>2 DEF Goes
  <2> QED
    BY <2>1, <2>2
<1> QED
  BY <1>4, <1>6, <1>7, <1>8, <1>9, <1>10, NoneNew

\* People in the user interface.
LEMMA EditsKeep ==
  ASSUME SupersetInv, UserInterface
  PROVE  SupersetInv'
<1>1. /\ ObjectsOK /\ AttemptOK /\ PendingOK /\ newest \in Nat
      /\ UNCHANGED <<at, got, found, pending>> /\ alone' = FALSE
  BY DEF SupersetInv, UserInterface, ObjectsOK, jobVars
<1>2. PICK o \in objects : Deletes(o) \/ Changes(o) \/ Moves(o) \/ Renames(o) \/ Copies(o)
  BY DEF UserInterface
<1>3. Sound /\ SoundLate
  BY <1>2, EditsSound
<1>4. newest' \in {newest, newest + 1}
  BY <1>3 DEF Sound
<1>5. AttemptOK'
  <2>1. 0..newest \subseteq 0..newest'
    BY <1>1, <1>4
  <2> QED
    BY <1>1, <2>1 DEF AttemptOK
<1>6. PendingOK'
  BY <1>1, <1>4, PendingStays
<1>7. SoundLate => (found' = 0 => \A p \in objects' : p.name = Main[at'["superset"]].name => p.late)
  BY <1>1 DEF SoundLate
<1>8. \A n \in Sought : \A k : Sees(n, k)' => Sees(n, k)
  <2>1. ASSUME NEW n \in Sought, NEW k, Sees(n, k)'
        PROVE  k \in 1..newest
    <3>1. k \in 1..newest' /\ (k = got[n] \/ k = found)
      BY <1>1, <2>1 DEF Sees
    <3>2. got[n] \in 0..newest /\ found \in {NotYet} \union 0..newest
      BY <1>1 DEF AttemptOK
    <3> QED
      BY <1>1, <1>4, <3>1, <3>2 DEF NotYet
  <2> QED
    BY <1>1, <2>1 DEF Sees
<1>9. ASSUME NEW n \in Sought, NEW k, Goes(n, k)'
      PROVE  Goes(n, k)
  <2>1. CASE Sees(n, k)'
    BY <1>8, <2>1 DEF Goes
  <2>2. CASE ~Sees(n, k)'
    <3>1. PICK v \in pending : \/ k \in 1..newest' /\ k = v.id /\ n = v.do.name
                               \/ v.do.op = "dataset" /\ k \in v.refers /\ n = Database
      BY <1>1, <1>9, <2>2 DEF Goes
    <3>2. v.id \in 0..newest
      BY <1>1 DEF PendingOK, Requests
    <3> QED
      BY <1>1, <3>1, <3>2 DEF Goes
  <2> QED
    BY <2>1, <2>2
<1> QED
  BY <1>3, <1>5, <1>6, <1>7, <1>8, <1>9, NoneNew

----------------------------------------------------------------------------
(***************************************************************************)
(* What an attempt has settled when nobody interferes                      *)
(***************************************************************************)

Defining == {"database", "grant", "dataset", "chart", "layout"}

\* The id of a name is that of an object of the name.
Valid(n) == \E o \in objects : o.name = n /\ o.id = got[n]

SettledOK ==
    alone =>
        /\ \A n \in Sought : MadeBefore(at["superset"], n) => Valid(n)
        /\ \A k \in 1..Len(Main) : k < at["superset"] /\ Main[k].op \in Defining => Defined(Main[k])
        /\ found \notin {NotYet, 0} =>
              \E o \in objects : o.id = found /\ o.name = Main[at["superset"]].name

\* More objects unsettle nothing.
LEMMA MoreSettled ==
  ASSUME SettledOK, objects \subseteq objects', UNCHANGED <<got, found>>, at'["superset"] = at["superset"], alone' => alone
  PROVE  SettledOK'
<1>1. ASSUME NEW n, Valid(n)
      PROVE  Valid(n)'
  BY <1>1 DEF Valid
<1>2. ASSUME NEW k \in 1..Len(Main), Defined(Main[k])
      PROVE  Defined(Main[k])'
  <2> PICK do : do = Main[k]
    OBVIOUS
  <2>1. Refers(do, got') = Refers(do, got)
    OBVIOUS
  <2>2. PICK o \in objects : /\ o.name = do.name /\ o.id = got[do.name]
                             /\ o.ours \/ (do.op = "dataset" /\ o.kept)
                             /\ \/ o.refers = Refers(do, got)
                                \/ do.op = "dataset" /\ (o.kept \/ \E p \in objects : p.id \in o.refers /\ p.kept)
    BY <1>2 DEF Defined, Find
  <2>3. o \in Find(do.name)'
    BY <2>2 DEF Find
  <2> QED
    BY <2>1, <2>2, <2>3 DEF Defined
<1> QED
  BY <1>1, <1>2 DEF SettledOK

\* What a call of the attempt makes of the objects.
LEMMA AfterCall ==
  ASSUME SupersetInv, JobsOK, SettledOK, alone, at["superset"] \in 1..Len(Main), NEW do, do = Main[at["superset"]],
         Proceeds(do)
  PROVE  /\ \A o \in objects : \E p \in objects' :
               /\ p.id = o.id /\ (o.kept => p.kept) /\ (o.name # "renamed" => p.name = o.name)
               /\ p = o \/ (Sees(do.name, o.id) /\ do.op \notin Reads)
         /\ do.op \in Ensures \union Defining => \E p \in objects' :
               /\ p.id = got'[do.name] /\ p.name = do.name
               /\ do.op \in Defining => p.ours \/ (do.op = "dataset" /\ p.kept)
               /\ do.op \in Defining \ {"dataset"} => p.refers = Refers(do, got)
<1>1. /\ ObjectsOK /\ EditedOK /\ AttemptOK /\ newest \in Nat
      /\ do \in MainCalls /\ do.name \in Sought /\ do.name # "renamed"
      /\ do.op \in {"login", "database", "role", "grant", "dataset", "refresh", "board", "layout", "chart", "uuid"}
      /\ do.op = "dataset" => do.name \in Range(Datasets)
      /\ Looked(do)
  BY MainKinds, CallNames DEF SupersetInv, Proceeds, ObjectsOK
<1>2. got'[do.name] = IF do.op \in Ensures /\ found = 0 THEN newest' ELSE Request(do).id
  BY <1>1 DEF Proceeds, AttemptOK
<1> DEFINE w == Request(do)
<1>3. w.do = do /\ w.id = IF do.op \in Ensures THEN found ELSE got[do.name]
  BY DEF Request
<1>4. do.op \in Ensures /\ found # 0 => \E o \in objects : o.id = found /\ o.name = do.name
  BY <1>1 DEF SettledOK, Looked
<1>5. CASE ~Calls(do) \/ do.op \in Reads
  <2>1. UNCHANGED <<objects, newest>>
    BY <1>3, <1>5, PerformsIs DEF Proceeds
  <2>2. do.op \in Ensures \union Defining => do.op \in Ensures /\ found # 0 /\ ~Calls(do)
    BY <1>5 DEF Calls, Reads, Ensures, Defining
  <2>3. do.op \in Defining /\ ~Calls(do) => do.op = "dataset" /\ do.name \notin Virtual
    BY DEF Calls, Defining
  <2>4. \A o \in objects : do.op = "dataset" /\ do.name \notin Virtual /\ o.name = do.name => o.ours \/ o.kept
    BY <1>1 DEF EditedOK
  <2> QED
    BY <1>2, <1>3, <1>4, <2>1, <2>2, <2>3, <2>4
<1>6. CASE Calls(do) /\ do.op \notin Reads
  <2>1. /\ Performs(w, FALSE) /\ Asked(w) /\ w.refers = Refers(do, got)
        /\ w.id # 0 => Sees(do.name, w.id)
    BY <1>1, <1>6, RequestAsked DEF Proceeds
  <2>2. Accepted(w) /\ (Adds(w, FALSE) \/ Turns(w, FALSE))
    BY <1>3, <1>6, <2>1, PerformsIs
  <2> HIDE DEF w
  <2>3. CASE Adds(w, FALSE)
    <3>1. PICK new : new = Made(w, FALSE)
      OBVIOUS
    <3>2. objects' = objects \union {new} /\ newest' = newest + 1 /\ w.id = 0
      BY <2>3, <3>1 DEF Adds
    <3>3. new.id = newest' /\ new.name = do.name /\ new.refers = Refers(do, got) /\ new.ours = TRUE
      BY <1>3, <2>1, <3>1, <3>2 DEF Made
    <3>4. do.op \in Ensures /\ found = 0
      BY <1>3, <2>1, <3>2 DEF Asked, Written
    <3> QED
      BY <1>2, <3>2, <3>3, <3>4
  <2>4. CASE Turns(w, FALSE)
    <3> DEFINE T(o) == Turned(w, o, FALSE)
    <3>1. w.id # 0 /\ objects' = {T(o) : o \in objects}
      BY <2>4 DEF Turns
    <3>2. ASSUME NEW o \in objects
          PROVE  /\ T(o).id = o.id /\ T(o).kept = o.kept /\ (o.name # "renamed" => T(o).name = o.name)
                 /\ T(o) = o \/ o.id = w.id
                 /\ o.id = w.id => T(o).ours /\ (do.op # "dataset" => T(o).refers = Refers(do, got))
                 /\ o.id = w.id /\ do.op \notin {"dataset", "grant"} => T(o).name = do.name
      <4>1. FitsOK
        BY DEF SupersetInv
      <4>2. T(o) = o \/ o.id = w.id
        BY DEF Turned
      <4>3. PICK p : p = T(o)
        OBVIOUS
      <4>4. /\ p.id = o.id /\ p.kept = o.kept
            /\ p.refers = IF o.id = w.id /\ w.do.op # "dataset" THEN w.refers ELSE o.refers
            /\ p.ours = (o.id = w.id \/ o.ours)
            /\ p.name = o.name \/ o.name = "renamed"
            /\ o.id = w.id /\ w.do.op \notin {"dataset", "grant"} => p.name = w.do.name
        <5>1. PICK late \in BOOLEAN : late = FALSE
          OBVIOUS
        <5>2. p = Turned(w, o, late)
          BY <4>3, <5>1
        <5>3. ObjectsOK /\ Asked(w)
          BY <1>1, <2>1
        <5> HIDE DEF T
        <5> QED
          BY <4>1, <5>2, <5>3, TurnedIs
      <4>5. /\ p.id = o.id /\ p.kept = o.kept /\ (o.name # "renamed" => p.name = o.name)
            /\ p = o \/ o.id = w.id
            /\ o.id = w.id => p.ours /\ (do.op # "dataset" => p.refers = Refers(do, got))
            /\ o.id = w.id /\ do.op \notin {"dataset", "grant"} => p.name = do.name
        BY <1>3, <2>1, <4>2, <4>3, <4>4
      <4> QED
        BY <4>3, <4>5
    <3> HIDE DEF T
    <3>3. \A o \in objects : \E p \in objects' :
               /\ p.id = o.id /\ (o.kept => p.kept) /\ (o.name # "renamed" => p.name = o.name)
               /\ p = o \/ (Sees(do.name, o.id) /\ do.op \notin Reads)
      BY <1>6, <2>1, <3>1, <3>2
    <3>4. got'[do.name] = w.id
      BY <1>2, <1>3, <3>1 DEF w
    <3>5. PICK o \in objects : o.id = w.id
      BY <2>2, <3>1 DEF Accepted, Ids
    <3>6. do.op \in {"dataset", "grant"} => o.name = do.name
      <4>1. CASE do.op = "dataset"
        <5>1. do.op \in Ensures
          BY <4>1 DEF Ensures
        <5> QED
          BY <1>1, <1>3, <1>4, <3>1, <3>5, <5>1 DEF ObjectsOK
      <4>2. CASE do.op = "grant"
        <5>1. do.name \in Needs(do)
          BY <1>1, <4>2 DEF Needs
        <5>2. Valid(do.name)
          BY <1>1, <5>1, NeedsSeen DEF SettledOK
        <5>3. w.id = got[do.name]
          BY <1>3, <4>2 DEF Ensures
        <5> QED
          BY <1>1, <3>5, <5>2, <5>3 DEF Valid, ObjectsOK
      <4> QED
        BY <4>1, <4>2
    <3>7. T(o) \in objects' /\ T(o).id = got'[do.name] /\ T(o).name = do.name /\ T(o).ours
          /\ (do.op # "dataset" => T(o).refers = Refers(do, got))
      BY <1>1, <3>1, <3>2, <3>4, <3>5, <3>6
    <3> QED
      BY <3>3, <3>7
  <2> QED
    BY <2>2, <2>3, <2>4
<1> QED
  BY <1>5, <1>6

\* A call settles what it is for and unsettles nothing before it.
LEMMA ProceedsSettles ==
  ASSUME SupersetInv, JobsOK, SettledOK, at["superset"] \in 1..Len(Main), NEW do, do = Main[at["superset"]],
         Proceeds(do), SupersetInv'
  PROVE  SettledOK'
<1> SUFFICES ASSUME alone
             PROVE  SettledOK'
  BY DEF Proceeds, SettledOK
<1>1. /\ AttemptOK /\ EditedOK' /\ OwnOK'
      /\ do \in MainCalls /\ do.name \in Sought /\ do.name # "renamed" /\ Len(Main) \in Nat
  BY MainKinds, CallNames, MainIs, Lengths DEF SupersetInv
<1>2. at'["superset"] = at["superset"] + 1 /\ found' = NotYet
  BY DEF Proceeds, Passes, JobsOK, Jobs
<1>3. /\ \A o \in objects : \E p \in objects' :
            /\ p.id = o.id /\ (o.kept => p.kept) /\ (o.name # "renamed" => p.name = o.name)
            /\ p = o \/ (Sees(do.name, o.id) /\ do.op \notin Reads)
      /\ do.op \in Ensures \union Defining => \E p \in objects' :
            /\ p.id = got'[do.name] /\ p.name = do.name
            /\ do.op \in Defining => p.ours \/ (do.op = "dataset" /\ p.kept)
            /\ do.op \in Defining \ {"dataset"} => p.refers = Refers(do, got)
  BY AfterCall
<1>4. ASSUME NEW n \in Sought, MadeBefore(at["superset"], n)
      PROVE  got'[n] = got[n]
  <2>1. n = do.name => do.op \notin Ensures
    BY <1>4, MadeOnce
  <2>2. n = do.name => Request(do).id = got[n]
    BY <2>1 DEF Request
  <2> QED
    BY <1>1, <2>1, <2>2 DEF Proceeds, AttemptOK
<1>5. ASSUME NEW n \in Sought, MadeBefore(at["superset"], n)
      PROVE  Valid(n)'
  <2>1. PICK o \in objects : o.name = n /\ o.id = got[n]
    BY <1>5 DEF SettledOK, Valid
  <2>2. n # "renamed"
    BY NamesAssumption DEF Sought, Database, Role
  <2>3. PICK p \in objects' : p.id = o.id /\ p.name = n
    BY <1>3, <2>1, <2>2
  <2> QED
    BY <1>4, <1>5, <2>1, <2>3 DEF Valid
<1>6. ASSUME NEW n \in Sought, MadeBefore(at'["superset"], n)
      PROVE  Valid(n)'
  <2>1. MadeBefore(at["superset"], n) \/ (do.op \in Ensures /\ n = do.name)
    BY <1>2, <1>6, NextMade
  <2>2. CASE do.op \in Ensures /\ n = do.name
    BY <1>3, <2>2 DEF Valid
  <2> QED
    BY <1>5, <2>1, <2>2
<1>7. ASSUME NEW k \in 1..Len(Main), k <= at["superset"]
      PROVE  Refers(Main[k], got') = Refers(Main[k], got)
  <2>1. ASSUME NEW n \in Needs(Main[k])
        PROVE  got'[n] = got[n]
    <3>1. n \in Sought /\ MadeBefore(k, n)
      BY MadeInOrder DEF Needs
    <3>2. MadeBefore(at["superset"], n)
      BY <1>1, <1>7, <3>1 DEF MadeBefore
    <3> QED
      BY <1>4, <3>1, <3>2
  <2>2. Main[k] \in MainCalls
    BY MainKinds
  <2> QED
    BY <2>1, <2>2, RefersSame
<1>8. ASSUME do.op \in Defining
      PROVE  Defined(do)'
  <2>1. Refers(do, got') = Refers(do, got)
    BY <1>1, <1>7
  <2>2. PICK o \in objects' : /\ o.id = got'[do.name] /\ o.name = do.name
                              /\ o.ours \/ (do.op = "dataset" /\ o.kept)
                              /\ do.op # "dataset" => o.refers = Refers(do, got)
    BY <1>3, <1>8
  <2>3. ASSUME do.op = "dataset"
        PROVE  o.refers = Refers(do, got) \/ o.kept \/ \E p \in objects' : p.id \in o.refers /\ p.kept
    <3>1. do.name \in Range(Datasets) /\ Database \in Needs(do) /\ Database \in Sought
      BY <1>1, <2>3, CallNames DEF Needs, Sought
    <3>2. MadeBefore(at["superset"], Database)
      BY <3>1, MadeInOrder
    <3>3. PICK d \in objects' : d.name = Database /\ d.id = got[Database]
      BY <1>4, <1>5, <3>1, <3>2 DEF Valid
    <3>4. Refers(do, got) = {got[Database]}
      BY <1>1, <2>3, RefersIs
    <3>5. o.kept \/ \E p \in objects' : p.id \in o.refers /\ (p.kept \/ (p.name = Database /\ o.refers = {p.id}))
      BY <1>1, <2>2, <3>1 DEF EditedOK, OnDatabase
    <3>6. \A p \in objects' : p.name = Database => p = d
      BY <1>1, <3>3 DEF OwnOK, Own
    <3> QED
      BY <3>3, <3>4, <3>5, <3>6
  <2>4. o \in Find(do.name)'
    BY <2>2 DEF Find
  <2> QED
    BY <2>1, <2>2, <2>3, <2>4 DEF Defined
<1>9. ASSUME NEW k \in 1..Len(Main), k < at["superset"], Main[k].op \in Defining
      PROVE  Defined(Main[k])'
  <2>0. PICK d : d = Main[k]
    OBVIOUS
  <2>1. d \in MainCalls /\ d.name \in Sought /\ d.name # "renamed"
    BY <2>0, MainKinds, CallNames
  <2>2. MadeBefore(at["superset"], d.name)
    <3>1. CASE d.op \in Ensures
      BY <1>1, <1>9, <2>0, <3>1 DEF MadeBefore
    <3>2. CASE d.op \notin Ensures
      <4>1. d.name \in Needs(d)
        BY <1>9, <2>0, <2>1, <3>2 DEF Needs, Defining, Ensures
      <4>2. MadeBefore(k, d.name)
        BY <2>0, <4>1, MadeInOrder
      <4> QED
        BY <1>1, <1>9, <4>2 DEF MadeBefore
    <3> QED
      BY <3>1, <3>2
  <2>3. Refers(d, got') = Refers(d, got)
    BY <1>1, <1>7, <1>9, <2>0
  <2>4. PICK o \in objects : /\ o.name = d.name /\ o.id = got[d.name]
                             /\ o.ours \/ (d.op = "dataset" /\ o.kept)
                             /\ \/ o.refers = Refers(d, got)
                                \/ d.op = "dataset" /\ (o.kept \/ \E p \in objects : p.id \in o.refers /\ p.kept)
    BY <1>9, <2>0 DEF SettledOK, Defined, Find
  <2>5. CASE o \in objects'
    <3>1. (\E p \in objects : p.id \in o.refers /\ p.kept) => \E p \in objects' : p.id \in o.refers /\ p.kept
      BY <1>3
    <3>2. o \in Find(d.name)' /\ got'[d.name] = got[d.name]
      BY <1>4, <2>1, <2>2, <2>4, <2>5 DEF Find
    <3>3. Defined(d)'
      BY <2>3, <2>4, <3>1, <3>2 DEF Defined
    <3> QED
      BY <2>0, <3>3
  <2>6. CASE o \notin objects'
    <3>1. Sees(do.name, o.id) /\ do.op \notin Reads
      BY <1>3, <2>6
    <3>2. Goes(do.name, o.id) /\ o.id \in 1..newest
      BY <3>1 DEF Goes, Sees
    <3>3. o.name \in {do.name, "renamed"}
      BY <1>1, <3>2 DEF SupersetInv, FitsOK
    <3>4. d.name = do.name
      BY <2>1, <2>4, <3>3
    <3>5. do.op \notin Ensures
      BY <2>2, <3>4, MadeOnce
    <3>6. do.op \in {"grant", "layout"}
      BY <1>1, <3>1, <3>5, CallNames DEF Reads, Ensures
    <3>7. d.op = do.op
      BY <1>1, <1>9, <2>0, <2>1, <3>4, <3>6, CallNames DEF Defining
    <3>8. d = do
      BY <1>1, <2>1, <3>4, <3>7, CallNames
    <3> QED
      BY <1>8, <1>9, <2>0, <3>8
  <2> QED
    BY <2>5, <2>6
<1>10. ASSUME NEW k \in 1..Len(Main), k < at'["superset"], Main[k].op \in Defining
       PROVE  Defined(Main[k])'
  <2>1. k < at["superset"] \/ k = at["superset"]
    BY <1>1, <1>2, <1>10
  <2> QED
    BY <1>8, <1>9, <1>10, <2>1
<1> QED
  BY <1>2, <1>6, <1>10 DEF SettledOK

----------------------------------------------------------------------------
(***************************************************************************)
(* The invariant of all Jobs and what they set off                         *)
(***************************************************************************)

WorldOK ==
    /\ tables \subseteq Range(Datasets)
    /\ catalog \subseteq tables
    /\ lineage.airflow \subseteq tables
    /\ lineage.superset \subseteq 1..newest
    /\ lineage = [airflow |-> lineage.airflow, superset |-> lineage.superset]

SetUpInv == JobsOK /\ SupersetInv /\ SettledOK /\ WorldOK

LEMMA SettledElsewhere ==
  ASSUME SettledOK, UNCHANGED <<objects, got, found, alone>>, at'["superset"] = at["superset"]
  PROVE  SettledOK'
  BY MoreSettled

\* Steps of the Job of Superset.
LEMMA SupersetStep ==
  ASSUME SetUpInv, RunsSuperset
  PROVE  JobsOK' /\ SupersetInv' /\ SettledOK' /\ newest' \in {newest, newest + 1}
<1>1. /\ JobsOK /\ SupersetInv /\ SettledOK /\ newest \in Nat /\ at["superset"] \in 1..Len(Main) /\ "superset" \in Jobs
  BY DEF SetUpInv, SupersetInv, ObjectsOK, RunsSuperset, Jobs
<1>2. PICK do : do = Main[at["superset"]] /\ (Looks(do) \/ Proceeds(do) \/ Fails(do))
  BY DEF RunsSuperset
<1>3. CASE Looks(do)
  <2>1. UNCHANGED <<at, retries, objects, newest, got, alone>>
    BY <1>3 DEF Looks
  <2>2. JobsOK'
    BY <1>1, <2>1 DEF JobsOK
  <2>3. SupersetInv'
    BY <1>1, <1>2, <1>3, LooksKeeps
  <2>4. found' \notin {NotYet, 0} => \E o \in objects : o.id = found' /\ o.name = do.name
    BY <1>3 DEF Looks, Find
  <2>5. \A n \in Sought : Valid(n) => Valid(n)'
    BY <2>1 DEF Valid
  <2>6. \A k \in 1..Len(Main) : Defined(Main[k]) => Defined(Main[k])'
    BY <2>1 DEF Defined, Find
  <2>7. SettledOK'
    BY <1>1, <1>2, <2>1, <2>4, <2>5, <2>6 DEF SettledOK
  <2> QED
    BY <2>1, <2>2, <2>3, <2>7
<1>4. CASE Proceeds(do)
  <2>1. SupersetInv'
    BY <1>1, <1>2, <1>4, ProceedsKeeps
  <2>2. SettledOK'
    BY <1>1, <1>2, <1>4, <2>1, ProceedsSettles
  <2>3. JobsOK'
    BY <1>1, <1>4, AttemptKeeps DEF Proceeds
  <2>4. newest' \in {newest, newest + 1}
    BY <1>4 DEF Proceeds, Performs
  <2> QED
    BY <2>1, <2>2, <2>3, <2>4
<1>5. CASE Fails(do)
  <2>1. SupersetInv'
    BY <1>1, <1>2, <1>5, FailsKeeps
  <2>2. JobsOK'
    BY <1>1, <1>5, AttemptKeeps DEF Fails
  <2>3. at'["superset"] \in {0, 1} /\ found' = NotYet
    BY <1>1, <1>5 DEF Fails, Aborts, JobsOK
  <2>4. Len(Main) \in Nat
    BY MainIs, Lengths
  <2>5. SettledOK'
    BY <2>3, <2>4 DEF SettledOK, MadeBefore
  <2>6. newest' \in {newest, newest + 1}
    BY <1>5 DEF Fails, Performs
  <2> QED
    BY <2>1, <2>2, <2>5, <2>6
<1> QED
  BY <1>2, <1>3, <1>4, <1>5

LEMMA ArrivesStep ==
  ASSUME SetUpInv, Arrives
  PROVE  SupersetInv' /\ SettledOK' /\ newest' \in {newest, newest + 1}
<1>1. SupersetInv' /\ SettledOK
  BY ArrivesKeeps DEF SetUpInv
<1>2. PICK w \in pending : /\ Performs(w, TRUE) \/ UNCHANGED <<objects, newest>>
                           /\ alone' = (alone /\ w.id = 0)
  BY DEF Arrives
<1>3. newest' \in {newest, newest + 1}
  BY <1>2 DEF Performs
<1>4. UNCHANGED <<at, got, found>>
  BY DEF Arrives, jobVars
<1>5. ASSUME ~alone'
      PROVE  SettledOK'
  BY <1>5 DEF SettledOK
<1>6. ASSUME alone'
      PROVE  SettledOK'
  <2>1. w.id = 0 /\ alone
    BY <1>2, <1>6
  <2>2. objects \subseteq objects'
    BY <1>2, <2>1 DEF Performs
  <2> QED
    BY <1>1, <1>4, <2>1, <2>2, MoreSettled
<1> QED
  BY <1>1, <1>3, <1>5, <1>6

LEMMA StepInv ==
  ASSUME SetUpInv, [Next]_vars
  PROVE  SetUpInv'
<1>1. JobsOK /\ SupersetInv /\ SettledOK /\ WorldOK /\ newest \in Nat /\ Jobs = {"sql", "superset", "metadata"}
  BY DEF SetUpInv, SupersetInv, ObjectsOK, Jobs
<1>2. ASSUME newest' \in {newest, newest + 1}, UNCHANGED <<tables, catalog, lineage>>
      PROVE  WorldOK'
  <2>1. 1..newest \subseteq 1..newest'
    BY <1>1, <1>2
  <2> QED
    BY <1>1, <1>2, <2>1 DEF WorldOK
<1>3. ASSUME UNCHANGED supersetVars, at'["superset"] = at["superset"]
      PROVE  SupersetInv' /\ SettledOK'
  <2>1. UNCHANGED <<objects, newest, got, found, pending, alone>>
    BY <1>3 DEF supersetVars
  <2> QED
    BY <1>1, <1>3, <2>1, ElsewhereKeeps, SettledElsewhere
<1>4. ASSUME NEW j \in {"sql", "metadata"}, NEW script, Makes(j, script), UNCHANGED <<supersetVars, catalog, lineage>>
      PROVE  SetUpInv'
  <2>1. (Passes(j) \/ Aborts(j)) /\ j \in Jobs /\ j # "superset"
    BY <1>1, <1>4 DEF Makes
  <2>2. JobsOK' /\ at'["superset"] = at["superset"]
    BY <1>1, <2>1, AttemptKeeps
  <2>3. WorldOK'
    BY <1>2, <1>4 DEF supersetVars
  <2> QED
    BY <1>3, <1>4, <2>2, <2>3 DEF SetUpInv
<1>5. CASE RunsSuperset /\ UNCHANGED <<catalog, lineage>>
  <2>1. JobsOK' /\ SupersetInv' /\ SettledOK' /\ newest' \in {newest, newest + 1}
    BY <1>5, SupersetStep
  <2> QED
    BY <1>2, <1>5, <2>1 DEF SetUpInv, RunsSuperset
<1>6. CASE Arrives /\ UNCHANGED <<catalog, lineage>>
  <2>1. SupersetInv' /\ SettledOK' /\ newest' \in {newest, newest + 1}
    BY <1>6, ArrivesStep
  <2>2. UNCHANGED <<at, retries, tables>>
    BY <1>6 DEF Arrives, jobVars
  <2>3. JobsOK'
    BY <1>1, <2>2 DEF JobsOK
  <2> QED
    BY <1>2, <1>6, <2>1, <2>2, <2>3 DEF SetUpInv
<1>7. CASE UserInterface /\ UNCHANGED <<catalog, lineage>>
  <2>1. SupersetInv'
    BY <1>1, <1>7, EditsKeep
  <2>2. UNCHANGED <<at, retries, tables>> /\ ~alone'
    BY <1>7 DEF UserInterface, jobVars
  <2>3. JobsOK' /\ SettledOK'
    BY <1>1, <2>2 DEF JobsOK, SettledOK
  <2>4. newest' \in {newest, newest + 1}
    BY <1>7 DEF UserInterface, Deletes, Changes, Moves, Renames, Copies, Becomes
  <2> QED
    BY <1>2, <1>7, <2>1, <2>2, <2>3, <2>4 DEF SetUpInv
<1>8. ASSUME NEW t \in Range(Datasets), Appears(t)
      PROVE  SetUpInv'
  <2>1. UNCHANGED <<at, retries, objects, newest, got, found, pending, alone, catalog, lineage>>
        /\ tables' = tables \union {t}
    BY <1>8 DEF Appears, jobVars
  <2>2. JobsOK' /\ SupersetInv' /\ SettledOK'
    BY <1>1, <2>1, ElsewhereKeeps, SettledElsewhere DEF JobsOK
  <2>3. WorldOK'
    BY <1>1, <2>1 DEF WorldOK
  <2> QED
    BY <2>2, <2>3 DEF SetUpInv
<1>9. ASSUME UNCHANGED <<at, retries, supersetVars>>, WorldOK'
      PROVE  SetUpInv'
  <2>1. JobsOK'
    BY <1>1, <1>9 DEF JobsOK
  <2> QED
    BY <1>3, <1>9, <2>1 DEF SetUpInv
<1>10. CASE RegistersTrino
  BY <1>1, <1>9, <1>10 DEF RegistersTrino, supersetVars, WorldOK
<1>11. CASE IngestsTrino
  <2>1. WorldOK'
    BY <1>1, <1>11 DEF IngestsTrino, supersetVars, WorldOK
  <2> QED
    BY <1>9, <1>11, <2>1 DEF IngestsTrino, jobVars
<1>12. CASE IngestsAirflow
  <2>1. lineage' = [airflow |-> catalog, superset |-> lineage.superset]
    BY <1>1, <1>12 DEF IngestsAirflow, WorldOK
  <2>2. WorldOK'
    BY <1>1, <1>12, <2>1 DEF IngestsAirflow, supersetVars, WorldOK
  <2> QED
    BY <1>9, <1>12, <2>2 DEF IngestsAirflow, jobVars
<1>13. CASE IngestsSuperset
  <2>1. {o.id : o \in ChartsOn(catalog)} \subseteq 1..newest
    BY <1>1 DEF ChartsOn, SupersetInv, ObjectsOK, Object
  <2>2. lineage' = [airflow |-> lineage.airflow, superset |-> {o.id : o \in ChartsOn(catalog)}]
    BY <1>1, <1>13 DEF IngestsSuperset, WorldOK
  <2>3. WorldOK'
    BY <1>1, <1>13, <2>1, <2>2 DEF IngestsSuperset, supersetVars, WorldOK
  <2> QED
    BY <1>9, <1>13, <2>3 DEF IngestsSuperset, jobVars
<1>14. CASE UNCHANGED vars
  <2>1. WorldOK'
    BY <1>1, <1>14 DEF vars, supersetVars, WorldOK
  <2> QED
    BY <1>9, <1>14, <2>1 DEF vars, jobVars
<1> QED
  BY <1>4, <1>5, <1>6, <1>7, <1>8, <1>10, <1>11, <1>12, <1>13, <1>14 DEF Next, RunsSql, RunsMetadata

LEMMA LeftOK ==
  /\ Left \subseteq [id: 1..Len(Charts), name: Sought \union {"renamed"}, refers: SUBSET (1..Len(Charts)),
                     ours: BOOLEAN, kept: BOOLEAN, late: BOOLEAN]
  /\ \A o, p \in Left : o.id = p.id \/ o.name = p.name => o = p
  /\ \A o \in Left : o.name \in Range(Charts) /\ o.refers = {}
<1> DEFINE Of(k, n) == [id |-> k, name |-> n, refers |-> {}, ours |-> FALSE, kept |-> FALSE, late |-> FALSE]
<1>1. Len(Charts) \in Nat /\ \A k \in 1..Len(Charts) : Charts[k] \in Range(Charts)
  BY NamesAssumption
<1>2. \A i, j \in 1..Len(Charts) : Charts[i] = Charts[j] => i = j
  BY NamesAssumption DEF IsInjective
<1>3. \A o \in Left : \E k \in 1..Len(Charts) : o = Of(k, Charts[k])
  BY DEF Left
<1>4. \A o \in Left : o.id \in 1..Len(Charts) /\ o.name = Charts[o.id] /\ o.refers = {} /\ o = Of(o.id, o.name)
  BY <1>3
<1>5. ASSUME NEW o \in Left, NEW p \in Left, o.id = p.id \/ o.name = p.name
      PROVE  o = p
  <2>1. o.id = p.id
    BY <1>2, <1>4, <1>5
  <2>2. o.name = p.name
    BY <1>4, <2>1
  <2>3. o = Of(o.id, o.name) /\ p = Of(p.id, p.name)
    BY <1>4
  <2> HIDE DEF Of
  <2> QED
    BY <2>1, <2>2, <2>3
<1>6. \A o \in Left : o.name \in Range(Charts) /\ o.name \in Sought
  BY <1>1, <1>4 DEF Sought
<1>7. ASSUME NEW o \in Left
      PROVE  o \in [id: 1..Len(Charts), name: Sought \union {"renamed"}, refers: SUBSET (1..Len(Charts)),
                    ours: BOOLEAN, kept: BOOLEAN, late: BOOLEAN]
  <2>1. o = Of(o.id, o.name)
    BY <1>4
  <2>2. o.id \in 1..Len(Charts) /\ o.name \in Sought \union {"renamed"}
    BY <1>4, <1>6
  <2>3. Of(o.id, o.name) \in [id: 1..Len(Charts), name: Sought \union {"renamed"}, refers: SUBSET (1..Len(Charts)),
                              ours: BOOLEAN, kept: BOOLEAN, late: BOOLEAN]
    BY <2>2
  <2> HIDE DEF Of
  <2> QED
    BY <2>1, <2>3
<1> QED
  BY <1>4, <1>5, <1>6, <1>7

LEMMA InitInv ==
  ASSUME Init
  PROVE  SetUpInv
<1>1. Len(Charts) \in Nat /\ Len(Main) \in Nat
  BY MainIs, Lengths DEF C
<1>2. JobsOK /\ \A j \in Jobs : at[j] \in {0, 1}
  <2>1. PICK sync \in Syncs : /\ at = [j \in Jobs |-> IF j \in sync.jobs THEN 1 ELSE 0]
                              /\ retries = sync.failed
    BY DEF Init
  <2>2. sync.failed \in [Jobs -> Nat] /\ \A j \in Jobs : sync.failed[j] <= Backoff[j] /\ Backoff[j] \in Nat
    BY SyncsAssumption, JobsAssumption
  <2> QED
    BY <2>1, <2>2 DEF JobsOK
<1>3. WorldOK
  BY DEF Init, WorldOK
<1>4. /\ newest \in Nat /\ objects \subseteq Object
      /\ \A o, p \in objects : o.id = p.id \/ o.name = p.name => o = p
      /\ \A o \in objects : o.name \in Range(Charts) /\ o.refers = {}
  <2>1. CASE objects = {} /\ newest = 0
    BY <2>1
  <2>2. CASE objects = Left /\ newest = Len(Charts)
    BY <1>1, <2>2, LeftOK DEF Object
  <2> QED
    BY <2>1, <2>2 DEF Init
<1>5. /\ Database \notin Range(Charts) /\ Role \notin Range(Charts) /\ "renamed" \notin Range(Charts)
      /\ Range(Datasets) \intersect Range(Charts) = {} /\ Range(Charts) \intersect Range(Boards) = {}
  BY NamesAssumption
<1>6. got = [n \in Sought |-> 0] /\ found = NotYet /\ pending = {} /\ alone
  BY DEF Init
<1>7. ObjectsOK
  BY <1>4 DEF ObjectsOK
<1>8. EditedOK
  BY <1>4, <1>5 DEF EditedOK
<1>9. OwnOK
  BY <1>4, <1>5 DEF OwnOK, Own
<1>10. \A n : ~MadeBefore(at["superset"], n)
  BY <1>2 DEF MadeBefore, Jobs
<1>11. AttemptOK
  <2>1. got \in [Sought -> 0..newest]
    BY <1>4, <1>6
  <2>2. found \in {NotYet} \union 0..newest
    BY <1>6
  <2> QED
    BY <1>6, <1>10, <2>1, <2>2 DEF AttemptOK
<1>12. PendingOK
  BY <1>6 DEF PendingOK
<1>13. \A n \in Sought : \A k : ~Sees(n, k) /\ ~Goes(n, k)
  BY <1>4, <1>6 DEF Sees, Goes, NotYet
<1>14. FitsOK
  BY <1>13 DEF FitsOK
<1>15. InTimeOK
  <2>1. OnePerName
    BY <1>4 DEF OnePerName
  <2>2. found # 0
    BY <1>6 DEF NotYet
  <2> QED
    BY <1>13, <2>1, <2>2 DEF InTimeOK
<1>16. SettledOK
  <2>1. \A k \in 1..Len(Main) : ~(k < at["superset"])
    BY <1>2 DEF Jobs
  <2> QED
    BY <1>6, <1>10, <2>1 DEF SettledOK
<1> QED
  BY <1>2, <1>3, <1>7, <1>8, <1>9, <1>11, <1>12, <1>14, <1>15, <1>16 DEF SetUpInv, SupersetInv

\* The inductive invariant: ids stand for the names they were found or given
\* for, objects made in time are alone of their names, and an attempt nobody
\* interferes with has all the objects it goes by, as it has defined them.
THEOREM SetUpInvariant == Spec => []SetUpInv
<1>1. Init => SetUpInv
  BY InitInv
<1>2. SetUpInv /\ [Next]_vars => SetUpInv'
  BY StepInv
<1> QED
  BY <1>1, <1>2, PTL DEF Spec

----------------------------------------------------------------------------
(***************************************************************************)
(* The properties                                                          *)
(***************************************************************************)

\* Types, at every limit and for every number of objects, edits and requests;
\* no two objects of Superset ever share an id, and nothing refers to an id
\* that was not given yet (TypeOK).
THEOREM SetUpTypes == Spec => []TypeOK
<1>1. ASSUME SetUpInv
      PROVE  TypeOK
  <2>1. \A j \in Jobs : at[j] \in Nat /\ retries[j] \in 0..Backoff[j]
    BY <1>1 DEF SetUpInv, JobsOK
  <2>2. /\ objects \subseteq Object /\ (\A o, p \in objects : o.id = p.id => o = p)
        /\ got \in [Sought -> 0..newest] /\ found \in {NotYet} \union 0..newest /\ pending \subseteq Requests
    BY <1>1 DEF SetUpInv, SupersetInv, ObjectsOK, AttemptOK, PendingOK
  <2>3. /\ tables \subseteq Range(Datasets) /\ catalog \subseteq tables
        /\ lineage.airflow \subseteq tables /\ lineage.superset \subseteq 1..newest
    BY <1>1 DEF SetUpInv, WorldOK
  <2> QED
    BY <2>1, <2>2, <2>3 DEF TypeOK, Object
<1> QED
  BY <1>1, SetUpInvariant, PTL

\* The script looks for a name in one call and makes the object in another.
\* However often it is tried again in between, whichever answers are lost,
\* requests are carried out after their caller has gone and objects are edited,
\* deleted, renamed or copied, two objects of a name are never both made by
\* requests somebody waited for (OnePerName).
THEOREM NamesAreUnique == Spec => []OnePerName
<1>1. SetUpInv => OnePerName
  BY DEF SetUpInv, SupersetInv, InTimeOK
<1> QED
  BY <1>1, SetUpInvariant, PTL

\* An attempt that reaches the end, and which nobody and no update of an
\* earlier attempt interfered with, has set every object back to what the
\* script defines, whatever was edited, deleted, renamed or half-done before
\* it, but for the datasets' databases and the queries of physical ones
\* (EditsAreUndone).
THEOREM EditsUndone == Spec => []EditsAreUndone
<1>1. ASSUME SetUpInv, SupersetDone, alone
      PROVE  AsDefined
  <2>1. Len(Main) \in Nat /\ SettledOK /\ at["superset"] = Len(Main) + 1
    BY <1>1, MainIs, Lengths DEF SetUpInv, SupersetDone
  <2>2. \A k \in 1..Len(Main) : Main[k].op \in Defining => Defined(Main[k])
    BY <1>1, <2>1 DEF SettledOK
  <2> QED
    BY <2>2 DEF AsDefined, Defining
<1> QED
  BY <1>1, SetUpInvariant, PTL DEF EditsAreUndone

----------------------------------------------------------------------------
(***************************************************************************)
(* What the attempts before have left is not in the way of the next one    *)
(***************************************************************************)

\* What the calls that this attempt has passed give is there.
Given(j, script) == \A i \in 1..Len(script) : i < at[j] => script[i].gives \subseteq there

GivenInv == Given("sql", SqlScript) /\ Given("metadata", MetadataScript)

LEMMA MakesKeeps ==
  ASSUME JobsOK, NEW j \in Jobs, NEW script, Given(j, script), Makes(j, script)
  PROVE  there \subseteq there' /\ Given(j, script)' /\ \A k \in Jobs \ {j} : at'[k] = at[k]
<1>1. at[j] \in 1..Len(script) /\ (Passes(j) \/ Aborts(j)) /\ there \subseteq there'
  BY DEF Makes
<1>2. \A k \in Jobs \ {j} : at'[k] = at[k]
  BY <1>1, AttemptKeeps
<1>3. CASE Aborts(j)
  <2>1. at'[j] \in {0, 1}
    BY <1>3 DEF Aborts, JobsOK
  <2> QED
    BY <1>1, <1>2, <2>1 DEF Given
<1>4. CASE Passes(j) /\ script[at[j]].gives \subseteq there'
  <2>1. at'[j] = at[j] + 1 /\ at[j] \in Nat
    BY <1>4 DEF Passes, JobsOK
  <2>2. \A i \in 1..Len(script) : i < at'[j] => i < at[j] \/ i = at[j]
    BY <2>1
  <2> QED
    BY <1>1, <1>2, <1>4, <2>2 DEF Given
<1>5. Aborts(j) \/ script[at[j]].gives \subseteq there'
  BY DEF Makes
<1> QED
  BY <1>1, <1>3, <1>4, <1>5

LEMMA GivenStays ==
  ASSUME NEW j, NEW script, Given(j, script), at'[j] = at[j], there \subseteq there'
  PROVE  Given(j, script)'
  BY DEF Given

LEMMA GivenStep ==
  ASSUME JobsOK, GivenInv, [Next]_vars
  PROVE  GivenInv'
<1>1. Given("sql", SqlScript) /\ Given("metadata", MetadataScript) /\ Jobs = {"sql", "superset", "metadata"}
  BY DEF GivenInv, Jobs
<1>2. CASE RunsSql
  <2>1. there \subseteq there' /\ Given("sql", SqlScript)' /\ at'["metadata"] = at["metadata"]
    BY <1>1, <1>2, MakesKeeps DEF RunsSql
  <2> QED
    BY <1>1, <2>1, GivenStays DEF GivenInv
<1>3. CASE RunsMetadata
  <2>1. there \subseteq there' /\ Given("metadata", MetadataScript)' /\ at'["sql"] = at["sql"]
    BY <1>1, <1>3, MakesKeeps DEF RunsMetadata
  <2> QED
    BY <1>1, <2>1, GivenStays DEF GivenInv
<1>4. ASSUME at'["sql"] = at["sql"], at'["metadata"] = at["metadata"], there \subseteq there'
      PROVE  GivenInv'
  BY <1>1, <1>4, GivenStays DEF GivenInv
<1>5. CASE RunsSuperset
  <2>1. there' = there /\ \E do : Looks(do) \/ Proceeds(do) \/ Fails(do)
    BY <1>5 DEF RunsSuperset
  <2>2. UNCHANGED at \/ Passes("superset") \/ Aborts("superset")
    BY <2>1 DEF Looks, Proceeds, Fails
  <2>3. at'["sql"] = at["sql"] /\ at'["metadata"] = at["metadata"]
    BY <1>1, <2>2, AttemptKeeps
  <2> QED
    BY <1>4, <2>1, <2>3
<1>6. CASE UNCHANGED at /\ there \subseteq there'
  BY <1>4, <1>6
<1>7. \/ RunsSql \/ RunsMetadata \/ RunsSuperset
      \/ UNCHANGED at /\ there \subseteq there'
  BY DEF Next, vars, jobVars, Arrives, UserInterface, Appears, RegistersTrino, IngestsTrino, IngestsAirflow, IngestsSuperset
<1> QED
  BY <1>2, <1>3, <1>5, <1>6, <1>7

\* The script can be run where X is there.
Feeds(script) == UNION {script[i].gives : i \in 1..Len(script)}
InOrder(script, X) ==
    \A k \in 1..Len(script) :
        /\ script[k].needs \subseteq X \union UNION {script[i].gives : i \in 1..(k - 1)}
        /\ script[k].once = FALSE

LEMMA InOrderMore ==
  ASSUME NEW s, NEW X, NEW Y, InOrder(s, X), X \subseteq Y
  PROVE  InOrder(s, Y)
  BY DEF InOrder

LEMMA InOrderFed ==
  ASSUME NEW s, NEW X, \A k \in 1..Len(s) : s[k].needs \subseteq X /\ s[k].once = FALSE
  PROVE  InOrder(s, X)
  BY DEF InOrder

LEMMA InOrderThen ==
  ASSUME NEW S, NEW s \in Seq(S), NEW t \in Seq(S), NEW X, InOrder(s, X), InOrder(t, X \union Feeds(s))
  PROVE  s \o t \in Seq(S) /\ InOrder(s \o t, X) /\ Feeds(s) \union Feeds(t) \subseteq Feeds(s \o t)
<1>1. /\ s \o t \in Seq(S) /\ Len(s \o t) = Len(s) + Len(t) /\ Len(s) \in Nat /\ Len(t) \in Nat
      /\ \A i \in 1..Len(s) + Len(t) : (s \o t)[i] = IF i <= Len(s) THEN s[i] ELSE t[i - Len(s)]
  BY ConcatProperties, LenProperties
<1> DEFINE m == Len(s)
           n == Len(t)
           st == s \o t
<1>2. /\ \A i \in 1..m : i \in 1..m + n /\ st[i] = s[i]
      /\ \A i \in 1..n : m + i \in 1..m + n /\ st[m + i] = t[i]
  <2>1. ASSUME NEW i \in 1..n
        PROVE  m + i \in 1..m + n /\ ~(m + i <= m) /\ m + i - m = i
    BY <1>1
  <2> QED
    BY <1>1, <2>1
<1> HIDE DEF st
<1>3. Feeds(s) \union Feeds(t) \subseteq Feeds(st)
  <2>1. Len(st) = m + n
    BY <1>1 DEF st
  <2>2. ASSUME NEW x \in Feeds(s)
        PROVE  x \in Feeds(st)
    BY <1>2, <2>1, <2>2 DEF Feeds
  <2>3. ASSUME NEW x \in Feeds(t)
        PROVE  x \in Feeds(st)
    BY <1>2, <2>1, <2>3 DEF Feeds
  <2> QED
    BY <2>2, <2>3
<1>4. ASSUME NEW k \in 1..m + n
      PROVE  /\ st[k].needs \subseteq X \union UNION {st[i].gives : i \in 1..(k - 1)}
             /\ st[k].once = FALSE
  <2>1. CASE k <= m
    <3>1. k \in 1..m /\ \A i \in 1..(k - 1) : i \in 1..m
      BY <1>1, <2>1
    <3>2. s[k].needs \subseteq X \union UNION {s[i].gives : i \in 1..(k - 1)} /\ s[k].once = FALSE
      BY <3>1 DEF InOrder
    <3> QED
      BY <1>2, <3>1, <3>2
  <2>2. CASE ~(k <= m)
    <3>1. k - m \in 1..n /\ m + (k - m) = k
      BY <1>1, <2>2
    <3>2. /\ \A i \in 1..m : i \in 1..(k - 1)
          /\ \A i \in 1..(k - m - 1) : i \in 1..n /\ m + i \in 1..(k - 1)
      BY <1>1, <2>2
    <3>3. /\ t[k - m].needs \subseteq (X \union Feeds(s)) \union UNION {t[i].gives : i \in 1..(k - m - 1)}
          /\ t[k - m].once = FALSE
      BY <3>1 DEF InOrder
    <3>4. Feeds(s) \subseteq UNION {st[i].gives : i \in 1..(k - 1)}
      BY <1>2, <3>2 DEF Feeds
    <3>5. UNION {t[i].gives : i \in 1..(k - m - 1)} \subseteq UNION {st[i].gives : i \in 1..(k - 1)}
      BY <1>2, <3>2
    <3>6. st[k] = t[k - m]
      BY <1>2, <3>1
    <3> QED
      BY <3>3, <3>4, <3>5, <3>6
  <2> QED
    BY <2>1, <2>2
<1> QED
  BY <1>1, <1>3, <1>4 DEF InOrder, st

\* What configure_openmetadata.py uses and makes.
Names ==
    {Service(n) : n \in {"kafka", "nifi", "airflow", "superset"}}
    \union {Pipeline(n) : n \in {"nifi", "airflow", "superset", "trino"}}
    \union {Deployed(n) : n \in {"airflow", "superset", "trino"}}
    \union {Topic(t) : t \in Range(Topics)} \union {Lineage(t) : t \in Range(Topics)}
CallSet == {Call(needs, gives) : needs \in SUBSET Names, gives \in SUBSET Names}

LEMMA CallIs ==
  /\ \A needs, gives : /\ Call(needs, gives).needs = needs /\ Call(needs, gives).gives = gives
                       /\ Call(needs, gives).once = FALSE
  /\ \A needs, gives \in SUBSET Names : Call(needs, gives) \in CallSet
<1>1. \A needs, gives : /\ Call(needs, gives).needs = needs /\ Call(needs, gives).gives = gives
                        /\ Call(needs, gives).once = FALSE
  BY DEF Call
<1>2. ASSUME NEW needs \in SUBSET Names, NEW gives \in SUBSET Names
      PROVE  Call(needs, gives) \in CallSet
  BY DEF CallSet
<1> QED
  BY <1>1, <1>2

LEMMA TopicsAre ==
  /\ Len(Topics) \in Nat /\ \A i \in 1..Len(Topics) : Topics[i] \in Range(Topics)
  /\ \A t \in Range(Topics) : \E i \in 1..Len(Topics) : Topics[i] = t
<1>1. Topics \in Seq(Range(Topics))
  BY JobsAssumption
<1>2. Len(Topics) \in Nat /\ DOMAIN Topics = 1..Len(Topics)
  BY <1>1, LenProperties
<1> QED
  BY <1>2 DEF Range

TrinoThere == {Pipeline("trino"), Deployed("trino")}

LEMMA KafkaInOrder ==
  /\ EnsureKafka \in Seq(CallSet) /\ InOrder(EnsureKafka, TrinoThere)
  /\ \A t \in Range(Topics) : Topic(t) \in Feeds(EnsureKafka)
<1> DEFINE s == <<Call({}, {Service("kafka")})>>
           F(t) == Call({Service("kafka")}, {Topic(t)})
           f == [i \in 1..Len(Topics) |-> F(Topics[i])]
<1>1. s \in Seq(CallSet) /\ Len(s) = 1 /\ s[1] = Call({}, {Service("kafka")})
  <2>1. {} \in SUBSET Names /\ {Service("kafka")} \in SUBSET Names
    BY DEF Names
  <2>2. Call({}, {Service("kafka")}) \in CallSet
    BY <2>1, CallIs
  <2> QED
    BY <2>2
<1>2. f \in Seq(CallSet) /\ Len(f) = Len(Topics) /\ \A i \in 1..Len(Topics) : f[i] = F(Topics[i])
  <2>1. ASSUME NEW i \in 1..Len(Topics)
        PROVE  F(Topics[i]) \in CallSet
    <3>1. {Service("kafka")} \in SUBSET Names /\ {Topic(Topics[i])} \in SUBSET Names
      BY TopicsAre DEF Names
    <3> QED
      BY <3>1, CallIs
  <2>2. f \in [1..Len(Topics) -> CallSet] /\ \A i \in 1..Len(Topics) : f[i] = F(Topics[i])
    BY <2>1
  <2> HIDE DEF f
  <2> QED
    BY <2>2, TopicsAre, SeqIs
<1>3. EnsureKafka = s \o f
  BY DEF EnsureKafka, Each
<1> HIDE DEF s, f
<1>4. InOrder(s, TrinoThere)
  BY <1>1, CallIs DEF InOrder
<1>5. Service("kafka") \in Feeds(s)
  BY <1>1, CallIs DEF Feeds
<1>6. InOrder(f, TrinoThere \union Feeds(s))
  <2>1. ASSUME NEW k \in 1..Len(f)
        PROVE  f[k].needs \subseteq TrinoThere \union Feeds(s) /\ f[k].once = FALSE
    <3>1. f[k] = F(Topics[k])
      BY <1>2
    <3> QED
      BY <1>5, <3>1, CallIs
  <2> QED
    BY <2>1, InOrderFed
<1>7. /\ EnsureKafka \in Seq(CallSet) /\ InOrder(EnsureKafka, TrinoThere)
      /\ Feeds(f) \subseteq Feeds(EnsureKafka)
  BY <1>1, <1>2, <1>3, <1>4, <1>6, InOrderThen
<1>8. ASSUME NEW t \in Range(Topics)
      PROVE  Topic(t) \in Feeds(f)
  <2>1. PICK i \in 1..Len(Topics) : Topics[i] = t
    BY TopicsAre
  <2>2. f[i] = F(t) /\ i \in 1..Len(f)
    BY <1>2, <2>1
  <2>3. f[i].gives = {Topic(t)}
    BY <2>2, CallIs
  <2> QED
    BY <2>2, <2>3 DEF Feeds
<1> QED
  BY <1>7, <1>8

LEMMA NifiInOrder ==
  ASSUME NEW X, \A t \in Range(Topics) : Topic(t) \in X
  PROVE  EnsureNifi \in Seq(CallSet) /\ InOrder(EnsureNifi, X)
<1> DEFINE s == <<Call({}, {Service("nifi")}), Call({Service("nifi")}, {Pipeline("nifi")})>>
           F(t) == Call({Pipeline("nifi"), Topic(t)}, {Lineage(t)})
           f == [i \in 1..Len(Topics) |-> F(Topics[i])]
<1>1. /\ s \in Seq(CallSet) /\ Len(s) = 2 /\ s[1] = Call({}, {Service("nifi")})
      /\ s[2] = Call({Service("nifi")}, {Pipeline("nifi")})
  <2>1. {} \in SUBSET Names /\ {Service("nifi")} \in SUBSET Names /\ {Pipeline("nifi")} \in SUBSET Names
    BY DEF Names
  <2>2. Call({}, {Service("nifi")}) \in CallSet /\ Call({Service("nifi")}, {Pipeline("nifi")}) \in CallSet
    BY <2>1, CallIs
  <2> QED
    BY <2>2
<1>2. f \in Seq(CallSet) /\ Len(f) = Len(Topics) /\ \A i \in 1..Len(Topics) : f[i] = F(Topics[i])
  <2>1. ASSUME NEW i \in 1..Len(Topics)
        PROVE  F(Topics[i]) \in CallSet
    <3>1. {Pipeline("nifi"), Topic(Topics[i])} \in SUBSET Names /\ {Lineage(Topics[i])} \in SUBSET Names
      BY TopicsAre DEF Names
    <3> QED
      BY <3>1, CallIs
  <2>2. f \in [1..Len(Topics) -> CallSet] /\ \A i \in 1..Len(Topics) : f[i] = F(Topics[i])
    BY <2>1
  <2> HIDE DEF f
  <2> QED
    BY <2>2, TopicsAre, SeqIs
<1>3. EnsureNifi = s \o f
  BY DEF EnsureNifi, Each
<1> HIDE DEF s, f
<1>4. InOrder(s, X)
  <2>1. s[1].needs = {} /\ s[1].gives = {Service("nifi")} /\ s[1].once = FALSE
    BY <1>1, CallIs
  <2>2. s[2].needs = {Service("nifi")} /\ s[2].once = FALSE
    BY <1>1, CallIs
  <2>3. \A k \in 1..Len(s) : k = 1 \/ (k = 2 /\ 1 \in 1..(k - 1))
    BY <1>1
  <2> QED
    BY <2>1, <2>2, <2>3 DEF InOrder
<1>5. Pipeline("nifi") \in Feeds(s)
  <2>1. s[2].gives = {Pipeline("nifi")} /\ 2 \in 1..Len(s)
    BY <1>1, CallIs
  <2> QED
    BY <2>1 DEF Feeds
<1>6. InOrder(f, X \union Feeds(s))
  <2>1. ASSUME NEW k \in 1..Len(f)
        PROVE  f[k].needs \subseteq X \union Feeds(s) /\ f[k].once = FALSE
    <3>1. f[k] = F(Topics[k]) /\ Topic(Topics[k]) \in X
      BY <1>2, TopicsAre
    <3>2. F(Topics[k]).needs = {Pipeline("nifi"), Topic(Topics[k])} /\ F(Topics[k]).once = FALSE
      BY CallIs
    <3> QED
      BY <1>5, <3>1, <3>2
  <2> QED
    BY <2>1, InOrderFed
<1> QED
  BY <1>1, <1>2, <1>3, <1>4, <1>6, InOrderThen

LEMMA IngestionInOrder ==
  ASSUME NEW n \in {"airflow", "superset"}, NEW X
  PROVE  /\ EnsureIngestion(n) \in Seq(CallSet) /\ InOrder(EnsureIngestion(n), X)
         /\ {Pipeline(n), Deployed(n)} \subseteq Feeds(EnsureIngestion(n))
<1> DEFINE s == <<Call({}, {Service(n)}), Call({Service(n)}, {Pipeline(n)}), Call({Pipeline(n)}, {Deployed(n)})>>
<1>1. /\ s \in Seq(CallSet) /\ Len(s) = 3 /\ s[1] = Call({}, {Service(n)})
      /\ s[2] = Call({Service(n)}, {Pipeline(n)}) /\ s[3] = Call({Pipeline(n)}, {Deployed(n)})
  <2>1. /\ {} \in SUBSET Names /\ {Service(n)} \in SUBSET Names
        /\ {Pipeline(n)} \in SUBSET Names /\ {Deployed(n)} \in SUBSET Names
    BY DEF Names
  <2>2. /\ Call({}, {Service(n)}) \in CallSet /\ Call({Service(n)}, {Pipeline(n)}) \in CallSet
        /\ Call({Pipeline(n)}, {Deployed(n)}) \in CallSet
    BY <2>1, CallIs
  <2> QED
    BY <2>2
<1>2. EnsureIngestion(n) = s
  BY DEF EnsureIngestion
<1> HIDE DEF s
<1>3. s[1].needs = {} /\ s[1].gives = {Service(n)} /\ s[1].once = FALSE
  BY <1>1, CallIs
<1>4. s[2].needs = {Service(n)} /\ s[2].gives = {Pipeline(n)} /\ s[2].once = FALSE
  BY <1>1, CallIs
<1>5. s[3].needs = {Pipeline(n)} /\ s[3].gives = {Deployed(n)} /\ s[3].once = FALSE
  BY <1>1, CallIs
<1>6. \A k \in 1..Len(s) : k = 1 \/ (k = 2 /\ 1 \in 1..(k - 1)) \/ (k = 3 /\ 2 \in 1..(k - 1))
  BY <1>1
<1>7. InOrder(s, X)
  BY <1>3, <1>4, <1>5, <1>6 DEF InOrder
<1>8. 2 \in 1..Len(s) /\ 3 \in 1..Len(s)
  BY <1>1
<1>9. {Pipeline(n), Deployed(n)} \subseteq Feeds(s)
  BY <1>4, <1>5, <1>8 DEF Feeds
<1> QED
  BY <1>1, <1>2, <1>7, <1>9

LEMMA TriggersInOrder ==
  ASSUME NEW n \in {"airflow", "superset", "trino"}, NEW X, {Pipeline(n), Deployed(n)} \subseteq X
  PROVE  Triggers(n) \in Seq(CallSet) /\ InOrder(Triggers(n), X)
<1>1. {Pipeline(n), Deployed(n)} \in SUBSET Names /\ {} \in SUBSET Names
  BY DEF Names
<1>2. Call({Pipeline(n), Deployed(n)}, {}) \in CallSet
  BY <1>1, CallIs
<1> DEFINE s == <<Call({Pipeline(n), Deployed(n)}, {})>>
<1>3. s \in Seq(CallSet) /\ Len(s) = 1 /\ s[1] = Call({Pipeline(n), Deployed(n)}, {})
  BY <1>2
<1>4. Triggers(n) = s
  BY DEF Triggers
<1> HIDE DEF s
<1>5. InOrder(s, X)
  BY <1>3, CallIs DEF InOrder
<1> QED
  BY <1>3, <1>4, <1>5

\* configure_openmetadata.py can be run from the first call to the last once
\* the service trino has its pipeline.
LEMMA MetadataInOrder == InOrder(MetadataScript, TrinoThere)
<1> DEFINE s1 == Login \o EnsureKafka
           s2 == s1 \o EnsureNifi
           s3 == s2 \o EnsureIngestion("airflow")
           s4 == s3 \o EnsureIngestion("superset")
           s5 == s4 \o Triggers("trino")
           s6 == s5 \o Triggers("airflow")
           s7 == s6 \o Triggers("superset")
<1>0. MetadataScript = s7
  BY DEF MetadataScript
<1>1. Login \in Seq(CallSet) /\ InOrder(Login, TrinoThere)
  <2>1. {} \in SUBSET Names
    OBVIOUS
  <2>2. Call({}, {}) \in CallSet
    BY <2>1, CallIs
  <2>3. Login \in Seq(CallSet) /\ Len(Login) = 1 /\ Login[1] = Call({}, {})
    BY <2>2 DEF Login
  <2>4. \A k \in 1..Len(Login) : Login[k].needs = {} /\ Login[k].once = FALSE
    BY <2>3, CallIs
  <2> QED
    BY <2>3, <2>4, InOrderFed
<1>2. s1 \in Seq(CallSet) /\ InOrder(s1, TrinoThere) /\ \A t \in Range(Topics) : Topic(t) \in Feeds(s1)
  <2>1. EnsureKafka \in Seq(CallSet) /\ InOrder(EnsureKafka, TrinoThere \union Feeds(Login))
    BY KafkaInOrder, InOrderMore
  <2>2. /\ s1 \in Seq(CallSet) /\ InOrder(s1, TrinoThere)
        /\ Feeds(Login) \union Feeds(EnsureKafka) \subseteq Feeds(s1)
    BY <1>1, <2>1, InOrderThen
  <2> QED
    BY <2>2, KafkaInOrder
<1> HIDE DEF s1
<1>3. s2 \in Seq(CallSet) /\ InOrder(s2, TrinoThere)
  <2>1. EnsureNifi \in Seq(CallSet) /\ InOrder(EnsureNifi, TrinoThere \union Feeds(s1))
    BY <1>2, NifiInOrder
  <2> QED
    BY <1>2, <2>1, InOrderThen
<1> HIDE DEF s2
<1>4. s3 \in Seq(CallSet) /\ InOrder(s3, TrinoThere) /\ {Pipeline("airflow"), Deployed("airflow")} \subseteq Feeds(s3)
  <2>1. EnsureIngestion("airflow") \in Seq(CallSet) /\ InOrder(EnsureIngestion("airflow"), TrinoThere \union Feeds(s2))
    BY IngestionInOrder
  <2>2. /\ s3 \in Seq(CallSet) /\ InOrder(s3, TrinoThere)
        /\ Feeds(s2) \union Feeds(EnsureIngestion("airflow")) \subseteq Feeds(s3)
    BY <1>3, <2>1, InOrderThen
  <2>3. {Pipeline("airflow"), Deployed("airflow")} \subseteq Feeds(EnsureIngestion("airflow"))
    BY IngestionInOrder
  <2> QED
    BY <2>2, <2>3
<1> HIDE DEF s3
<1>5. /\ s4 \in Seq(CallSet) /\ InOrder(s4, TrinoThere)
      /\ {Pipeline("airflow"), Deployed("airflow"), Pipeline("superset"), Deployed("superset")} \subseteq Feeds(s4)
  <2>1. EnsureIngestion("superset") \in Seq(CallSet) /\ InOrder(EnsureIngestion("superset"), TrinoThere \union Feeds(s3))
    BY IngestionInOrder
  <2>2. /\ s4 \in Seq(CallSet) /\ InOrder(s4, TrinoThere)
        /\ Feeds(s3) \union Feeds(EnsureIngestion("superset")) \subseteq Feeds(s4)
    BY <1>4, <2>1, InOrderThen
  <2>3. {Pipeline("superset"), Deployed("superset")} \subseteq Feeds(EnsureIngestion("superset"))
    BY IngestionInOrder
  <2> QED
    BY <1>4, <2>2, <2>3
<1> HIDE DEF s4
<1>6. s5 \in Seq(CallSet) /\ InOrder(s5, TrinoThere) /\ Feeds(s4) \subseteq Feeds(s5)
  <2>1. Triggers("trino") \in Seq(CallSet) /\ InOrder(Triggers("trino"), TrinoThere \union Feeds(s4))
    BY TriggersInOrder DEF TrinoThere
  <2> QED
    BY <1>5, <2>1, InOrderThen
<1> HIDE DEF s5
<1>7. s6 \in Seq(CallSet) /\ InOrder(s6, TrinoThere) /\ Feeds(s5) \subseteq Feeds(s6)
  <2>1. {Pipeline("airflow"), Deployed("airflow")} \subseteq TrinoThere \union Feeds(s5)
    BY <1>5, <1>6
  <2>2. Triggers("airflow") \in Seq(CallSet) /\ InOrder(Triggers("airflow"), TrinoThere \union Feeds(s5))
    BY <2>1, TriggersInOrder
  <2> QED
    BY <1>6, <2>2, InOrderThen
<1> HIDE DEF s6
<1>8. s7 \in Seq(CallSet) /\ InOrder(s7, TrinoThere)
  <2>1. {Pipeline("superset"), Deployed("superset")} \subseteq TrinoThere \union Feeds(s6)
    BY <1>5, <1>6, <1>7
  <2>2. Triggers("superset") \in Seq(CallSet) /\ InOrder(Triggers("superset"), TrinoThere \union Feeds(s6))
    BY <2>1, TriggersInOrder
  <2> QED
    BY <1>7, <2>2, InOrderThen
<1> QED
  BY <1>0, <1>8

LEMMA StatementOnce == \A s : Statement(s, s \in Once).once = (s \in Once)
  BY Zenon DEF Statement

\* run.py can be run from the first statement to the last.
LEMMA SqlInOrder ==
  ASSUME NEW k \in 1..Len(Statements)
  PROVE  /\ k \in 1..Len(SqlScript) /\ SqlScript[k].gives = {Creates[Statements[k]]}
         /\ SqlScript[k].once <=> Statements[k] \in Once
         /\ SqlScript[k].needs \subseteq {Creates[Statements[j]] : j \in 1..(k - 1)}
<1>1. Len(Statements) \in Nat /\ Statements # <<>>
  BY JobsAssumption, LenProperties
<1> DEFINE F(s) == Statement(s, s \in Once)
           f == [i \in 1..Len(Statements) |-> F(Statements[i])]
<1>2. Len(f) = Len(Statements) /\ f[k] = F(Statements[k])
  BY <1>1
<1>3. SqlScript = f
  BY <1>1 DEF SqlScript, Each
<1> HIDE DEF f
<1>4. SqlScript[k] = Statement(Statements[k], Statements[k] \in Once)
  BY <1>2, <1>3
<1>5. SqlScript[k].gives = {Creates[Statements[k]]} /\ SqlScript[k].needs = Uses[Statements[k]]
  BY <1>4 DEF Statement
<1>6. SqlScript[k].once <=> Statements[k] \in Once
  BY <1>4, StatementOnce, Zenon
<1> QED
  BY <1>2, <1>3, <1>5, <1>6, StatementsAssumption

LEMMA GivenInit ==
  ASSUME Init
  PROVE  GivenInv
<1>1. at["sql"] \in {0, 1} /\ at["metadata"] \in {0, 1}
  BY DEF Init, Jobs
<1> QED
  BY <1>1 DEF GivenInv, Given

\* Nothing Superset would refuse: what the request needs is there, and its
\* object is the only one of the name, unless a late request or a missing
\* table comes in between.
LEMMA RequestFits ==
  ASSUME SupersetInv, SettledOK, alone, at["superset"] \in 1..Len(Main),
         NEW do, do = Main[at["superset"]], Looked(do),
         do.op \in {"dataset", "refresh"} => do.name \in tables,
         do.op \in Ensures /\ found = 0 => \A o \in Find(do.name) : ~o.late
  PROVE  Accepted(Request(do))
<1>1. /\ \A n \in Sought : MadeBefore(at["superset"], n) => Valid(n)
      /\ found \notin {NotYet, 0} => \E o \in objects : o.id = found /\ o.name = do.name
  BY DEF SettledOK
<1>2. do \in MainCalls /\ do.name \in Sought
  BY MainKinds, CallNames
<1>3. /\ got \in [Sought -> 0..newest] /\ \A n \in Sought : got[n] # 0 <=> MadeBefore(at["superset"], n)
      /\ found \in {NotYet} \union 0..newest
  BY DEF SupersetInv, AttemptOK
<1>4. /\ \A o, p \in objects : o.name = p.name /\ o.name \in Own => o = p
      /\ found = 0 => \A o \in objects : o.name = do.name => o.late
  BY DEF SupersetInv, OwnOK, InTimeOK
<1> DEFINE w == Request(do)
<1>5. /\ w.do = do /\ w.id = (IF do.op \in Ensures THEN found ELSE got[do.name])
      /\ w.refers = Refers(do, got) /\ w.needs \subseteq Refers(do, got)
  BY DEF Request
<1> HIDE DEF w
<1>6. \A n \in Sought : MadeBefore(at["superset"], n) => got[n] \in Ids
  BY <1>1 DEF Valid, Ids
<1>7. w.needs \subseteq Ids
  <2>1. Refers(do, got) \ {got[c] : c \in Range(Charts)} \subseteq Ids
    <3>1. Refers(do, got) \subseteq {got[n] : n \in Needs(do)}
      BY <1>2, <1>3, RefersIn
    <3>2. \A n \in Needs(do) : n \in Sought /\ MadeBefore(at["superset"], n)
      BY MadeInOrder DEF Needs
    <3> QED
      BY <1>6, <3>1, <3>2
  <2> QED
    BY <2>1 DEF w, Request
<1>8. w.id # 0 => w.id \in Ids
  <2>1. CASE do.op \in Ensures
    BY <1>1, <1>5, <2>1 DEF Looked, Ids
  <2>2. CASE do.op \notin Ensures
    BY <1>2, <1>3, <1>5, <1>6, <2>2
  <2> QED
    BY <2>1, <2>2
<1>9. do.op \in Ensures /\ found = 0 => Find(do.name) = {}
  BY <1>4 DEF Find
<1>10. ASSUME NEW o \in objects, o.name = do.name, o.id # w.id
       PROVE  /\ do.op \notin {"database", "role", "board", "layout"}
              /\ ~(do.op = "dataset" /\ w.id = 0)
  <2>1. o \in Find(do.name)
    BY <1>10 DEF Find
  <2>2. do.op \in Ensures => found \notin {NotYet, 0}
    BY <1>9, <2>1 DEF Looked
  <2>3. ~(do.op = "dataset" /\ w.id = 0)
    BY <1>5, <2>2 DEF Ensures
  <2>4. ASSUME do.op \in {"database", "role", "board", "layout"}
        PROVE  \E p \in objects : p.id = w.id /\ p.name = do.name
    <3>1. CASE do.op \in Ensures
      BY <1>1, <1>5, <2>2, <3>1
    <3>2. CASE do.op \notin Ensures
      <4>1. do.op = "layout" /\ do.name \in Needs(do)
        BY <1>2, <2>4, <3>2 DEF Ensures, Needs
      <4>2. MadeBefore(at["superset"], do.name)
        BY <4>1, MadeInOrder
      <4> QED
        BY <1>1, <1>2, <1>5, <3>2, <4>2 DEF Valid
    <3> QED
      BY <3>1, <3>2
  <2>5. do.op \in {"database", "role", "board", "layout"} => do.name \in Own
    BY <1>2, CallNames DEF Own
  <2> QED
    BY <1>4, <1>10, <2>3, <2>4, <2>5
<1>11. ~Taken(w)
  BY <1>5, <1>10 DEF Taken, Find
<1> QED
  BY <1>5, <1>7, <1>8, <1>11 DEF Accepted, w

\* A Job that starts over, after any number of attempts that ended at any call
\* with or without its effect, is refused nothing for what they have left, and
\* what people have done before it: the objects and ids its requests name are
\* there and theirs is the only one of a name given once, and statements and
\* OpenMetadata calls find all they use (NothingInTheWay).
THEOREM NoAttemptIsBlocked == Spec => []NothingInTheWay
<1>1. ASSUME SetUpInv, GivenInv
      PROVE  NothingInTheWay
  <2>1. ASSUME at["superset"] \in 1..Len(Main), alone, NEW do, do = Main[at["superset"]], Looked(do)
        PROVE  \/ Accepted(Request(do))
               \/ do.op \in {"dataset", "refresh"} /\ do.name \notin tables
               \/ do.op \in Ensures /\ found = 0 /\ \E o \in Find(do.name) : o.late
    BY <1>1, <2>1, RequestFits DEF SetUpInv
  <2>2. ASSUME NEW k \in 1..Len(Statements), at["sql"] = k, Once = {}
        PROVE  Possible(SqlScript[k])
    <3>1. \A j \in 1..(k - 1) : j \in 1..Len(Statements) /\ j < at["sql"]
      BY <2>2, JobsAssumption, LenProperties
    <3>2. \A j \in 1..(k - 1) : Creates[Statements[j]] \in there
      BY <1>1, <3>1, SqlInOrder DEF GivenInv, Given
    <3>3. ~SqlScript[k].once /\ SqlScript[k].needs \subseteq {Creates[Statements[j]] : j \in 1..(k - 1)}
      BY <2>2, SqlInOrder
    <3> QED
      BY <3>2, <3>3 DEF Possible
  <2>3. ASSUME at["metadata"] \in 1..Len(MetadataScript), {Pipeline("trino"), Deployed("trino")} \subseteq there
        PROVE  Possible(MetadataScript[at["metadata"]])
    <3> PICK k \in 1..Len(MetadataScript) : k = at["metadata"]
      BY <2>3
    <3>1. \A j \in 1..(k - 1) : j \in 1..Len(MetadataScript) /\ j < at["metadata"]
      OBVIOUS
    <3>2. \A j \in 1..(k - 1) : MetadataScript[j].gives \subseteq there
      BY <1>1, <3>1 DEF GivenInv, Given
    <3>3. /\ MetadataScript[k].needs \subseteq TrinoThere \union UNION {MetadataScript[i].gives : i \in 1..(k - 1)}
          /\ MetadataScript[k].once = FALSE
      BY MetadataInOrder DEF InOrder
    <3> QED
      BY <2>3, <3>2, <3>3 DEF Possible, TrinoThere
  <2> QED
    BY <2>1, <2>2, <2>3 DEF NothingInTheWay
<1>2. Spec => []GivenInv
  <2>1. Init => GivenInv
    BY GivenInit
  <2>2. SetUpInv => JobsOK
    BY DEF SetUpInv
  <2>3. JobsOK /\ GivenInv /\ [Next]_vars => GivenInv'
    BY GivenStep
  <2> QED
    BY <2>1, <2>2, <2>3, SetUpInvariant, PTL DEF Spec
<1> QED
  BY <1>1, <1>2, SetUpInvariant, PTL

=============================================================================
