---------------------------- MODULE IndexerProofs ----------------------------
(***************************************************************************)
(* What holds of the indexer's ingestion for any endpoints, quorum,        *)
(* window, transactions and agents: whatever the faulty endpoints sign and *)
(* in whatever order the reports arrive; and of its event bus for any      *)
(* partitions, consumers, records, batches, retries and departures.        *)
(***************************************************************************)
EXTENDS EventBus, Ingestion, FiniteSetTheorems, WellFoundedInduction, TLAPS

LEMMA ThresholdIsPositive ==
  ASSUME Configured
  PROVE  Threshold \in Nat /\ Threshold >= 2 /\ WindowSize >= Threshold
<1>1. Cardinality(Endpoint) \in Nat
  BY FS_CardinalityType, GeyserAssumption
<1> QED
  BY <1>1 DEF Configured

LEMMA IngestStart == IngestInit /\ Configured => IngestInv
<1> SUFFICES ASSUME IngestInit, Configured PROVE IngestInv
  OBVIOUS
<1> USE DEF IngestInit, GeyserInit
<1>1. IngestTypeOK
  BY DEF IngestTypeOK
<1>2. WindowAwaitsQuorum
  BY DEF WindowAwaitsQuorum
<1>3. SourcesAreTrue
  BY DEF SourcesAreTrue
<1>4. \A sig : Reporters(sig, "true") = {}
  BY DEF Reporters
<1> QED
  BY <1>1, <1>2, <1>3, <1>4 DEF IngestInv, Accounted

\* What is left of the window without one entry.
LEMMA WithoutEntry ==
  ASSUME window \in Seq(Entry), NEW i \in 1..Len(window)
  PROVE  /\ Without(i) \in Seq(Entry) /\ Len(Without(i)) = Len(window) - 1
         /\ \A k \in 1..Len(Without(i)) :
              Without(i)[k] = IF k < i THEN window[k] ELSE window[k + 1]
<1> DEFINE head == SubSeq(window, 1, i - 1)
           tail == SubSeq(window, i + 1, Len(window))
<1>1. head \in Seq(Entry) /\ Len(head) = i - 1 /\ \A k \in 1..(i - 1) : head[k] = window[k]
  OBVIOUS
<1>2. /\ tail \in Seq(Entry) /\ Len(tail) = Len(window) - i
      /\ \A k \in 1..(Len(window) - i) : tail[k] = window[i + k]
  OBVIOUS
<1>3. Without(i) = head \o tail
  BY DEF Without
<1> HIDE DEF head, tail
<1>4. Without(i) \in Seq(Entry) /\ Len(Without(i)) = Len(window) - 1
  BY <1>1, <1>2, <1>3
<1>5. ASSUME NEW k \in 1..(Len(window) - 1)
      PROVE  Without(i)[k] = IF k < i THEN window[k] ELSE window[k + 1]
  <2>1. CASE k < i
    BY <1>1, <1>2, <1>3, <2>1
  <2>2. CASE ~ (k < i)
    <3>1. k - (i - 1) \in 1..(Len(window) - i) /\ i + (k - (i - 1)) = k + 1
      BY <2>2
    <3>2. Without(i)[k] = tail[k - (i - 1)]
      BY <1>1, <1>2, <1>3, <2>2
    <3> QED
      BY <1>2, <2>2, <3>1, <3>2
  <2> QED
    BY <2>1, <2>2
<1> QED
  BY <1>4, <1>5

\* One report more.
LEMMA ReportersGrow ==
  ASSUME NEW s \in Endpoint, NEW u \in Update, reports' = reports \cup {<<s, u>>}
  PROVE  \A sig, c : Reporters(sig, c)' =
           Reporters(sig, c) \cup IF sig = u.sig /\ c = u.canonical THEN {s} ELSE {}
<1> TAKE sig, c
<1> DEFINE Reported(R, t) == \E r \in R : r[1] = t /\ r[2].sig = sig /\ r[2].canonical = c
<1>1. ASSUME NEW t
      PROVE  Reported(reports', t) <=>
               Reported(reports, t) \/ (t = s /\ sig = u.sig /\ c = u.canonical)
  <2>1. <<s, u>>[1] = s /\ <<s, u>>[2] = u
    OBVIOUS
  <2> QED
    BY <2>1
<1>2. /\ Reporters(sig, c) = {t \in Endpoint : Reported(reports, t)}
      /\ Reporters(sig, c)' = {t \in Endpoint : Reported(reports', t)}
  BY DEF Reporters
<1> HIDE DEF Reported
<1> QED
  BY <1>1, <1>2

-----------------------------------------------------------------------------
(* What a verified update does to the window.                              *)

\* A report changes nothing but the window and what came out of it.
LEMMA FeedKeeps ==
  ASSUME IngestInv, NEW s, NEW u \in Update, NEW intact, Feed(s, u, intact),
         UNCHANGED <<wallets, writing, rows, ingested, rejected, skipped, pending>>,
         conflicts \subseteq conflicts', dropped \subseteq dropped',
         window' \in Seq(Entry), WindowAwaitsQuorum',
         emitted' # NoUpdate => emitted' \in Update /\ Agreed(emitted.sig, emitted.canonical)',
         \A sig \in OnChain : Accounted(sig)'
  PROVE  IngestInv'
<1>1. s \in Endpoint /\ Signs(s, u) /\ reports' = reports \cup {<<s, u>>}
  BY DEF Feed, Verified
<1>2. IngestTypeOK'
  BY <1>1 DEF IngestInv, IngestTypeOK
<1>3. \A r \in reports' : Signs(r[1], r[2])
  <2>1. <<s, u>>[1] = s /\ <<s, u>>[2] = u
    OBVIOUS
  <2> QED
    BY <1>1, <2>1 DEF IngestInv, SourcesAreTrue
<1>4. SourcesAreTrue'
  BY <1>3 DEF IngestInv, SourcesAreTrue
<1> QED
  BY <1>2, <1>4 DEF IngestInv

\* A transaction stays settled while updates arrive.
LEMMA StaysSettled ==
  ASSUME NEW sig, Settled(sig), emitted = NoUpdate,
         UNCHANGED <<writing, ingested, rejected, skipped>>,
         conflicts \subseteq conflicts', dropped \subseteq dropped'
  PROVE  Settled(sig)'
BY DEF Settled

\* Entries that are still in the window, in fewer places, are still in order.
LEMMA EntriesKept ==
  ASSUME WindowAwaitsQuorum, window \in Seq(Entry), NEW w \in Seq(Entry),
         NEW at \in [1..Len(w) -> 1..Len(window)],
         \A k, l \in 1..Len(w) : at[k] = at[l] => k = l,
         \A k \in 1..Len(w) : w[k] = window[at[k]]
  PROVE  /\ \A k \in 1..Len(w) :
              /\ w[k].first.sig = w[k].sig /\ w[k].first.canonical = w[k].canonical
              /\ w[k].sources \subseteq Reporters(w[k].sig, w[k].canonical)
              /\ Cardinality(w[k].sources) < Threshold
         /\ \A k, l \in 1..Len(w) : w[k].sig = w[l].sig => k = l
<1>1. ASSUME NEW k \in 1..Len(w)
      PROVE  /\ w[k].first.sig = w[k].sig /\ w[k].first.canonical = w[k].canonical
             /\ w[k].sources \subseteq Reporters(w[k].sig, w[k].canonical)
             /\ Cardinality(w[k].sources) < Threshold
  <2>1. at[k] \in 1..Len(window) /\ w[k] = window[at[k]]
    OBVIOUS
  <2>2. /\ w[k].first.sig = w[k].sig /\ w[k].first.canonical = w[k].canonical
        /\ w[k].sources \subseteq Reporters(w[k].sig, w[k].canonical)
        /\ Cardinality(w[k].sources) < Threshold
    BY <2>1 DEF WindowAwaitsQuorum
  <2> QED
    BY <2>2
<1>2. ASSUME NEW k \in 1..Len(w), NEW l \in 1..Len(w), w[k].sig = w[l].sig
      PROVE  k = l
  <2>1. at[k] \in 1..Len(window) /\ w[k] = window[at[k]]
        /\ at[l] \in 1..Len(window) /\ w[l] = window[at[l]]
    OBVIOUS
  <2>2. at[k] = at[l]
    BY <1>2, <2>1 DEF WindowAwaitsQuorum
  <2> QED
    BY <2>2
<1> QED
  BY <1>1, <1>2

\* Where the entry goes, or one is taken out, the others stay.
LEMMA WithoutKeeps ==
  ASSUME WindowAwaitsQuorum, window \in Seq(Entry), NEW i \in 1..Len(window),
         window' = Without(i),
         \A sig, c : Reporters(sig, c) \subseteq Reporters(sig, c)'
  PROVE  /\ window' \in Seq(Entry) /\ WindowAwaitsQuorum'
         /\ \A j \in 1..Len(window) : j # i => \E k \in 1..Len(window') : window'[k] = window[j]
<1> DEFINE w == Without(i)
           at == [k \in 1..Len(w) |-> IF k < i THEN k ELSE k + 1]
<1>1. /\ w \in Seq(Entry) /\ Len(w) = Len(window) - 1
      /\ \A k \in 1..Len(w) : w[k] = IF k < i THEN window[k] ELSE window[k + 1]
  BY WithoutEntry
<1> HIDE DEF w
<1>2. /\ at \in [1..Len(w) -> 1..Len(window)]
      /\ \A k, l \in 1..Len(w) : at[k] = at[l] => k = l
      /\ \A k \in 1..Len(w) : w[k] = window[at[k]]
  BY <1>1
<1> HIDE DEF at
<1>3. window' = w
  BY DEF w
<1>4. WindowAwaitsQuorum'
  <2>1. /\ \A k \in 1..Len(w) :
             /\ w[k].first.sig = w[k].sig /\ w[k].first.canonical = w[k].canonical
             /\ w[k].sources \subseteq Reporters(w[k].sig, w[k].canonical)
             /\ Cardinality(w[k].sources) < Threshold
        /\ \A k, l \in 1..Len(w) : w[k].sig = w[l].sig => k = l
    <3>1. w \in Seq(Entry) /\ at \in [1..Len(w) -> 1..Len(window)]
      BY <1>1, <1>2
    <3>2. \A k, l \in 1..Len(w) : at[k] = at[l] => k = l
      BY <1>2
    <3>3. \A k \in 1..Len(w) : w[k] = window[at[k]]
      BY <1>2
    <3> QED
      BY <3>1, <3>2, <3>3, EntriesKept, Zenon
  <2>2. \A k \in 1..Len(window') :
          window'[k].sources \subseteq Reporters(window[k].sig, window[k].canonical)'
    <3> TAKE k \in 1..Len(window')
    <3>1. window'[k].sources \subseteq Reporters(window'[k].sig, window'[k].canonical)
      BY <1>3, <2>1
    <3> QED
      BY <3>1
  <2> QED
    BY <1>3, <2>1, <2>2 DEF WindowAwaitsQuorum
<1>5. ASSUME NEW j \in 1..Len(window), j # i
      PROVE  \E k \in 1..Len(w) : w[k] = window[j]
  <2>1. CASE j < i
    BY <1>1, <2>1
  <2>2. CASE ~ (j < i)
    <3>1. j - 1 \in 1..Len(w) /\ ~ (j - 1 < i) /\ (j - 1) + 1 = j
      BY <1>1, <1>5, <2>2
    <3> QED
      BY <1>1, <3>1
  <2> QED
    BY <2>1, <2>2
<1> QED
  BY <1>1, <1>3, <1>4, <1>5

\* Any transaction but the reported one is accounted for as it was, if its
\* entry is still there.
LEMMA OthersAccounted ==
  ASSUME NEW u \in Update, NEW sig, sig # u.sig, Accounted(sig), emitted = NoUpdate,
         NEW s \in Endpoint, reports' = reports \cup {<<s, u>>},
         UNCHANGED <<writing, ingested, rejected, skipped>>,
         conflicts \subseteq conflicts', dropped \subseteq dropped',
         \A j \in 1..Len(window) : window[j].sig = sig =>
            sig \in dropped' \/ \E k \in 1..Len(window') : window'[k] = window[j]
  PROVE  Accounted(sig)'
<1>1. Reporters(sig, "true")' = Reporters(sig, "true")
  <2>1. Reporters(sig, "true")' = Reporters(sig, "true") \cup
          IF sig = u.sig /\ "true" = u.canonical THEN {s} ELSE {}
    BY ReportersGrow
  <2> QED
    BY <2>1
<1>2. CASE Settled(sig)
  BY <1>2, StaysSettled DEF Accounted
<1>3. CASE ~ Settled(sig) /\ Reporters(sig, "true") = {}
  BY <1>1, <1>3 DEF Accounted
<1>4. ASSUME NEW j \in 1..Len(window), window[j].sig = sig, window[j].canonical = "true",
             Reporters(sig, "true") \subseteq window[j].sources
      PROVE  Accounted(sig)'
  <2>1. CASE sig \in dropped'
    BY <2>1 DEF Accounted, Settled
  <2>2. CASE \E k \in 1..Len(window') : window'[k] = window[j]
    BY <1>1, <1>4, <2>2 DEF Accounted
  <2> QED
    BY <1>4, <2>1, <2>2
<1> QED
  BY <1>2, <1>3, <1>4 DEF Accounted

LEMMA InsertNewInv ==
  ASSUME IngestInv, Configured, NEW s, NEW u \in Update, NEW intact, InsertNew(s, u, intact),
         UNCHANGED <<wallets, writing, rows, ingested, rejected, skipped, pending>>
  PROVE  IngestInv'
<1> USE DEF IngestInv
<1> DEFINE entry == [sig |-> u.sig, canonical |-> u.canonical, sources |-> {s}, first |-> u]
           full == Len(window) >= WindowSize
           w == IF full THEN Tail(window) ELSE window
           at == [k \in 1..Len(w) |-> IF full THEN k + 1 ELSE k]
<1>1. /\ Feed(s, u, intact) /\ emitted = NoUpdate /\ emitted' = NoUpdate /\ s \in Endpoint
      /\ reports' = reports \cup {<<s, u>>} /\ conflicts' = conflicts
      /\ EntryOf(u.sig) = {} /\ window' = Append(w, entry)
      /\ dropped' = IF full THEN dropped \cup {window[1].sig} ELSE dropped
  BY DEF InsertNew, Feed, Verified
<1>2. window \in Seq(Entry) /\ (full => window # <<>>)
  <2>1. window \in Seq(Entry)
    BY DEF IngestTypeOK
  <2>2. full => Len(window) >= 2
    BY <2>1, ThresholdIsPositive, GeyserAssumption
  <2> QED
    BY <2>1, <2>2
<1>3. entry \in Entry /\ entry.sig = u.sig /\ entry.canonical = u.canonical
      /\ entry.sources = {s} /\ entry.first = u
  BY <1>1 DEF Entry, Update
<1> HIDE DEF entry
<1>4. /\ w \in Seq(Entry) /\ Len(w) = (IF full THEN Len(window) - 1 ELSE Len(window))
      /\ \A k \in 1..Len(w) : w[k] = window[IF full THEN k + 1 ELSE k]
  BY <1>2
<1>5. /\ at \in [1..Len(w) -> 1..Len(window)]
      /\ \A k, l \in 1..Len(w) : at[k] = at[l] => k = l
      /\ \A k \in 1..Len(w) : w[k] = window[at[k]]
  <2> HIDE DEF w
  <2>1. ASSUME NEW k \in 1..Len(w)
        PROVE  (IF full THEN k + 1 ELSE k) \in 1..Len(window)
    BY <1>2, <1>4
  <2> QED
    BY <1>4, <2>1
<1> HIDE DEF w, at
<1>6. /\ \A k \in 1..Len(w) :
           /\ w[k].first.sig = w[k].sig /\ w[k].first.canonical = w[k].canonical
           /\ w[k].sources \subseteq Reporters(w[k].sig, w[k].canonical)
           /\ Cardinality(w[k].sources) < Threshold
      /\ \A k, l \in 1..Len(w) : w[k].sig = w[l].sig => k = l
  BY <1>2, <1>4, <1>5, EntriesKept
<1>7. /\ window' \in Seq(Entry) /\ Len(window') = Len(w) + 1 /\ Len(w) \in Nat
      /\ window'[Len(w) + 1] = entry /\ \A k \in 1..Len(w) : window'[k] = w[k]
  BY <1>1, <1>3, <1>4
<1>8. \A j \in 1..Len(window) : window[j].sig # u.sig
  BY <1>1, <1>2 DEF EntryOf
<1>9. \A sig, c : Reporters(sig, c)' =
        Reporters(sig, c) \cup IF sig = u.sig /\ c = u.canonical THEN {s} ELSE {}
  BY <1>1, ReportersGrow
<1>10. WindowAwaitsQuorum'
  <2>1. \A k \in 1..Len(window') : k = Len(w) + 1 \/ k \in 1..Len(w)
    BY <1>7
  <2>2. \A k \in 1..Len(w) : w[k].sig # u.sig
    BY <1>5, <1>8
  <2>3. ASSUME NEW k \in 1..Len(window')
        PROVE  /\ window'[k].first.sig = window'[k].sig
               /\ window'[k].first.canonical = window'[k].canonical
               /\ window'[k].sources \subseteq Reporters(window[k].sig, window[k].canonical)'
               /\ Cardinality(window'[k].sources) < Threshold
    <3>1. CASE k = Len(w) + 1
      <4>1. {s} \subseteq Reporters(window[k].sig, window[k].canonical)'
        <5>1. window'[k].sig = u.sig /\ window'[k].canonical = u.canonical
          BY <1>3, <1>7, <3>1
        <5>2. Reporters(window[k].sig, window[k].canonical)' =
                Reporters(window'[k].sig, window'[k].canonical) \cup {s}
          BY <1>9, <5>1
        <5> QED
          BY <5>2
      <4>2. Cardinality({s}) = 1
        BY FS_Singleton
      <4>3. /\ window'[k].first = u /\ window'[k].sig = u.sig
            /\ window'[k].canonical = u.canonical /\ window'[k].sources = {s}
        BY <1>3, <1>7, <3>1
      <4>4. Cardinality(window'[k].sources) < Threshold
        BY <4>2, <4>3, ThresholdIsPositive
      <4> QED
        BY <4>1, <4>3, <4>4
    <3>2. CASE k \in 1..Len(w)
      <4>1. window'[k] = w[k]
        BY <1>7, <3>2
      <4>2. window'[k].sources \subseteq Reporters(window'[k].sig, window'[k].canonical)
        BY <1>6, <3>2, <4>1
      <4>3. window'[k].sources \subseteq Reporters(window[k].sig, window[k].canonical)'
        BY <1>9, <4>2
      <4> QED
        BY <1>6, <3>2, <4>1, <4>3
    <3> QED
      BY <2>1, <3>1, <3>2
  <2>4. ASSUME NEW k \in 1..Len(window'), NEW l \in 1..Len(window'), window'[k].sig = window'[l].sig
        PROVE  k = l
    BY <1>3, <1>6, <1>7, <2>1, <2>2, <2>4
  <2> QED
    BY <2>3, <2>4 DEF WindowAwaitsQuorum
<1>11. dropped \subseteq dropped'
  BY <1>1
<1>12. ASSUME NEW sig \in OnChain
       PROVE  Accounted(sig)'
  <2>1. CASE sig # u.sig
    <3>1. ASSUME NEW j \in 1..Len(window), window[j].sig = sig
          PROVE  sig \in dropped' \/ \E k \in 1..Len(window') : window'[k] = window[j]
      <4>1. CASE full /\ j = 1
        BY <1>1, <3>1, <4>1
      <4>2. CASE full /\ j # 1
        <5>1. j - 1 \in 1..Len(w) /\ w[j - 1] = window[j]
          BY <1>2, <1>4, <4>2
        <5>2. j - 1 \in 1..Len(window') /\ window'[j - 1] = window[j]
          BY <1>7, <5>1
        <5> QED
          BY <5>2
      <4>3. CASE ~ full
        <5>1. j \in 1..Len(w) /\ w[j] = window[j]
          BY <1>2, <1>4, <4>3
        <5>2. j \in 1..Len(window') /\ window'[j] = window[j]
          BY <1>7, <5>1
        <5> QED
          BY <5>2
      <4> QED
        BY <4>1, <4>2, <4>3
    <3> QED
      BY <1>1, <1>11, <2>1, <3>1, OthersAccounted
  <2>2. CASE sig = u.sig
    <3>1. Settled(sig) \/ Reporters(sig, "true") = {}
      BY <1>8, <2>2 DEF Accounted
    <3>2. CASE Settled(sig)
      BY <1>1, <1>11, <3>2, StaysSettled DEF Accounted
    <3>3. CASE Reporters(sig, "true") = {}
      <4>1. Reporters(sig, "true")' = IF "true" = u.canonical THEN {s} ELSE {}
        BY <1>9, <2>2, <3>3
      <4>2. CASE u.canonical = "true"
        <5>1. Len(w) + 1 \in 1..Len(window') /\ window'[Len(w) + 1] = entry
          BY <1>7
        <5> QED
          BY <1>3, <2>2, <4>1, <4>2, <5>1 DEF Accounted
      <4>3. CASE u.canonical # "true"
        BY <4>1, <4>3 DEF Accounted
      <4> QED
        BY <4>2, <4>3
    <3> QED
      BY <3>1, <3>2, <3>3
  <2> QED
    BY <2>1, <2>2
<1> QED
  BY <1>1, <1>7, <1>10, <1>11, <1>12, FeedKeeps

LEMMA RecordConflictInv ==
  ASSUME IngestInv, NEW s, NEW u \in Update, NEW intact, RecordConflict(s, u, intact),
         UNCHANGED <<wallets, writing, rows, ingested, rejected, skipped, pending>>
  PROVE  IngestInv'
<1> USE DEF IngestInv
<1>1. PICK i \in EntryOf(u.sig) : window' = Without(i)
  BY DEF RecordConflict
<1>2. /\ Feed(s, u, intact) /\ emitted = NoUpdate /\ emitted' = NoUpdate /\ s \in Endpoint
      /\ reports' = reports \cup {<<s, u>>} /\ conflicts' = conflicts \cup {u.sig}
      /\ dropped' = dropped
  BY DEF RecordConflict, Feed, Verified
<1>3. window \in Seq(Entry) /\ i \in 1..Len(window) /\ window[i].sig = u.sig
  BY <1>1 DEF EntryOf, IngestTypeOK
<1>4. \A sig, c : Reporters(sig, c) \subseteq Reporters(sig, c)'
  BY <1>2, ReportersGrow
<1>5. /\ window' \in Seq(Entry) /\ WindowAwaitsQuorum'
      /\ \A j \in 1..Len(window) : j # i => \E k \in 1..Len(window') : window'[k] = window[j]
  BY <1>1, <1>3, <1>4, WithoutKeeps
<1>6. ASSUME NEW sig \in OnChain
      PROVE  Accounted(sig)'
  <2>1. CASE sig # u.sig
    <3>1. \A j \in 1..Len(window) : window[j].sig = sig => j # i
      BY <1>3, <2>1
    <3> QED
      BY <1>2, <1>5, <2>1, <3>1, OthersAccounted
  <2>2. CASE sig = u.sig
    BY <1>2, <2>2 DEF Accounted, Settled
  <2> QED
    BY <2>1, <2>2
<1> QED
  BY <1>2, <1>5, <1>6, FeedKeeps

\* The one entry of the transaction gains the reporter, or is given out as
\* soon as enough report the same bytes.
LEMMA AgreeInv ==
  ASSUME IngestInv, Configured, NEW s, NEW u \in Update, NEW intact, Agree(s, u, intact),
         UNCHANGED <<wallets, writing, rows, ingested, rejected, skipped, pending>>
  PROVE  IngestInv'
<1> USE DEF IngestInv
<1> DEFINE joined(i) == window[i].sources \cup {s}
<1>1. PICK i \in EntryOf(u.sig) :
        /\ window[i].canonical = u.canonical
        /\ IF Cardinality(joined(i)) >= Threshold
           THEN window' = Without(i) /\ emitted' = window[i].first
           ELSE window' = [window EXCEPT ![i].sources = joined(i)] /\ UNCHANGED emitted
  BY Zenon DEF Agree
<1>2. /\ Feed(s, u, intact) /\ emitted = NoUpdate /\ s \in Endpoint
      /\ reports' = reports \cup {<<s, u>>} /\ conflicts' = conflicts /\ dropped' = dropped
  BY DEF Agree, Feed, Verified
<1>3. /\ window \in Seq(Entry) /\ i \in 1..Len(window) /\ window[i] \in Entry
      /\ window[i].sig = u.sig
  BY <1>1 DEF EntryOf, IngestTypeOK
<1>4. \A sig, c : Reporters(sig, c)' =
        Reporters(sig, c) \cup IF sig = u.sig /\ c = u.canonical THEN {s} ELSE {}
  BY <1>2, ReportersGrow
<1>5. joined(i) \in SUBSET Endpoint /\ joined(i) \subseteq Reporters(u.sig, u.canonical)'
  <2>1. window[i].sources \subseteq Reporters(u.sig, u.canonical)
    BY <1>1, <1>3 DEF WindowAwaitsQuorum
  <2> QED
    BY <1>2, <1>3, <1>4, <2>1 DEF Entry
<1>6. \A sig \in OnChain : sig # u.sig =>
        \A j \in 1..Len(window) : window[j].sig = sig => j # i
  BY <1>3
<1>7. CASE Cardinality(joined(i)) >= Threshold
  <2>1. window' = Without(i) /\ emitted' = window[i].first
    BY <1>1, <1>7
  <2>2. window[i].first \in Update /\ window[i].first.sig = u.sig
        /\ window[i].first.canonical = u.canonical
    BY <1>1, <1>3 DEF Entry, WindowAwaitsQuorum
  <2>3. emitted' # NoUpdate /\ emitted'.sig = u.sig /\ emitted'.canonical = u.canonical
    BY <2>1, <2>2, GeyserAssumption
  <2>4. Agreed(emitted.sig, emitted.canonical)'
    <3>1. Reporters(u.sig, u.canonical)' \subseteq Endpoint
      BY DEF Reporters
    <3>2. IsFiniteSet(Reporters(u.sig, u.canonical)')
      BY <3>1, FS_Subset, GeyserAssumption
    <3>3. Cardinality(joined(i)) <= Cardinality(Reporters(u.sig, u.canonical)')
          /\ IsFiniteSet(joined(i))
      BY <1>5, <3>2, FS_Subset
    <3>4. Cardinality(joined(i)) \in Nat /\ Cardinality(Reporters(u.sig, u.canonical)') \in Nat
      BY <3>2, <3>3, FS_CardinalityType
    <3>5. Cardinality(Reporters(u.sig, u.canonical)') >= Threshold
      BY <1>7, <3>3, <3>4, ThresholdIsPositive
    <3>6. Agreed(emitted.sig, emitted.canonical)' <=>
            Cardinality(Reporters(emitted.sig, emitted.canonical)') >= Threshold
      BY DEF Agreed, Threshold, StrictMajority
    <3>7. Reporters(emitted.sig, emitted.canonical)' =
            Reporters(emitted'.sig, emitted'.canonical) \cup {s}
      BY <1>4, <2>3
    <3>8. Reporters(u.sig, u.canonical)' = Reporters(u.sig, u.canonical) \cup {s}
      BY <1>4
    <3> QED
      BY <2>3, <3>5, <3>6, <3>7, <3>8
  <2>5. \A sig, c : Reporters(sig, c) \subseteq Reporters(sig, c)'
    BY <1>4
  <2>6. /\ window' \in Seq(Entry) /\ WindowAwaitsQuorum'
        /\ \A j \in 1..Len(window) : j # i => \E k \in 1..Len(window') : window'[k] = window[j]
    BY <1>3, <2>1, <2>5, WithoutKeeps
  <2>7. ASSUME NEW sig \in OnChain
        PROVE  Accounted(sig)'
    <3>1. CASE sig # u.sig
      BY <1>2, <1>6, <2>6, <3>1, OthersAccounted
    <3>2. CASE sig = u.sig
      BY <2>3, <3>2 DEF Accounted, Settled
    <3> QED
      BY <3>1, <3>2
  <2>8. emitted' \in Update
    BY <2>1, <2>2
  <2> QED
    BY <1>2, <2>4, <2>6, <2>7, <2>8, FeedKeeps
<1>8. CASE ~ (Cardinality(joined(i)) >= Threshold)
  <2> DEFINE entry == [window[i] EXCEPT !.sources = joined(i)]
  <2>1. window' = [window EXCEPT ![i] = entry] /\ emitted' = emitted
    BY <1>1, <1>8
  <2>2. entry \in Entry /\ entry.sig = u.sig /\ entry.canonical = u.canonical
        /\ entry.sources = joined(i) /\ entry.first = window[i].first
    BY <1>1, <1>3, <1>5 DEF Entry
  <2> HIDE DEF entry, joined
  <2>3. /\ window' \in Seq(Entry) /\ Len(window') = Len(window) /\ window'[i] = entry
        /\ \A j \in 1..Len(window) : j # i => window'[j] = window[j]
    BY <1>3, <2>1, <2>2
  <2>4. Cardinality(joined(i)) < Threshold
    <3>1. IsFiniteSet(joined(i))
      BY <1>5, FS_Subset, GeyserAssumption
    <3>2. Cardinality(joined(i)) \in Nat
      BY <3>1, FS_CardinalityType
    <3> QED
      BY <1>8, <3>2, ThresholdIsPositive
  <2>5. WindowAwaitsQuorum'
    <3>1. ASSUME NEW j \in 1..Len(window')
          PROVE  /\ window'[j].first.sig = window'[j].sig
                 /\ window'[j].first.canonical = window'[j].canonical
                 /\ window'[j].sources \subseteq Reporters(window[j].sig, window[j].canonical)'
                 /\ Cardinality(window'[j].sources) < Threshold
      <4>1. Reporters(window'[j].sig, window'[j].canonical) \subseteq
              Reporters(window[j].sig, window[j].canonical)'
        BY <1>4
      <4>2. CASE j = i
        <5>1. Reporters(window[j].sig, window[j].canonical)' =
                Reporters(window'[j].sig, window'[j].canonical) \cup {s}
          BY <1>4, <2>2, <2>3, <4>2
        <5>2. Reporters(u.sig, u.canonical)' = Reporters(u.sig, u.canonical) \cup {s}
          BY <1>4
        <5>3. window'[j].sources \subseteq Reporters(window[j].sig, window[j].canonical)'
          BY <1>5, <2>2, <2>3, <4>2, <5>1, <5>2
        <5>4. window[i].first.sig = u.sig /\ window[i].first.canonical = u.canonical
          BY <1>1, <1>3 DEF WindowAwaitsQuorum
        <5> QED
          BY <2>2, <2>3, <2>4, <4>2, <5>3, <5>4
      <4>3. CASE j # i
        <5>1. /\ window[j].first.sig = window[j].sig
              /\ window[j].first.canonical = window[j].canonical
              /\ window[j].sources \subseteq Reporters(window[j].sig, window[j].canonical)
              /\ Cardinality(window[j].sources) < Threshold
          BY <2>3 DEF WindowAwaitsQuorum
        <5>2. window'[j] = window[j]
          BY <2>3, <4>3
        <5> QED
          BY <4>1, <5>1, <5>2
      <4> QED
        BY <4>2, <4>3
    <3>2. ASSUME NEW j \in 1..Len(window'), NEW k \in 1..Len(window'),
                 window'[j].sig = window'[k].sig
          PROVE  j = k
      <4>1. \A l \in 1..Len(window) : window'[l].sig = window[l].sig
        BY <1>3, <2>2, <2>3
      <4> QED
        BY <2>3, <3>2, <4>1 DEF WindowAwaitsQuorum
    <3> QED
      BY <3>1, <3>2 DEF WindowAwaitsQuorum
  <2>6. ASSUME NEW sig \in OnChain
        PROVE  Accounted(sig)'
    <3>1. CASE sig # u.sig
      <4>1. \A j \in 1..Len(window) : window[j].sig = sig =>
              \E k \in 1..Len(window') : window'[k] = window[j]
        BY <1>6, <2>3, <3>1
      <4> QED
        BY <1>2, <3>1, <4>1, OthersAccounted
    <3>2. CASE sig = u.sig
      <4>1. CASE Settled(sig)
        BY <1>2, <4>1, StaysSettled DEF Accounted
      <4>2. CASE ~ Settled(sig) /\ u.canonical # "true"
        <5>1. Reporters(sig, "true")' = Reporters(sig, "true")
          <6>1. Reporters(sig, "true")' = Reporters(sig, "true") \cup
                  IF sig = u.sig /\ "true" = u.canonical THEN {s} ELSE {}
            BY <1>4
          <6> QED
            BY <4>2, <6>1
        <5>2. ASSUME NEW j \in 1..Len(window), window[j].sig = sig, window[j].canonical = "true"
              PROVE  FALSE
          <6>1. j = i
            BY <1>3, <3>2, <5>2 DEF WindowAwaitsQuorum
          <6> QED
            BY <1>1, <4>2, <5>2, <6>1
        <5>3. Reporters(sig, "true") = {}
          BY <4>2, <5>2 DEF Accounted
        <5> QED
          BY <5>1, <5>3 DEF Accounted
      <4>3. CASE ~ Settled(sig) /\ u.canonical = "true"
        <5>1. Reporters(sig, "true")' = Reporters(sig, "true") \cup {s}
          BY <1>4, <3>2, <4>3
        <5>2. Reporters(sig, "true") \subseteq window[i].sources
          <6>1. ASSUME NEW j \in 1..Len(window), window[j].sig = sig,
                       Reporters(sig, "true") \subseteq window[j].sources
                PROVE  Reporters(sig, "true") \subseteq window[i].sources
            <7>1. j = i
              BY <1>3, <3>2, <6>1 DEF WindowAwaitsQuorum
            <7> QED
              BY <6>1, <7>1
          <6> QED
            BY <4>3, <6>1 DEF Accounted
        <5>3. Reporters(sig, "true")' \subseteq window'[i].sources
          BY <2>2, <2>3, <5>1, <5>2 DEF joined
        <5>4. window'[i].sig = sig /\ window'[i].canonical = "true" /\ i \in 1..Len(window')
          BY <1>3, <2>2, <2>3, <3>2, <4>3
        <5> QED
          BY <5>3, <5>4 DEF Accounted
      <4> QED
        BY <4>1, <4>2, <4>3
    <3> QED
      BY <3>1, <3>2
  <2>7. emitted' = NoUpdate
    BY <1>2, <2>1
  <2> QED
    BY <1>2, <2>3, <2>5, <2>6, <2>7, FeedKeeps
<1> QED
  BY <1>7, <1>8

-----------------------------------------------------------------------------
(* The indexer behind the gate.                                            *)

\* What is not about the window: it is enough that what was settled stays so.
LEMMA WindowUntouched ==
  ASSUME IngestInv, UNCHANGED <<window, reports>>, \A sig \in OnChain : Settled(sig) => Settled(sig)'
  PROVE  WindowAwaitsQuorum' /\ \A sig \in OnChain : Accounted(sig)'
<1>1. \A sig, c : Reporters(sig, c)' = Reporters(sig, c)
  BY DEF Reporters
<1>2. WindowAwaitsQuorum'
  <2>1. window' = window
    OBVIOUS
  <2>2. \A i \in 1..Len(window) : Reporters(window[i].sig, window[i].canonical)' =
                                   Reporters(window[i].sig, window[i].canonical)
    BY <1>1
  <2> QED
    BY <2>1, <2>2 DEF IngestInv, WindowAwaitsQuorum
<1>3. \A sig \in OnChain : Accounted(sig)'
  BY <1>1 DEF IngestInv, Accounted
<1> QED
  BY <1>2, <1>3

\* With fewer than a quorum of faulty endpoints, what a quorum reports is the
\* truth: one of them is honest.
LEMMA AgreedIsTrue ==
  ASSUME IngestInv, Configured, Cardinality(Faulty) < Threshold, NEW u, Agreed(u.sig, u.canonical)
  PROVE  Sound(u)
<1> DEFINE R == Reporters(u.sig, u.canonical)
<1>1. R \subseteq Endpoint /\ Cardinality(R) >= Threshold
  BY DEF Reporters, Agreed
<1>2. IsFiniteSet(R) /\ IsFiniteSet(Faulty)
  BY <1>1, FS_Subset, GeyserAssumption
<1>3. Cardinality(R) \in Nat /\ Cardinality(Faulty) \in Nat /\ Threshold \in Nat
  BY <1>2, FS_CardinalityType, ThresholdIsPositive
<1>4. PICK t \in R : t \notin Faulty
  <2>1. CASE R \subseteq Faulty
    <3>1. Cardinality(R) <= Cardinality(Faulty)
      BY <1>2, <2>1, FS_Subset
    <3> HIDE DEF R
    <3> QED
      BY <1>1, <1>3, <3>1
  <2> QED
    BY <2>1
<1>5. PICK r \in reports : r[1] = t /\ r[2].sig = u.sig /\ r[2].canonical = u.canonical
  BY <1>4 DEF Reporters
<1>6. Signs(r[1], r[2]) /\ t \in Endpoint
  BY <1>1, <1>4 DEF IngestInv, SourcesAreTrue
<1>7. r[2].sig \in OnChain /\ r[2] = Truth(r[2].sig)
  BY <1>4, <1>5, <1>6 DEF Signs
<1>8. r[2].canonical = "true"
  BY <1>7 DEF Truth
<1> QED
  BY <1>5, <1>7, <1>8 DEF Sound

\* The writer starts on an update, or skips it.
LEMMA StartWritingKeeps ==
  ASSUME IngestInv, NEW u \in Update, NEW path \in Path, writing = NoWrite, StartWriting(u, path),
         Cardinality(Faulty) < Threshold => Sound(u)
  PROVE  /\ writing' \in Write \cup {NoWrite}
         /\ Cardinality(Faulty) < Threshold => (writing' # NoWrite => Sound(writing'.update))
         /\ skipped \subseteq skipped'
         /\ \/ u.sig \in skipped'
            \/ writing' # NoWrite /\ writing'.path = path /\ writing'.update = u
<1> DEFINE agents == Touches[u.sig] \cap wallets
           w == [update |-> u, path |-> path, left |-> agents]
<1>1. CASE agents = {}
  BY <1>1 DEF StartWriting
<1>2. CASE agents # {}
  <2>1. writing' = w /\ skipped' = skipped
    BY <1>2 DEF StartWriting
  <2>2. agents \in SUBSET Agent
    BY DEF IngestInv, IngestTypeOK
  <2>3. w.update = u /\ w.path = path /\ w.left = agents /\ w \in Write
    BY <2>2 DEF Write
  <2> HIDE DEF w
  <2>4. w # NoWrite
    <3>1. NoWrite.left = {}
      BY DEF NoWrite
    <3> QED
      BY <1>2, <2>3, <3>1
  <2> QED
    BY <2>1, <2>3, <2>4
<1> QED
  BY <1>1, <1>2

LEMMA CrossVerifyInv ==
  ASSUME IngestInv, Configured, NEW sampled, NEW answered, CrossVerify(sampled, answered)
  PROVE  IngestInv'
<1> USE DEF IngestInv
<1>1. /\ emitted # NoUpdate /\ writing = NoWrite /\ emitted' = NoUpdate
      /\ UNCHANGED <<window, conflicts, dropped, reports, wallets, rows, ingested, pending>>
  BY DEF CrossVerify
<1>2. emitted \in Update /\ (Cardinality(Faulty) < Threshold => Sound(emitted))
  BY <1>1, AgreedIsTrue DEF IngestTypeOK, SourcesAreTrue
<1>3. /\ writing' \in Write \cup {NoWrite}
      /\ Cardinality(Faulty) < Threshold => (writing' # NoWrite => Sound(writing'.update))
      /\ rejected \subseteq rejected' /\ skipped \subseteq skipped'
      /\ \/ emitted.sig \in rejected' \cup skipped'
         \/ writing' # NoWrite /\ writing'.path = "geyser" /\ writing'.update = emitted
  <2>1. CASE sampled /\ ~ RpcAgrees(emitted, answered)
    BY <1>1, <2>1 DEF CrossVerify
  <2>2. CASE ~ (sampled /\ ~ RpcAgrees(emitted, answered))
    <3>1. StartWriting(emitted, "geyser") /\ rejected' = rejected
      BY <2>2 DEF CrossVerify
    <3>2. "geyser" \in Path
      BY DEF Path
    <3> QED
      BY <1>1, <1>2, <3>1, <3>2, StartWritingKeeps
  <2> QED
    BY <2>1, <2>2
<1>4. \A sig \in OnChain : Settled(sig) => Settled(sig)'
  BY <1>1, <1>3 DEF Settled
<1>5. WindowAwaitsQuorum' /\ \A sig \in OnChain : Accounted(sig)'
  BY <1>1, <1>4, WindowUntouched
<1>6. IngestTypeOK' /\ SourcesAreTrue'
  BY <1>1, <1>3 DEF IngestTypeOK, SourcesAreTrue
<1> QED
  BY <1>1, <1>5, <1>6

LEMMA DrainWebhookInv ==
  ASSUME IngestInv, NEW u \in pending, DrainWebhook(u)
  PROVE  IngestInv'
<1> USE DEF IngestInv
<1>1. /\ writing = NoWrite /\ pending' = pending \ {u}
      /\ StartWriting(u, "webhook")
      /\ UNCHANGED <<window, conflicts, dropped, emitted, reports>>
      /\ UNCHANGED <<wallets, rows, ingested, rejected>>
  BY DEF DrainWebhook, geyserVars
<1>2. u \in Update /\ Sound(u) /\ "webhook" \in Path
  BY DEF SourcesAreTrue, Path
<1>3. /\ writing' \in Write \cup {NoWrite} /\ skipped \subseteq skipped'
      /\ Cardinality(Faulty) < Threshold => (writing' # NoWrite => Sound(writing'.update))
  BY <1>1, <1>2, StartWritingKeeps
<1>4. \A sig \in OnChain : Settled(sig) => Settled(sig)'
  BY <1>1, <1>3 DEF Settled
<1>5. WindowAwaitsQuorum' /\ \A sig \in OnChain : Accounted(sig)'
  BY <1>1, <1>4, WindowUntouched
<1>6. IngestTypeOK'
  BY <1>1, <1>3 DEF IngestTypeOK
<1>7. SourcesAreTrue'
  <2>1. emitted' # NoUpdate => Agreed(emitted.sig, emitted.canonical)'
    BY <1>1 DEF SourcesAreTrue, Agreed, Reporters
  <2> QED
    BY <1>1, <1>3, <2>1 DEF SourcesAreTrue
<1> QED
  BY <1>1, <1>5, <1>6, <1>7

LEMMA InsertRowInv == IngestInv /\ InsertRow => IngestInv'
<1> SUFFICES ASSUME IngestInv, InsertRow PROVE IngestInv'
  OBVIOUS
<1> USE DEF IngestInv
<1> DEFINE u == writing.update
           row(a) == [agent |-> a, sig |-> u.sig, time |-> u.time, canonical |-> u.canonical]
<1>1. PICK a \in writing.left :
        /\ rows' = IF Taken(u) THEN rows ELSE rows \cup {row(a)}
        /\ ingested' = ingested \cup {<<a, u.sig, writing.path>>}
        /\ writing' = IF writing.left = {a} THEN NoWrite ELSE [writing EXCEPT !.left = @ \ {a}]
  BY DEF InsertRow
<1>2. /\ writing # NoWrite /\ writing \in Write
      /\ UNCHANGED <<window, conflicts, dropped, emitted, reports>>
      /\ UNCHANGED <<wallets, rejected, skipped, pending>>
  BY DEF InsertRow, geyserVars, IngestTypeOK
<1>3. a \in Agent /\ u \in Update
  BY <1>2 DEF Write
<1>4. writing' \in Write \cup {NoWrite} /\ (writing' # NoWrite => writing'.update = u)
  BY <1>1, <1>2 DEF Write
<1>5. row(a).sig = u.sig /\ row(a).canonical = u.canonical
  OBVIOUS
<1>6. \E r \in rows' : r.sig = u.sig
  <2>1. CASE Taken(u)
    BY <1>1, <2>1 DEF Taken
  <2>2. CASE ~ Taken(u)
    BY <1>1, <1>5, <2>2
  <2> QED
    BY <2>1, <2>2
<1>7. rows \subseteq rows' /\ \A r \in rows' : r \in rows \/ r = row(a)
  BY <1>1
<1> HIDE DEF row
<1>8. \A x \in ingested' : \E r \in rows' : r.sig = x[2]
  <2>1. TAKE x \in ingested'
  <2>2. CASE x \in ingested
    BY <1>7, <2>2
  <2>3. CASE x = <<a, u.sig, writing.path>>
    BY <1>6, <2>3
  <2> QED
    BY <1>1, <2>2, <2>3
<1>9. \A sig \in OnChain : Settled(sig) => Settled(sig)'
  <2>1. TAKE sig \in OnChain
  <2>2. CASE writing.path = "geyser" /\ u.sig = sig
    BY <1>1, <1>3, <2>2 DEF Settled
  <2>3. CASE ~ (writing.path = "geyser" /\ u.sig = sig)
    BY <1>1, <1>2, <2>3 DEF Settled
  <2> QED
    BY <2>2, <2>3
<1>10. WindowAwaitsQuorum' /\ \A sig \in OnChain : Accounted(sig)'
  BY <1>2, <1>9, WindowUntouched
<1>11. IngestTypeOK'
  BY <1>2, <1>4 DEF IngestTypeOK
<1>12. SourcesAreTrue'
  <2>1. emitted' # NoUpdate => Agreed(emitted.sig, emitted.canonical)'
    BY <1>2 DEF SourcesAreTrue, Agreed, Reporters
  <2>2. Cardinality(Faulty) < Threshold => Sound(u)
    BY <1>2 DEF SourcesAreTrue
  <2> HIDE DEF u
  <2>3. ASSUME Cardinality(Faulty) < Threshold
        PROVE  /\ writing' # NoWrite => Sound(writing'.update)
               /\ \A r \in rows' : r.canonical = "true" /\ r.sig \in OnChain
    BY <1>4, <1>5, <1>7, <2>2, <2>3 DEF SourcesAreTrue, Sound
  <2> QED
    BY <1>2, <2>1, <2>3 DEF SourcesAreTrue
<1> QED
  BY <1>8, <1>10, <1>11, <1>12

LEMMA OtherIngestInv ==
  ASSUME IngestInv,
         \/ \E a \in Agent, registered \in BOOLEAN : SetRegistered(a, registered)
         \/ \E sig \in Sig : AcceptWebhook(sig)
         \/ UNCHANGED ingestVars
  PROVE  IngestInv'
<1> USE DEF IngestInv
<1>1. /\ UNCHANGED <<window, conflicts, dropped, emitted, reports>>
      /\ UNCHANGED <<writing, rows, ingested, rejected, skipped>>
      /\ wallets' \subseteq Agent
      /\ \A u \in pending' : u \in pending \/ \E sig \in OnChain : u = Truth(sig)
  BY DEF SetRegistered, AcceptWebhook, ingestVars, geyserVars, IngestTypeOK
<1>2. \A sig \in OnChain : Settled(sig) => Settled(sig)'
  BY <1>1 DEF Settled
<1>3. WindowAwaitsQuorum' /\ \A sig \in OnChain : Accounted(sig)'
  BY <1>1, <1>2, WindowUntouched
<1>4. IngestTypeOK'
  BY <1>1 DEF IngestTypeOK
<1>5. \A sig \in OnChain : Truth(sig) \in Update /\ Sound(Truth(sig))
  BY GeyserAssumption DEF Truth, Update, Sound
<1>6. SourcesAreTrue'
  <2>1. emitted' # NoUpdate => Agreed(emitted.sig, emitted.canonical)'
    BY <1>1 DEF SourcesAreTrue, Agreed, Reporters
  <2>2. \A u \in pending' : u \in Update /\ Sound(u)
    BY <1>1, <1>5 DEF SourcesAreTrue
  <2> QED
    BY <1>1, <2>1, <2>2 DEF SourcesAreTrue
<1> QED
  BY <1>1, <1>3, <1>4, <1>6

-----------------------------------------------------------------------------
\* The inductive invariant of ingestion holds in every reachable state.
THEOREM IngestInvariant == IngestSpec => []IngestInv
<1>1. ASSUME IngestInv, Configured, [IngestNext]_ingestVars
      PROVE  IngestInv'
  <2>1. ASSUME NEW s \in Source, NEW u \in Update, NEW intact \in BOOLEAN, Receive(s, u, intact)
        PROVE  IngestInv'
    BY <1>1, <2>1, InsertNewInv, RecordConflictInv, AgreeInv DEF Receive
  <2> QED
    BY <1>1, <2>1, CrossVerifyInv, InsertRowInv, DrainWebhookInv, OtherIngestInv DEF IngestNext
<1>2. Configured => []Configured
  <2>1. Configured => Configured'
    BY DEF Configured, Threshold, StrictMajority, MinEndpoints
  <2> QED
    BY <2>1, PTL
<1> QED
  BY IngestStart, <1>1, <1>2, PTL DEF IngestSpec

\* While fewer endpoints than a quorum are faulty, every row the stream wrote
\* is the truth about a transaction that happened (consensus.py).
THEOREM StoredRowsAreTrue == IngestSpec => []StoredIsTrue
<1>1. IngestInv => StoredIsTrue
  BY DEF IngestInv, SourcesAreTrue, StoredIsTrue
<1> QED
  BY IngestInvariant, <1>1, PTL

\* Nothing a quorum of honest endpoints reported vanishes quietly: it is
\* stored, shows in one of the stream's counters, or is a divergence the
\* reconciler grades at least MEDIUM (consensus.py, reconciler.py).
THEOREM LossShows == IngestSpec => []LossIsVisible
<1>1. ASSUME IngestInv, Configured
      PROVE  LossIsVisible
  <2> SUFFICES ASSUME NEW sig \in OnChain,
                      Cardinality(Reporters(sig, "true") \ Faulty) >= Threshold,
                      ~ (emitted # NoUpdate /\ emitted.sig = sig),
                      ~ (writing # NoWrite /\ writing.update.sig = sig),
                      ~ \E a \in Agent : sig \in Delivered(a, "geyser") /\ \E r \in rows : r.sig = sig
               PROVE  /\ sig \in conflicts \cup dropped \cup rejected \cup skipped
                      /\ \A a \in Agent : sig \in Delivered(a, "webhook") =>
                           Reconciled(a) \in {"MEDIUM", "HIGH"}
    BY DEF LossIsVisible
  <2>1. IsFiniteSet(Endpoint) /\ Reporters(sig, "true") \subseteq Endpoint
    BY GeyserAssumption DEF Reporters
  <2>2. \A S \in SUBSET Reporters(sig, "true") : IsFiniteSet(S) /\ Cardinality(S) \in Nat
    BY <2>1, FS_Subset, FS_CardinalityType
  <2>3. Threshold \in Nat /\ Threshold >= 2
    BY <1>1, ThresholdIsPositive
  <2>4. Reporters(sig, "true") # {}
    <3>1. CASE Reporters(sig, "true") = {}
      <4>1. Reporters(sig, "true") \ Faulty = {}
        BY <3>1
      <4>2. Cardinality(Reporters(sig, "true") \ Faulty) = 0
        BY <4>1, FS_EmptySet
      <4> QED
        BY <2>3, <4>2
    <3> QED
      BY <3>1
  <2>5. ASSUME NEW i \in 1..Len(window), Reporters(sig, "true") \subseteq window[i].sources
        PROVE  FALSE
    <3> DEFINE H == Reporters(sig, "true") \ Faulty
    <3>1. window[i].sources \in SUBSET Endpoint /\ Cardinality(window[i].sources) < Threshold
      <4>1. window \in Seq(Entry)
        BY <1>1 DEF IngestInv, IngestTypeOK
      <4>2. window[i] \in Entry
        BY <4>1
      <4> QED
        BY <1>1, <4>2 DEF IngestInv, Entry, WindowAwaitsQuorum
    <3>2. IsFiniteSet(window[i].sources) /\ H \subseteq window[i].sources /\ H \subseteq Reporters(sig, "true")
      BY <2>1, <2>5, <3>1, FS_Subset
    <3>3. Cardinality(H) <= Cardinality(window[i].sources) /\ Cardinality(H) \in Nat
          /\ Cardinality(window[i].sources) \in Nat
      BY <2>2, <3>2, FS_Subset, FS_CardinalityType
    <3>4. Cardinality(H) >= Threshold
      OBVIOUS
    <3> HIDE DEF H
    <3> QED
      BY <2>3, <3>1, <3>3, <3>4
  <2>6. Settled(sig)
    BY <1>1, <2>4, <2>5 DEF IngestInv, Accounted
  <2>7. ASSUME NEW a \in Agent
        PROVE  sig \notin Delivered(a, "geyser")
    <3>1. sig \in Delivered(a, "geyser") => \E r \in rows : r.sig = sig
      <4>1. <<a, sig, "geyser">>[2] = sig
        OBVIOUS
      <4> QED
        BY <1>1, <4>1 DEF IngestInv, Delivered
    <3> QED
      BY <3>1
  <2>8. sig \in Sig
    BY GeyserAssumption
  <2>9. sig \in conflicts \cup dropped \cup rejected \cup skipped
    BY <2>6, <2>7, <2>8 DEF Settled, Delivered
  <2>10. ASSUME NEW a \in Agent, sig \in Delivered(a, "webhook")
         PROVE  Reconciled(a) \in {"MEDIUM", "HIGH"}
    <3> DEFINE W == Delivered(a, "webhook") \ Delivered(a, "geyser")
    <3>1. W \subseteq Sig /\ sig \in W
      BY <2>7, <2>10 DEF Delivered
    <3>2. IsFiniteSet(W)
      BY <3>1, FS_Subset, GeyserAssumption
    <3>3. Cardinality(W) \in Nat /\ Cardinality(W) # 0
      BY <3>1, <3>2, FS_CardinalityType, FS_EmptySet
    <3>4. Reconciled(a) = Classified(Cardinality(Delivered(a, "geyser") \ Delivered(a, "webhook")),
                                     Cardinality(W),
                                     Cardinality(Delivered(a, "geyser") \cap Delivered(a, "webhook")))
      BY DEF Reconciled
    <3> HIDE DEF W
    <3> QED
      BY <3>3, <3>4 DEF Classified
  <2> QED
    BY <2>9, <2>10
<1>2. Configured => []Configured
  <2>1. Configured => Configured'
    BY DEF Configured, Threshold, StrictMajority, MinEndpoints
  <2> QED
    BY <2>1, PTL
<1> QED
  BY IngestInvariant, <1>1, <1>2, PTL DEF IngestSpec

-----------------------------------------------------------------------------
(* The event bus.                                                          *)

Less == {d \in Nat \X Nat : d[1] < d[2]}

\* A non-empty set of natural numbers has a least one (n |-> 1..n carries <
\* to the well-founded inclusion).
LEMMA LeastNatural ==
  ASSUME NEW S \in SUBSET Nat, S # {}
  PROVE  \E x \in S : \A y \in S : x <= y
<1>1. ASSUME NEW i \in Nat, NEW j \in Nat, i < j
      PROVE  1..i \subseteq 1..j /\ 1..i # 1..j
  <2>1. j \in 1..j /\ j \notin 1..i
    BY <1>1
  <2> QED BY <1>1, <2>1
<1>2. IsWellFoundedOn(Less, Nat)
  <2> SUFFICES ASSUME NEW g \in [Nat -> Nat], \A n \in Nat : <<g[n+1], g[n]>> \in Less
               PROVE  FALSE
    BY DEF IsWellFoundedOn
  <2> DEFINE h == [n \in Nat |-> 1..g[n]]
  <2>1. h \in [Nat -> FiniteSubsetsOf(Nat)]
    <3>1. \A a \in Nat : 1..a \subseteq Nat /\ IsFiniteSet(1..a)
      BY FS_Interval
    <3> QED BY <3>1 DEF FiniteSubsetsOf
  <2>2. ASSUME NEW n \in Nat
        PROVE  <<h[n+1], h[n]>> \in StrictSubsetOrdering(Nat)
    <3>1. n+1 \in Nat
      OBVIOUS
    <3>2. g[n+1] \in Nat /\ g[n] \in Nat /\ g[n+1] < g[n]
      BY <3>1 DEF Less
    <3>3. h[n+1] = 1..g[n+1] /\ h[n] = 1..g[n]
      BY <3>1
    <3> HIDE DEF h
    <3>4. 1..g[n+1] \subseteq 1..g[n] /\ 1..g[n+1] # 1..g[n]
      BY <1>1, <3>2
    <3>5. 1..g[n+1] \in SUBSET Nat /\ 1..g[n] \in SUBSET Nat
      BY <3>2
    <3> QED BY <3>3, <3>4, <3>5 DEF StrictSubsetOrdering
  <2> HIDE DEF h
  <2> QED
    BY <2>1, <2>2, FS_StrictSubsetOrderingWellFounded DEF IsWellFoundedOn
<1>3. PICK x \in S : \A y \in S : ~ (<<y, x>> \in Less)
  BY <1>2, WFMin
<1>4. ASSUME NEW y \in S
      PROVE  x <= y
  <2>1. x \in Nat /\ y \in Nat
    OBVIOUS
  <2>2. ~ (y < x)
    BY <1>3, <2>1 DEF Less
  <2> QED BY <2>1, <2>2
<1> QED
  BY <1>4

\* So a batch has a first position, and At finds it.
LEMMA FirstOfBatch ==
  ASSUME NEW m \in Member, job[m].batch \subseteq Partition \X Nat, job[m].batch # {}
  PROVE  At(m) \in job[m].batch /\ \A y \in job[m].batch \ {At(m)} : Before(At(m), y)
<1> DEFINE batch == job[m].batch
           firsts == {x[1] : x \in batch}
<1>1. firsts \in SUBSET Nat /\ firsts # {}
  BY BusAssumption
<1>2. PICK p \in firsts : \A q \in firsts : p <= q
  <2> HIDE DEF firsts
  <2> QED BY <1>1, LeastNatural
<1> DEFINE seconds == {x[2] : x \in {y \in batch : y[1] = p}}
<1>3. seconds \in SUBSET Nat /\ seconds # {}
  BY <1>2
<1>4. PICK o \in seconds : \A k \in seconds : o <= k
  <2> HIDE DEF seconds
  <2> QED BY <1>3, LeastNatural
<1>5. PICK x \in batch : x[1] = p /\ x[2] = o
  BY <1>4
<1>6. ASSUME NEW y \in batch \ {x}
      PROVE  Before(x, y)
  <2>1. y[1] \in firsts /\ y = <<y[1], y[2]>> /\ x = <<x[1], x[2]>>
    OBVIOUS
  <2>2. y[1] \in Nat /\ y[2] \in Nat /\ p \in Nat /\ o \in Nat
    BY <1>1, <1>3, <2>1
  <2>3. p <= y[1]
    BY <1>2, <2>1
  <2>4. CASE y[1] = p
    <3>1. y[2] \in seconds
      BY <2>4
    <3>2. o <= y[2] /\ y[2] # o
      BY <1>4, <1>5, <2>1, <2>4, <3>1
    <3> QED
      BY <1>5, <2>2, <2>4, <3>2 DEF Before
  <2>5. CASE y[1] # p
    BY <1>5, <2>2, <2>3, <2>5 DEF Before
  <2> QED
    BY <2>4, <2>5
<1> QED
  BY <1>5, <1>6 DEF At

\* A finite set of offsets from a that has all the offsets between is an
\* interval as long as it is large.
LEMMA InitialSegment ==
  ASSUME NEW S \in SUBSET Nat, IsFiniteSet(S), NEW a \in Nat,
         \A x \in S : a <= x, \A x \in S : \A y \in Nat : a <= y /\ y <= x => y \in S
  PROVE  \A o \in Nat : o \in S <=> a <= o /\ o < a + Cardinality(S)
<1> DEFINE K == Cardinality(S)
           Missing == {n \in Nat : a <= n /\ n \notin S}
<1>1. K \in Nat
  BY FS_CardinalityType
<1>2. Missing # {}
  <2> SUFFICES ASSUME \A n \in Nat : a <= n => n \in S PROVE FALSE
    OBVIOUS
  <2>1. a..(a + K) \in SUBSET S
    BY <1>1
  <2>2. Cardinality(a..(a + K)) = K + 1
    BY <1>1, FS_Interval
  <2>3. Cardinality(a..(a + K)) <= K
    BY <2>1, FS_Subset
  <2> QED BY <1>1, <2>2, <2>3
<1>3. PICK c \in Missing : \A n \in Missing : c <= n
  <2>1. Missing \in SUBSET Nat
    OBVIOUS
  <2> HIDE DEF Missing
  <2> QED BY <1>2, <2>1, LeastNatural
<1>4. c \in Nat /\ a <= c /\ c \notin S
  OBVIOUS
<1>5. \A o \in Nat : o \in S <=> a <= o /\ o < c
  <2> TAKE o \in Nat
  <2>1. ASSUME o \in S PROVE a <= o /\ o < c
    BY <1>4, <2>1
  <2>2. ASSUME a <= o, o < c PROVE o \in S
    BY <1>3, <1>4, <2>2
  <2> QED BY <2>1, <2>2
<1>6. ASSUME NEW o \in Nat PROVE o \in a..(c - 1) <=> o \in S
  BY <1>4, <1>5
<1>7. S = a..(c - 1)
  <2>1. a..(c - 1) \subseteq Nat
    BY <1>4
  <2> QED BY <1>6, <2>1
<1>8. K = c - a
  <2>1. Cardinality(a..(c - 1)) = IF a > c - 1 THEN 0 ELSE c - a
    BY <1>4, FS_Interval
  <2> QED BY <1>4, <1>7, <2>1
<1> QED
  BY <1>4, <1>5, <1>8

\* What a consumer may read, and that it is no more than can be counted.
LEMMA UnreadCounted ==
  ASSUME NEW m \in DOMAIN group, group[m] \in SUBSET Partition,
         position \in [Partition -> Nat], log \in [Partition -> Seq(Incoming)]
  PROVE  /\ IsFiniteSet(Unread(m)) /\ Unread(m) \subseteq Partition \X Nat
         /\ \A p \in Partition, o \in Nat :
              <<p, o>> \in Unread(m) <=>
                p \in group[m] /\ position[p] <= o /\ o < Len(log[p])
<1> DEFINE Part(p) == {<<p, o>> : o \in position[p]..(Len(log[p]) - 1)}
           Parts == {Part(p) : p \in group[m]}
<1>1. /\ group[m] \in SUBSET Partition /\ position \in [Partition -> Nat]
      /\ log \in [Partition -> Seq(Incoming)]
  OBVIOUS
<1>2. \A p \in Partition : position[p] \in Nat /\ Len(log[p]) \in Nat
  BY <1>1
<1>3. Unread(m) = UNION Parts
  BY DEF Unread
<1>4. ASSUME NEW T \in Parts PROVE IsFiniteSet(T)
  <2>1. PICK p \in group[m] : T = Part(p)
    OBVIOUS
  <2> DEFINE I == position[p]..(Len(log[p]) - 1)
             f == [o \in I |-> <<p, o>>]
  <2>2. IsFiniteSet(I)
    BY <1>1, <1>2, FS_Interval
  <2>3. f \in Surjection(I, T)
    BY <2>1 DEF Surjection
  <2> HIDE DEF I, f
  <2> QED BY <2>2, <2>3, FS_Surjection
<1>5. IsFiniteSet(Parts)
  <2> DEFINE f == [p \in group[m] |-> Part(p)]
  <2>1. f \in Surjection(group[m], Parts)
    <3>1. f \in [group[m] -> Parts] /\ \A T \in Parts : \E p \in group[m] : f[p] = T
      OBVIOUS
    <3> HIDE DEF f, Parts
    <3> QED
      BY <3>1 DEF Surjection
  <2>2. IsFiniteSet(group[m])
    BY <1>1, BusAssumption, FS_Subset
  <2> HIDE DEF f, Parts
  <2> QED BY <2>1, <2>2, FS_Surjection
<1>6. IsFiniteSet(Unread(m))
  <2> HIDE DEF Parts
  <2> QED BY <1>3, <1>4, <1>5, FS_UNION
<1>7. ASSUME NEW p \in Partition, NEW o \in Nat
      PROVE  <<p, o>> \in Unread(m) <=> p \in group[m] /\ position[p] <= o /\ o < Len(log[p])
  <2>1. ASSUME NEW q \in group[m]
        PROVE  <<p, o>> \in Part(q) <=> p = q /\ position[p] <= o /\ o < Len(log[p])
    <3>1. o \in position[q]..(Len(log[q]) - 1) <=> position[q] <= o /\ o < Len(log[q])
      BY <1>1, <1>2
    <3>2. <<p, o>> \in Part(q) <=> p = q /\ o \in position[q]..(Len(log[q]) - 1)
      OBVIOUS
    <3> QED BY <3>1, <3>2
  <2> QED BY <1>3, <2>1
<1>8. Unread(m) \subseteq Partition \X Nat
  <2> SUFFICES ASSUME NEW x \in Unread(m) PROVE x \in Partition \X Nat
    OBVIOUS
  <2>1. PICK p \in group[m] : x \in Part(p)
    BY <1>3
  <2>2. PICK o \in position[p]..(Len(log[p]) - 1) : x = <<p, o>>
    BY <2>1
  <2>3. p \in Partition /\ o \in Nat
    BY <1>1, <1>2
  <2> QED BY <2>2, <2>3
<1> QED
  BY <1>6, <1>7, <1>8

LEMMA UnreadOf ==
  ASSUME BusTypeOK, NEW m \in DOMAIN group
  PROVE  /\ IsFiniteSet(Unread(m)) /\ Unread(m) \subseteq Partition \X Nat
         /\ \A p \in Partition, o \in Nat :
              <<p, o>> \in Unread(m) <=>
                p \in group[m] /\ position[p] <= o /\ o < Len(log[p])
BY UnreadCounted DEF BusTypeOK

\* A poll reads each of the consumer's partitions from its position on,
\* without a gap, and nothing else.
LEMMA PolledOf ==
  ASSUME BusTypeOK, NEW m \in DOMAIN group, NEW p \in Partition
  PROVE  LET n == Cardinality({x \in Polled(m) : x[1] = p})
         IN  /\ n \in Nat /\ (position[p] <= Len(log[p]) => position[p] + n <= Len(log[p]))
             /\ p \notin group[m] => n = 0
             /\ \A o \in Nat :
                  <<p, o>> \in Polled(m) <=>
                    p \in group[m] /\ position[p] <= o /\ o < position[p] + n
<1> DEFINE part == {x \in Polled(m) : x[1] = p}
           n == Cardinality(part)
           S == {o \in Nat : <<p, o>> \in Polled(m)}
<1>1. position[p] \in Nat /\ Len(log[p]) \in Nat /\ group[m] \in SUBSET Partition
  BY DEF BusTypeOK
<1>2. /\ IsFiniteSet(Unread(m)) /\ Unread(m) \subseteq Partition \X Nat
      /\ \A q \in Partition, o \in Nat :
           <<q, o>> \in Unread(m) <=> q \in group[m] /\ position[q] <= o /\ o < Len(log[q])
  BY UnreadOf
<1>3. Polled(m) \subseteq Unread(m)
  BY DEF Polled
<1>4. IsFiniteSet(part)
  BY <1>2, <1>3, FS_Subset
<1>5. IsFiniteSet(S) /\ Cardinality(S) = n
  <2> DEFINE f == [x \in part |-> x[2]]
  <2>1. \A x \in part : x = <<p, x[2]>> /\ x[2] \in Nat
    BY <1>2, <1>3
  <2>2. f \in [part -> S]
    <3>1. \A x \in part : x[2] \in S
      BY <2>1
    <3> QED BY <3>1
  <2>3. f \in Surjection(part, S)
    <3>1. \A o \in S : <<p, o>> \in part /\ f[<<p, o>>] = o
      OBVIOUS
    <3> QED BY <2>2, <3>1 DEF Surjection
  <2>4. f \in Injection(part, S)
    <3>1. \A x, y \in part : f[x] = f[y] => x = y
      BY <2>1
    <3>2. DOMAIN f = part
      OBVIOUS
    <3> HIDE DEF f
    <3> QED BY <2>2, <3>1, <3>2 DEF Injection, IsInjective
  <2>5. ExistsBijection(part, S)
    BY <2>3, <2>4 DEF ExistsBijection, Bijection
  <2> QED BY <1>4, <2>5, FS_Bijection
<1>6. ASSUME NEW x \in Nat, x \in S, NEW y \in Nat, position[p] <= y, y <= x
      PROVE  y \in S
  <2> DEFINE above(z) == {w \in Unread(m) : Before(w, z)}
  <2>1. <<p, x>> \in Unread(m) /\ Cardinality(above(<<p, x>>)) < MaxBatch
    BY <1>6 DEF Polled
  <2>2. <<p, y>> \in Unread(m)
    BY <1>1, <1>2, <1>6, <2>1
  <2>3. above(<<p, y>>) \subseteq above(<<p, x>>)
    <3> SUFFICES ASSUME NEW w \in Unread(m), Before(w, <<p, y>>)
                 PROVE  Before(w, <<p, x>>)
      OBVIOUS
    <3>1. w[1] \in Nat /\ w[2] \in Nat /\ p \in Nat
      BY <1>2, BusAssumption
    <3> QED
      BY <1>6, <3>1 DEF Before
  <2>4. IsFiniteSet(above(<<p, x>>))
    BY <1>2, FS_Subset
  <2>5. Cardinality(above(<<p, y>>)) <= Cardinality(above(<<p, x>>)) /\ IsFiniteSet(above(<<p, y>>))
    <3> HIDE DEF above
    <3> QED BY <2>3, <2>4, FS_Subset
  <2>6. Cardinality(above(<<p, x>>)) \in Nat /\ Cardinality(above(<<p, y>>)) \in Nat
    <3> HIDE DEF above
    <3> QED BY <2>4, <2>5, FS_CardinalityType
  <2>7. Cardinality(above(<<p, y>>)) < MaxBatch
    <3> HIDE DEF above
    <3> QED BY <2>1, <2>5, <2>6, BusAssumption
  <2>8. <<p, y>> \in Polled(m)
    BY <2>2, <2>7 DEF Polled
  <2> QED BY <2>8
<1>7. \A x \in S : position[p] <= x /\ x < Len(log[p]) /\ p \in group[m]
  BY <1>2, <1>3
<1>8. S \in SUBSET Nat
  OBVIOUS
<1>9. \A o \in Nat : o \in S <=> position[p] <= o /\ o < position[p] + n
  <2> HIDE DEF S, n
  <2>1. \A x \in S : \A y \in Nat : position[p] <= y /\ y <= x => y \in S
    BY <1>6, <1>8
  <2> QED
    BY <1>1, <1>5, <1>7, <1>8, <2>1, InitialSegment
<1>10. n \in Nat
  BY <1>4, FS_CardinalityType
<1>11. ASSUME position[p] <= Len(log[p]) PROVE position[p] + n <= Len(log[p])
  <2>1. CASE n = 0
    BY <1>1, <1>11, <2>1
  <2>2. CASE n # 0
    <3>1. position[p] + n - 1 \in Nat
      BY <1>1, <1>10, <2>2
    <3>2. position[p] + n - 1 \in S
      <4> HIDE DEF S, n
      <4> QED BY <1>1, <1>9, <1>10, <2>2, <3>1
    <3>3. position[p] + n - 1 < Len(log[p])
      <4> HIDE DEF S, n
      <4> QED BY <1>7, <3>2
    <3> HIDE DEF n
    <3> QED BY <1>1, <1>10, <3>3
  <2> HIDE DEF n
  <2> QED BY <2>1, <2>2
<1>12. p \notin group[m] => n = 0
  <2>1. p \notin group[m] => part = {}
    <3> SUFFICES ASSUME NEW x \in part PROVE p \in group[m]
      OBVIOUS
    <3>1. x \in Unread(m) /\ x[1] = p
      BY <1>3
    <3>2. x = <<p, x[2]>> /\ x[2] \in Nat
      BY <1>2, <3>1
    <3> QED BY <1>2, <3>1, <3>2
  <2> QED BY <2>1, FS_EmptySet
<1> HIDE DEF n
<1>13. \A o \in Nat : <<p, o>> \in Polled(m) <=>
                        p \in group[m] /\ position[p] <= o /\ o < position[p] + n
  BY <1>7, <1>9
<1> QED
  BY <1>10, <1>11, <1>12, <1>13 DEF n

\* No partition has two owners after a rebalance.
LEMMA RebalancedOnce ==
  ASSUME NEW M \in SUBSET Member, IsFiniteSet(M)
  PROVE  /\ Rebalanced(M) \in [M -> SUBSET Partition]
         /\ \A c, d \in M : c # d => Rebalanced(M)[c] \cap Rebalanced(M)[d] = {}
<1> DEFINE below(m) == {c \in M : c < m}
           rank(m) == Cardinality(below(m))
           N == Cardinality(M)
<1>1. Rebalanced(M) = [m \in M |-> {p \in Partition : p % N = rank(m)}]
  BY DEF Rebalanced
<1>2. \A m \in M : IsFiniteSet(below(m)) /\ rank(m) \in Nat
  BY FS_Subset, FS_CardinalityType
<1>3. ASSUME NEW c \in M, NEW d \in M, c < d
      PROVE  rank(c) # rank(d)
  <2>1. c \in Nat /\ d \in Nat /\ \A e \in M : e \in Nat
    BY BusAssumption
  <2>2. c \in below(d) /\ c \notin below(c)
    BY <1>3, <2>1
  <2>3. \A e \in M : e < c => e < d
    BY <1>3, <2>1
  <2>4. IsFiniteSet(below(d)) /\ below(c) \in SUBSET below(d) /\ below(c) # below(d)
    BY <1>2, <2>2, <2>3
  <2> HIDE DEF below
  <2> QED
    BY <2>4, FS_Subset
<1>4. ASSUME NEW c \in M, NEW d \in M, c # d
      PROVE  rank(c) # rank(d)
  <2>1. c < d \/ d < c
    BY <1>4, BusAssumption
  <2> HIDE DEF rank
  <2> QED BY <1>3, <2>1
<1> HIDE DEF rank, N
<1>5. ASSUME NEW c \in M, NEW d \in M, c # d
      PROVE  Rebalanced(M)[c] \cap Rebalanced(M)[d] = {}
  BY <1>1, <1>4, <1>5
<1> QED
  BY <1>1, <1>5

LEMMA IdleHasNothing ==
  /\ Idle.pc = "idle" /\ Idle.batch = {} /\ Idle.back = {}
  /\ \A p \in Partition : Idle.frontier[p] = 0
BY DEF Idle

LEMMA BusStarts == BusInit => BusInv
<1> SUFFICES ASSUME BusInit PROVE BusInv
  OBVIOUS
<1> USE DEF BusInit
<1>1. BusTypeOK
  <2>1. IsFiniteSet({})
    BY FS_EmptySet
  <2>2. \A m \in Member : job[m] \in [pc : {"idle", "handle", "seek"}, batch : SUBSET (Partition \X Nat),
                         frontier : [Partition -> Nat], back : SUBSET Partition]
    BY DEF Idle
  <2> QED
    BY <2>1, <2>2 DEF BusTypeOK, Blank
<1>2. Ownership
  BY DEF Ownership
<1>3. JobsOK
  BY DEF JobsOK, Idle, Blank
<1>4. HandledOK
  BY DEF HandledOK
<1>5. InOrder
  BY DEF InOrder
<1> QED
  BY <1>1, <1>2, <1>3, <1>4, <1>5 DEF BusInv

\* A partition of which nobody has anything in hand is read no further than it
\* is acknowledged.
LEMMA IdleIsCaughtUp ==
  ASSUME BusInv, NEW p \in Partition \ disturbed,
         \A c \in DOMAIN group : p \in group[c] => ~ InHand(c, p)
  PROVE  position[p] = committed[p]
<1>1. position[p] \in Nat /\ committed[p] \in Nat
  BY DEF BusInv, BusTypeOK
<1>2. CASE \E c \in DOMAIN group : p \in group[c]
  <2>1. PICK c \in DOMAIN group : p \in group[c]
    BY <1>2
  <2>2. job[c].frontier[p] = 0 /\ p \notin job[c].back /\ \A o \in Nat : <<p, o>> \notin job[c].batch
    BY <2>1 DEF InHand
  <2>3. ReadingOK(c)
    BY DEF BusInv, Ownership
  <2>4. Reached(c, p) = committed[p]
    BY <1>1, <2>2 DEF Reached
  <2>5. /\ committed[p] <= position[p]
        /\ \A o \in Nat : <<p, o>> \in job[c].batch <=> committed[p] <= o /\ o < position[p]
    BY <2>1, <2>2, <2>3, <2>4 DEF ReadingOK
  <2>6. ~ (committed[p] < position[p])
    <3>1. PICK k \in Nat : k = committed[p]
      BY <1>1
    <3>2. k <= k /\ <<p, k>> \notin job[c].batch
      BY <2>2, <3>1
    <3> QED
      BY ONLY <2>5, <3>1, <3>2
  <2> QED
    BY ONLY <1>1, <2>5, <2>6
<1>3. CASE \A c \in DOMAIN group : p \notin group[c]
  BY <1>3 DEF BusInv, Ownership
<1> QED
  BY <1>2, <1>3

LEMMA IdleHandsAreEmpty ==
  ASSUME NEW c, job[c] = Idle, NEW p \in Partition
  PROVE  ~ InHand(c, p)
BY IdleHasNothing DEF InHand

\* The group changes hands: a partition that goes to another consumer, and is
\* not disturbed by it, is one of which its owner has nothing in hand.
LEMMA Regrouped ==
  ASSUME BusInv, committed' = committed, disturbed \subseteq disturbed',
         DOMAIN group' \subseteq Member,
         \A c, d \in DOMAIN group' : c # d => group'[c] \cap group'[d] = {},
         \A c \in DOMAIN group' : IF c \in DOMAIN group THEN job'[c] = job[c] ELSE job'[c] = Idle,
         \A p \in Partition \ disturbed' :
           /\ IF \E c \in DOMAIN group \cap DOMAIN group' : p \in group[c]
              THEN position'[p] = position[p] ELSE position'[p] = committed[p]
           /\ \A c \in DOMAIN group \cap DOMAIN group' :
                p \in group[c] \ group'[c] => ~ InHand(c, p)
  PROVE  Ownership'
<1>1. \A p \in Partition : position[p] \in Nat /\ committed[p] \in Nat
  BY DEF BusInv, BusTypeOK
<1>2. ASSUME NEW c \in DOMAIN group', NEW p \in Partition \ disturbed', c \notin DOMAIN group \/ p \notin group[c]
      PROVE  job'[c].frontier[p] = 0 /\ p \notin job'[c].back /\ \A o \in Nat : <<p, o>> \notin job'[c].batch
  <2>1. CASE c \notin DOMAIN group
    BY <2>1 DEF Idle
  <2>2. CASE c \in DOMAIN group
    BY <1>2, <2>2 DEF BusInv, Ownership, ReadingOK
  <2> QED
    BY <2>1, <2>2
<1>3. ASSUME NEW p \in Partition \ disturbed',
             \A c \in DOMAIN group \cap DOMAIN group' : p \in group[c] => ~ InHand(c, p)
      PROVE  position'[p] = committed'[p]
  <2>1. CASE \E c \in DOMAIN group \cap DOMAIN group' : p \in group[c]
    <3>1. PICK c \in DOMAIN group \cap DOMAIN group' : p \in group[c]
      BY <2>1
    <3>2. ~ InHand(c, p) /\ p \in Partition \ disturbed
      BY <1>3, <3>1
    <3>3. \A d \in DOMAIN group : p \in group[d] => d = c
      BY <3>1 DEF BusInv, Ownership
    <3>4. position[p] = committed[p]
      BY <3>2, <3>3, IdleIsCaughtUp
    <3> QED
      BY <2>1, <3>4
  <2>2. CASE ~ \E c \in DOMAIN group \cap DOMAIN group' : p \in group[c]
    BY <2>2
  <2> QED
    BY <2>1, <2>2
<1>4. ASSUME NEW p \in Partition \ disturbed', \A c \in DOMAIN group' : p \notin group'[c]
      PROVE  position'[p] = committed'[p]
  BY <1>3, <1>4
<1>5. ASSUME NEW c \in DOMAIN group' PROVE ReadingOK(c)'
  <2> SUFFICES ASSUME NEW p \in Partition \ disturbed'
               PROVE  /\ p \in group'[c] \ job'[c].back =>
                           /\ Reached(c, p)' <= position'[p]
                           /\ \A o \in Nat : <<p, o>> \in job'[c].batch <=> Reached(c, p)' <= o /\ o < position'[p]
                      /\ p \notin group'[c] =>
                           /\ job'[c].frontier[p] = 0 /\ p \notin job'[c].back
                           /\ \A o \in Nat : <<p, o>> \notin job'[c].batch
    BY DEF ReadingOK
  <2>1. CASE c \in DOMAIN group /\ p \in group[c] /\ p \in group'[c]
    <3>1. job'[c] = job[c] /\ position'[p] = position[p]
      BY <2>1
    <3>2. Reached(c, p)' = Reached(c, p)
      BY <3>1 DEF Reached
    <3>3. ReadingOK(c)
      BY <2>1 DEF BusInv, Ownership
    <3> QED
      BY <2>1, <3>1, <3>2, <3>3 DEF ReadingOK
  <2>2. CASE p \in group'[c] /\ (c \notin DOMAIN group \/ p \notin group[c])
    <3>1. \A d \in DOMAIN group \cap DOMAIN group' : p \in group[d] => ~ InHand(d, p)
      BY <2>2
    <3>2. position'[p] = committed'[p]
      BY <1>3, <3>1
    <3>3. job'[c].frontier[p] = 0 /\ \A o \in Nat : <<p, o>> \notin job'[c].batch
      BY <1>2, <2>2
    <3>4. Reached(c, p)' = committed'[p]
      BY <1>1, <3>3 DEF Reached
    <3> QED
      BY <1>1, <2>2, <3>2, <3>3, <3>4
  <2>3. CASE p \notin group'[c] /\ c \in DOMAIN group /\ p \in group[c]
    <3>1. ~ InHand(c, p) /\ job'[c] = job[c]
      BY <2>3
    <3> QED
      BY <2>3, <3>1 DEF InHand
  <2>4. CASE p \notin group'[c] /\ (c \notin DOMAIN group \/ p \notin group[c])
    BY <1>2, <2>4
  <2> QED
    BY <2>1, <2>2, <2>3, <2>4
<1> QED
  BY <1>4, <1>5 DEF Ownership

LEMMA BusyIsJoined ==
  ASSUME BusInv, NEW m \in Member, job[m].pc # "idle"
  PROVE  m \in DOMAIN group
BY DEF BusInv, JobsOK, Idle

\* A step in which a consumer touches what it owns disturbs no other consumer.
LEMMA OwnStep ==
  ASSUME BusInv, NEW m \in DOMAIN group, UNCHANGED <<group, disturbed>>,
         \A c \in DOMAIN group \ {m} : job'[c] = job[c],
         \A p \in Partition \ (disturbed \cup group[m]) : position'[p] = position[p] /\ committed'[p] = committed[p],
         ReadingOK(m)'
  PROVE  Ownership'
<1>1. ASSUME NEW c \in DOMAIN group, c # m PROVE ReadingOK(c)'
  <2>1. ReadingOK(c) /\ job'[c] = job[c] /\ group'[c] = group[c]
    BY <1>1 DEF BusInv, Ownership
  <2>2. \A p \in Partition : p \in group[c] => p \notin group[m]
    BY <1>1 DEF BusInv, Ownership
  <2>3. \A p \in Partition \ disturbed : p \in group[c] => position'[p] = position[p] /\ Reached(c, p)' = Reached(c, p)
    BY <2>1, <2>2 DEF Reached
  <2> QED
    BY <2>1, <2>3 DEF ReadingOK
<1>2. ASSUME NEW p \in Partition \ disturbed, \A c \in DOMAIN group : p \notin group[c]
      PROVE  position'[p] = committed'[p]
  BY <1>2 DEF BusInv, Ownership
<1> QED
  BY <1>1, <1>2 DEF BusInv, Ownership

LEMMA ProduceInv ==
  ASSUME BusInv, NEW r \in incoming, Produce(r)
  PROVE  BusInv'
<1> USE DEF Produce
<1>1. /\ r \in Incoming /\ log \in [Partition -> Seq(Incoming)]
      /\ position \in [Partition -> Nat] /\ committed \in [Partition -> Nat]
  BY DEF BusInv, BusTypeOK
<1>2. ASSUME NEW p \in Partition
      PROVE  /\ log'[p] \in Seq(Incoming) /\ Len(log[p]) \in Nat /\ Len(log[p]) <= Len(log'[p])
             /\ \A o \in 1..Len(log[p]) : log'[p][o] = log[p][o]
  <2>1. log[p] \in Seq(Incoming)
    BY <1>1
  <2>2. log'[p] = log[p] \/ log'[p] = Append(log[p], r)
    BY <1>1
  <2> QED
    BY <1>1, <2>1, <2>2
<1>3. BusTypeOK'
  <2>1. log' \in [Partition -> Seq(Incoming)]
    BY <1>1, <1>2
  <2> QED
    BY <2>1 DEF BusInv, BusTypeOK
<1>4. Ownership'
  BY DEF BusInv, Ownership, ReadingOK, Reached
<1>5. JobsOK'
  BY DEF BusInv, JobsOK, SignatureKnown
<1>6. HandledOK'
  <2>1. ASSUME NEW x \in handled, x[1] \notin disturbed
        PROVE  /\ x[2] < Len(log'[x[1]])
               /\ LET s == log'[x[1]][x[2] + 1]
                  IN  s \in deadLetters' \/ \E y \in processed' : y[2] = s.sig
    <3>1. x[1] \in Partition /\ x[2] \in Nat
      BY DEF BusInv, BusTypeOK
    <3>2. x[2] < Len(log[x[1]]) /\ Known(log[x[1]][x[2] + 1])
      BY <2>1 DEF BusInv, HandledOK
    <3>3. log'[x[1]][x[2] + 1] = log[x[1]][x[2] + 1]
      BY <1>2, <3>1, <3>2
    <3>4. x[2] < Len(log'[x[1]])
      BY <1>2, <3>1, <3>2
    <3>5. deadLetters' = deadLetters /\ processed' = processed
      OBVIOUS
    <3> QED
      BY ONLY <3>2, <3>3, <3>4, <3>5 DEF Known, SignatureKnown
  <2>2. ASSUME NEW p \in Partition \ disturbed
        PROVE  position'[p] <= Len(log'[p]) /\ \A o \in 0..(committed'[p] - 1) : <<p, o>> \in handled'
    <3>1. position[p] \in Nat /\ Len(log'[p]) \in Nat
      BY <1>1, <1>2
    <3> QED
      BY <1>2, <3>1 DEF BusInv, HandledOK
  <2> QED
    BY <2>1, <2>2 DEF HandledOK, Known, SignatureKnown
<1>7. InOrder'
  BY DEF BusInv, InOrder
<1> QED
  BY <1>3, <1>4, <1>5, <1>6, <1>7 DEF BusInv

\* The log holds whatever is acknowledged.
LEMMA CommittedIsLogged ==
  ASSUME BusInv, NEW p \in Partition \ disturbed
  PROVE  committed[p] \in Nat /\ Len(log[p]) \in Nat /\ committed[p] <= Len(log[p])
<1>1. committed[p] \in Nat /\ Len(log[p]) \in Nat
  BY DEF BusInv, BusTypeOK
<1>2. CASE committed[p] # 0
  <2>1. committed[p] - 1 \in 0..(committed[p] - 1)
    BY <1>1, <1>2
  <2>2. <<p, committed[p] - 1>> \in handled
    BY <2>1 DEF BusInv, HandledOK
  <2>3. committed[p] - 1 < Len(log[p])
    BY <2>2 DEF BusInv, HandledOK
  <2> QED
    BY <1>1, <2>3
<1> QED
  BY <1>1, <1>2

LEMMA JoinGroupInv ==
  ASSUME BusInv, NEW m \in Member, JoinGroup(m)
  PROVE  BusInv'
<1> DEFINE M == DOMAIN group \cup {m}
<1> USE DEF JoinGroup
<1>1. M \in SUBSET Member /\ IsFiniteSet(M)
  BY FS_AddElement DEF BusInv, BusTypeOK
<1>2. group' \in [M -> SUBSET Partition] /\ \A c, d \in M : c # d => group'[c] \cap group'[d] = {}
  <2> HIDE DEF M
  <2>1. /\ Rebalanced(M) \in [M -> SUBSET Partition]
        /\ \A c, d \in M : c # d => Rebalanced(M)[c] \cap Rebalanced(M)[d] = {}
    BY <1>1, RebalancedOnce
  <2>2. group' = Rebalanced(M)
    BY DEF M
  <2> QED
    BY <2>1, <2>2
<1>3. DOMAIN group' = M
  BY <1>2
<1>4. Ownership'
  <2>1. \A c \in DOMAIN group' : IF c \in DOMAIN group THEN job'[c] = job[c] ELSE job'[c] = Idle
    BY <1>1, <1>3 DEF BusInv, JobsOK
  <2>2. \A p \in Partition \ disturbed' :
          IF \E c \in DOMAIN group \cap DOMAIN group' : p \in group[c]
          THEN position'[p] = position[p] ELSE position'[p] = committed[p]
    BY <1>3 DEF BusInv, Ownership
  <2>3. \A p \in Partition \ disturbed' : \A c \in DOMAIN group \cap DOMAIN group' :
          p \in group[c] \ group'[c] => ~ InHand(c, p)
    BY <1>3 DEF Disturbs
  <2> QED
    BY <1>1, <1>2, <1>3, <2>1, <2>2, <2>3, Regrouped
<1>5. BusTypeOK'
  <2>1. disturbed' \subseteq Partition
    BY DEF Disturbs, BusInv, BusTypeOK
  <2> QED
    BY <1>1, <1>2, <1>3, <2>1 DEF BusInv, BusTypeOK
<1>6. JobsOK'
  BY <1>3 DEF BusInv, JobsOK, SignatureKnown
<1>7. HandledOK' /\ InOrder'
  BY DEF BusInv, HandledOK, InOrder, Known, SignatureKnown
<1> QED
  BY <1>4, <1>5, <1>6, <1>7 DEF BusInv

LEMMA LeaveGroupInv ==
  ASSUME BusInv, NEW m \in Member, LeaveGroup(m)
  PROVE  BusInv'
<1> DEFINE M == DOMAIN group \ {m}
<1> USE DEF LeaveGroup
<1>1. M \in SUBSET Member /\ IsFiniteSet(M)
  BY FS_Subset DEF BusInv, BusTypeOK
<1>2. group' \in [M -> SUBSET Partition] /\ \A c, d \in M : c # d => group'[c] \cap group'[d] = {}
  <2> HIDE DEF M
  <2>1. /\ Rebalanced(M) \in [M -> SUBSET Partition]
        /\ \A c, d \in M : c # d => Rebalanced(M)[c] \cap Rebalanced(M)[d] = {}
    BY <1>1, RebalancedOnce
  <2>2. group' = Rebalanced(M)
    BY DEF M
  <2> QED
    BY <2>1, <2>2
<1>3. DOMAIN group' = M
  BY <1>2
<1>4. \A c \in Member : job'[c] = IF c = m THEN Idle ELSE job[c]
  BY DEF BusInv, BusTypeOK
<1>5. \A p \in Partition : position'[p] = IF p \in group[m] THEN committed[p] ELSE position[p]
  BY DEF RolledBack
<1>6. Ownership'
  <2>1. \A c \in DOMAIN group' : IF c \in DOMAIN group THEN job'[c] = job[c] ELSE job'[c] = Idle
    BY <1>1, <1>3, <1>4
  <2>2. ASSUME NEW p \in Partition \ disturbed'
        PROVE  IF \E c \in DOMAIN group \cap DOMAIN group' : p \in group[c]
               THEN position'[p] = position[p] ELSE position'[p] = committed[p]
    <3>1. ASSUME NEW c \in DOMAIN group \cap DOMAIN group', p \in group[c]
          PROVE  p \notin group[m]
      BY <1>3, <3>1 DEF BusInv, Ownership
    <3>2. ASSUME ~ \E c \in DOMAIN group \cap DOMAIN group' : p \in group[c], p \notin group[m]
          PROVE  position[p] = committed[p]
      BY <1>3, <3>2 DEF BusInv, Ownership
    <3> QED
      BY <1>5, <3>1, <3>2
  <2>3. \A p \in Partition \ disturbed' : \A c \in DOMAIN group \cap DOMAIN group' :
          p \in group[c] \ group'[c] => ~ InHand(c, p)
    BY <1>3 DEF Disturbs
  <2> QED
    BY <1>1, <1>2, <1>3, <2>1, <2>2, <2>3, Regrouped
<1>7. /\ DOMAIN memory' = Member
      /\ \A c \in Member : memory'[c] = memory[c] \/ memory'[c] = Blank
  <2>1. CASE memory' = memory
    BY <2>1 DEF BusInv, BusTypeOK
  <2>2. CASE memory' = [memory EXCEPT ![m] = Blank]
    BY <2>2 DEF BusInv, BusTypeOK
  <2> QED
    BY <2>1, <2>2
<1>8. BusTypeOK'
  <2>1. position' \in [Partition -> Nat]
    BY <1>5 DEF BusInv, BusTypeOK, RolledBack
  <2>2. Idle \in [pc : {"idle", "handle", "seek"}, batch : SUBSET (Partition \X Nat),
                  frontier : [Partition -> Nat], back : SUBSET Partition]
    BY DEF Idle
  <2>3. job' \in [Member -> [pc : {"idle", "handle", "seek"}, batch : SUBSET (Partition \X Nat),
                         frontier : [Partition -> Nat], back : SUBSET Partition]]
    BY <2>2 DEF BusInv, BusTypeOK
  <2>4. DOMAIN memory' = Member /\ \A c \in Member : memory'[c] = [seen |-> memory'[c].seen, tries |-> memory'[c].tries]
    BY <1>7 DEF BusInv, BusTypeOK, Blank
  <2>5. disturbed' \subseteq Partition
    BY DEF Disturbs, BusInv, BusTypeOK
  <2> QED
    BY <1>1, <1>2, <1>3, <2>1, <2>3, <2>4, <2>5 DEF BusInv, BusTypeOK
<1>9. JobsOK'
  <2>1. ASSUME NEW c \in Member, NEW s \in memory'[c].seen PROVE s \in memory[c].seen
    BY <1>7, <2>1 DEF Blank
  <2>2. ASSUME NEW c \in Member
        PROVE  /\ c \notin DOMAIN group' \/ job'[c].pc = "idle" => job'[c] = Idle
               /\ job'[c].pc = "seek" => job'[c].batch = {} /\ job'[c].frontier = Idle.frontier
               /\ \A p \in Partition : job'[c].frontier[p] # 0 => <<p, job'[c].frontier[p] - 1>> \in handled'
    <3>1. CASE c = m
      BY <1>4, <3>1, IdleHasNothing
    <3>2. CASE c # m
      BY <1>3, <1>4, <3>2 DEF BusInv, JobsOK
    <3> QED
      BY <3>1, <3>2
  <2>3. \A c \in Member : \A s \in memory'[c].seen : SignatureKnown(s)'
    BY <2>1 DEF BusInv, JobsOK, SignatureKnown
  <2> QED
    BY <2>2, <2>3 DEF JobsOK
<1>10. HandledOK'
  <2>1. \A p \in Partition \ disturbed : position'[p] <= Len(log'[p])
    BY <1>5, CommittedIsLogged DEF BusInv, HandledOK
  <2> QED
    BY <2>1 DEF BusInv, HandledOK, Known, SignatureKnown
<1>11. InOrder'
  BY DEF BusInv, InOrder
<1> QED
  BY <1>6, <1>8, <1>9, <1>10, <1>11 DEF BusInv

Jobs == [pc : {"idle", "handle", "seek"}, batch : SUBSET (Partition \X Nat),
         frontier : [Partition -> Nat], back : SUBSET Partition]

\* A consumer's step on its own job and partitions leaves the rest of the
\* invariant to its own part.
LEMMA OwnJob ==
  ASSUME BusInv, NEW m \in DOMAIN group, job' = [job EXCEPT ![m] = job'[m]], job'[m] \in Jobs,
         UNCHANGED <<log, group, disturbed, incoming>>,
         committed' \in [Partition -> Nat], position' \in [Partition -> Nat],
         \A p \in Partition \ (disturbed \cup group[m]) : position'[p] = position[p] /\ committed'[p] = committed[p],
         ReadingOK(m)'
  PROVE  /\ /\ DOMAIN memory' = Member /\ handled' \subseteq Partition \X Nat
            /\ \A c \in Member : memory'[c] = [seen |-> memory'[c].seen, tries |-> memory'[c].tries]
            /\ \A x \in processed' : x = <<x[1], x[2]>>
            => BusTypeOK'
         /\ Ownership'
<1>1. m \in Member /\ job' \in [Member -> Jobs] /\ \A c \in Member \ {m} : job'[c] = job[c]
  BY DEF BusInv, BusTypeOK, Jobs
<1>2. Ownership'
  <2>1. \A c \in DOMAIN group \ {m} : job'[c] = job[c]
    BY <1>1 DEF BusInv, BusTypeOK
  <2> QED
    BY <2>1, OwnStep
<1> QED
  BY <1>1, <1>2 DEF BusInv, BusTypeOK, Jobs

LEMMA FreshStart ==
  ASSUME NEW m, NEW p, committed'[p] \in Nat, job'[m].frontier[p] = 0
  PROVE  Reached(m, p)' = committed'[p]
BY DEF Reached

LEMMA ReachedStays ==
  ASSUME NEW m, NEW p, committed'[p] = committed[p], job'[m].frontier[p] = job[m].frontier[p]
  PROVE  Reached(m, p)' = Reached(m, p)
BY DEF Reached

LEMMA PollInv ==
  ASSUME BusInv, NEW m \in Member, Poll(m)
  PROVE  BusInv'
<1> USE DEF Poll
<1> DEFINE n(p) == Cardinality({x \in Polled(m) : x[1] = p})
<1>1. m \in DOMAIN group /\ job[m] = Idle
  BY DEF BusInv, JobsOK
<1>2. BusTypeOK /\ group[m] \in SUBSET Partition
  BY <1>1 DEF BusInv, BusTypeOK
<1>3. ASSUME NEW p \in Partition
      PROVE  /\ n(p) \in Nat /\ (p \notin disturbed => position[p] + n(p) <= Len(log[p]))
             /\ p \notin group[m] => n(p) = 0
             /\ \A o \in Nat : <<p, o>> \in Polled(m) <=>
                  p \in group[m] /\ position[p] <= o /\ o < position[p] + n(p)
  <2>1. p \notin disturbed => position[p] <= Len(log[p])
    BY DEF BusInv, HandledOK
  <2> QED
    BY <1>1, <1>2, <2>1, PolledOf
<1> HIDE DEF n
<1>4. \A p \in Partition : position[p] \in Nat /\ committed[p] \in Nat /\ position'[p] = position[p] + n(p)
  BY <1>2 DEF BusTypeOK, n
<1>5. /\ job'[m].pc = "handle" /\ job'[m].batch = Polled(m) /\ job'[m].frontier = Idle.frontier /\ job'[m].back = {}
      /\ job'[m] \in Jobs
  <2>1. Polled(m) \subseteq Partition \X Nat
    BY <1>1, <1>2, UnreadOf DEF Polled
  <2> QED
    BY <1>2, <2>1 DEF BusTypeOK, Idle, Jobs
<1>6. ASSUME NEW p \in group[m] \ disturbed PROVE position[p] = committed[p]
  <2>1. \A c \in DOMAIN group : p \in group[c] => c = m
    BY <1>1 DEF BusInv, Ownership
  <2> QED
    BY <1>1, <1>2, <2>1, IdleHandsAreEmpty, IdleIsCaughtUp
<1>7. ReadingOK(m)'
  <2>1. \A p \in Partition : job'[m].frontier[p] = 0
    BY <1>5, IdleHasNothing
  <2>2. ASSUME NEW p \in Partition \ disturbed
        PROVE  /\ p \in group'[m] \ job'[m].back =>
                    /\ Reached(m, p)' <= position'[p]
                    /\ \A o \in Nat : <<p, o>> \in job'[m].batch <=> Reached(m, p)' <= o /\ o < position'[p]
               /\ p \notin group'[m] =>
                    /\ job'[m].frontier[p] = 0 /\ p \notin job'[m].back
                    /\ \A o \in Nat : <<p, o>> \notin job'[m].batch
    <3>1. committed'[p] \in Nat /\ committed'[p] = committed[p] /\ group' = group
      BY <1>4
    <3>2. Reached(m, p)' = committed[p]
      BY <2>1, <3>1, FreshStart
    <3>3. p \in group[m] => position[p] = committed[p] /\ position'[p] = committed[p] + n(p)
      BY <1>4, <1>6
    <3>4. \A o \in Nat : <<p, o>> \in job'[m].batch <=>
                           p \in group[m] /\ position[p] <= o /\ o < position[p] + n(p)
      BY <1>3, <1>5
    <3>5. n(p) \in Nat /\ job'[m].back = {} /\ job'[m].frontier[p] = 0
      BY <1>3, <1>5, <2>1
    <3>6. CASE p \in group[m]
      BY ONLY <3>1, <3>2, <3>3, <3>4, <3>5, <3>6
    <3>7. CASE p \notin group[m]
      BY ONLY <3>1, <3>4, <3>5, <3>7
    <3> QED
      BY <3>6, <3>7
  <2> QED
    BY <2>2 DEF ReadingOK
<1>8. BusTypeOK' /\ Ownership'
  <2>1. position' \in [Partition -> Nat]
    BY <1>3, <1>4
  <2>2. \A p \in Partition \ (disturbed \cup group[m]) : position'[p] = position[p] /\ committed'[p] = committed[p]
    BY <1>3, <1>4
  <2> QED
    BY <1>1, <1>2, <1>5, <1>7, <2>1, <2>2, OwnJob DEF BusTypeOK
<1>9. JobsOK'
  <2>1. \A c \in Member \ {m} : job'[c] = job[c]
    BY <1>2 DEF BusTypeOK
  <2> QED
    BY <1>1, <1>5, <2>1, IdleHasNothing DEF BusInv, JobsOK, SignatureKnown
<1>10. HandledOK' /\ InOrder'
  BY <1>3, <1>4 DEF BusInv, HandledOK, InOrder, Known, SignatureKnown
<1> QED
  BY <1>8, <1>9, <1>10 DEF BusInv

\* The next record of a batch: where its consumer has got to in a partition it
\* owns, unless that one is disturbed.
LEMMA NextRecord ==
  ASSUME BusInv, NEW m \in Member, Handling(m)
  PROVE  LET p == At(m)[1]
             o == At(m)[2]
         IN  /\ m \in DOMAIN group /\ p \in Partition /\ o \in Nat /\ At(m) = <<p, o>>
             /\ At(m) \in job[m].batch
             /\ p \notin disturbed => p \in group[m]
             /\ p \notin disturbed /\ ~ Skipped(m) => o = Reached(m, p) /\ o < position[p] /\ o < Len(log[p])
<1> DEFINE p == At(m)[1]
           o == At(m)[2]
<1>1. m \in DOMAIN group
  BY BusyIsJoined DEF Handling
<1>2. job[m].batch \subseteq Partition \X Nat /\ \A q \in Partition : position[q] \in Nat /\ committed[q] \in Nat /\ job[m].frontier[q] \in Nat
  BY DEF BusInv, BusTypeOK
<1>3. At(m) \in job[m].batch /\ \A y \in job[m].batch \ {At(m)} : Before(At(m), y)
  BY <1>2, FirstOfBatch DEF Handling
<1>4. p \in Partition /\ o \in Nat /\ At(m) = <<p, o>>
  BY <1>2, <1>3
<1> HIDE DEF p, o
<1>5. ReadingOK(m)
  BY <1>1 DEF BusInv, Ownership
<1>6. p \notin disturbed => p \in group[m]
  BY <1>3, <1>4, <1>5 DEF ReadingOK
<1>7. ASSUME p \notin disturbed, ~ Skipped(m) PROVE o = Reached(m, p) /\ o < position[p] /\ o < Len(log[p])
  <2>1. p \notin job[m].back
    BY <1>7 DEF Skipped, p
  <2>2. Reached(m, p) \in Nat
    BY <1>2, <1>4 DEF Reached
  <2>3. \A k \in Nat : <<p, k>> \in job[m].batch <=> Reached(m, p) <= k /\ k < position[p]
    BY <1>4, <1>5, <1>6, <1>7, <2>1 DEF ReadingOK
  <2>4. Reached(m, p) <= o /\ o < position[p]
    BY <1>3, <1>4, <2>3
  <2>5. <<p, Reached(m, p)>> \in job[m].batch
    BY <1>2, <1>4, <2>2, <2>3, <2>4
  <2>6. <<p, Reached(m, p)>> = At(m) \/ Before(At(m), <<p, Reached(m, p)>>)
    BY <1>3, <2>5
  <2>7. o <= Reached(m, p)
    <3>1. p \in Nat
      BY <1>4, BusAssumption
    <3> QED
      BY <1>4, <2>2, <2>6, <3>1 DEF Before
  <2>8. position[p] <= Len(log[p]) /\ Len(log[p]) \in Nat
    BY <1>4, <1>7 DEF BusInv, HandledOK, BusTypeOK
  <2> QED
    BY <1>2, <1>4, <2>2, <2>4, <2>7, <2>8
<1> QED
  BY <1>1, <1>3, <1>4, <1>6, <1>7 DEF p, o

LEMMA JobOf ==
  ASSUME BusInv, NEW m \in Member
  PROVE  /\ job[m] \in Jobs /\ DOMAIN job = Member
         /\ job[m] = [pc |-> job[m].pc, batch |-> job[m].batch, frontier |-> job[m].frontier, back |-> job[m].back]
BY DEF BusInv, BusTypeOK, Jobs

LEMMA MemoryOf ==
  ASSUME BusInv
  PROVE  /\ DOMAIN memory = Member
         /\ \A c \in Member : memory[c] = [seen |-> memory[c].seen, tries |-> memory[c].tries]
BY DEF BusInv, BusTypeOK

LEMMA SeenOf ==
  ASSUME BusInv, NEW c \in Member, NEW s \in memory[c].seen
  PROVE  SignatureKnown(s)
BY DEF BusInv, JobsOK

LEMMA TriesOnly ==
  ASSUME BusInv, NEW m \in Member, NEW t, memory' = [memory EXCEPT ![m].tries = t]
  PROVE  /\ DOMAIN memory' = Member
         /\ \A c \in Member : /\ memory'[c].seen = memory[c].seen
                              /\ memory'[c] = [seen |-> memory'[c].seen, tries |-> memory'[c].tries]
<1> SUFFICES ASSUME NEW c \in Member
             PROVE  /\ memory'[c].seen = memory[c].seen
                    /\ memory'[c] = [seen |-> memory'[c].seen, tries |-> memory'[c].tries]
  BY MemoryOf
<1>1. CASE c = m
  <2> DEFINE known == memory[m].seen
             tried == memory[m].tries
  <2>1. memory[m] = [seen |-> known, tries |-> tried]
    BY MemoryOf
  <2>2. DOMAIN memory = Member
    BY MemoryOf
  <2> HIDE DEF known, tried
  <2>3. memory'[m] = [seen |-> known, tries |-> t]
    BY <2>1, <2>2
  <2> QED
    BY <1>1, <2>1, <2>3
<1>2. CASE c # m
  <2>1. memory'[c] = memory[c]
    BY <1>2, MemoryOf
  <2> QED
    BY <2>1, MemoryOf
<1> QED
  BY <1>1, <1>2

\* Skip and Retry drop the next record from the batch; its partition is to be
\* rewound.
LEMMA DroppedInv ==
  ASSUME BusInv, NEW m \in Member, Handling(m), job' = [job EXCEPT ![m] = job'[m]],
         job'[m] = [pc |-> "handle", batch |-> Rest(m), frontier |-> job[m].frontier,
                    back |-> job[m].back \cup {At(m)[1]}],
         UNCHANGED <<brokerVars, handled, processed, deadLetters, incoming>>,
         DOMAIN memory' = Member,
         \A c \in Member : /\ memory'[c].seen = memory[c].seen
                           /\ memory'[c] = [seen |-> memory'[c].seen, tries |-> memory'[c].tries]
  PROVE  BusInv'
<1>0. PICK p \in Partition, o \in Nat : At(m) = <<p, o>>
  BY NextRecord
<1>1. m \in DOMAIN group /\ (p \notin disturbed => p \in group[m]) /\ p \in Partition /\ o \in Nat /\ At(m) = <<p, o>>
  BY <1>0, NextRecord
<1>2. UNCHANGED <<log, committed, position, group, disturbed>>
  BY DEF brokerVars
<1>3. job[m] \in Jobs /\ job \in [Member -> Jobs] /\ BusTypeOK
  BY DEF BusInv, BusTypeOK, Jobs
<1>4. /\ job'[m].pc = job[m].pc /\ job'[m].batch = job[m].batch \ {<<p, o>>} /\ job'[m].back = job[m].back \cup {p}
      /\ job'[m].frontier = job[m].frontier /\ job'[m] \in Jobs
      /\ \A c \in Member \ {m} : job'[c] = job[c]
      /\ job' = [job EXCEPT ![m] = job'[m]]
  <2>1. At(m)[1] = p
    BY <1>0
  <2>2. job[m].pc = "handle"
    BY DEF Handling
  <2>3. job'[m] = [pc |-> "handle", batch |-> job[m].batch \ {<<p, o>>}, frontier |-> job[m].frontier,
                   back |-> job[m].back \cup {p}]
    BY <1>1, <2>1 DEF Rest
  <2>4. \A c \in Member \ {m} : job'[c] = job[c]
    BY <1>3
  <2> QED
    BY ONLY <1>1, <1>3, <2>2, <2>3, <2>4, job' = [job EXCEPT ![m] = job'[m]] DEF Jobs
<1>5. ReadingOK(m)'
  <2>1. ReadingOK(m)
    BY <1>1 DEF BusInv, Ownership
  <2>2. ASSUME NEW q \in Partition PROVE Reached(m, q)' = Reached(m, q)
    BY <1>2, <1>4, ReachedStays
  <2> QED
    BY ONLY <1>1, <1>2, <1>4, <2>1, <2>2 DEF ReadingOK
<1>6. BusTypeOK' /\ Ownership'
  BY <1>1, <1>2, <1>3, <1>4, <1>5, OwnJob DEF BusTypeOK
<1>7. JobsOK'
  <2>1. job[m].pc = "handle"
    BY DEF Handling
  <2>2. \A c \in Member :
          /\ c \notin DOMAIN group \/ job'[c].pc = "idle" => job'[c] = Idle
          /\ job'[c].pc = "seek" => job'[c].batch = {} /\ job'[c].frontier = Idle.frontier
          /\ \A q \in Partition : job'[c].frontier[q] # 0 => <<q, job'[c].frontier[q] - 1>> \in handled
    <3> TAKE c \in Member
    <3>1. CASE c = m
      BY ONLY <1>1, <1>4, <2>1, <3>1, BusInv DEF BusInv, JobsOK
    <3>2. CASE c # m
      BY ONLY <1>4, <3>2, BusInv, c \in Member DEF BusInv, JobsOK
    <3> QED
      BY <3>1, <3>2
  <2>3. \A c \in Member : \A s \in memory'[c].seen : SignatureKnown(s)'
    BY SeenOf DEF SignatureKnown
  <2> QED
    BY ONLY <1>2, <2>2, <2>3, UNCHANGED handled DEF JobsOK
<1>8. HandledOK' /\ InOrder'
  BY <1>2 DEF BusInv, HandledOK, InOrder, Known, SignatureKnown
<1> QED
  BY <1>6, <1>7, <1>8 DEF BusInv

\* Below what a consumer has reached, everything is dealt with.
LEMMA BelowReached ==
  ASSUME BusInv, NEW m \in Member, NEW p \in Partition \ disturbed, NEW k \in Nat, k < Reached(m, p)
  PROVE  <<p, k>> \in handled
<1>1. committed[p] \in Nat /\ job[m].frontier[p] \in Nat
  BY DEF BusInv, BusTypeOK
<1>2. CASE k < committed[p]
  <2>1. k \in 0..(committed[p] - 1)
    BY <1>1, <1>2
  <2> QED
    BY <2>1 DEF BusInv, HandledOK
<1>3. CASE k < job[m].frontier[p]
  <2> DEFINE x == <<p, job[m].frontier[p] - 1>>
  <2>1. x \in handled
    BY <1>1, <1>3 DEF BusInv, JobsOK
  <2>2. k \in 0..(x[2] - 1) \/ k = x[2]
    BY <1>1, <1>3
  <2>3. <<x[1], k>> \in handled
    BY <2>1, <2>2 DEF BusInv, InOrder
  <2> QED
    BY <2>3
<1> QED
  BY <1>1, <1>2, <1>3 DEF Reached

\* A record is done: it is dealt with, and its consumer knows of nothing more
\* than was processed.
LEMMA DoneInv ==
  ASSUME BusInv, NEW m \in Member, Handling(m), ~ Skipped(m), Done(m),
         processed \subseteq processed', deadLetters \subseteq deadLetters',
         Record(m) \in deadLetters' \/ \E y \in processed' : y[2] = Record(m).sig,
         \A x \in processed' : x = <<x[1], x[2]>>,
         DOMAIN memory' = Member,
         \A c \in Member : /\ memory'[c] = [seen |-> memory'[c].seen, tries |-> memory'[c].tries]
                           /\ \A s \in memory'[c].seen : SignatureKnown(s)'
  PROVE  BusInv'
<1>0. PICK p \in Partition, o \in Nat : At(m) = <<p, o>>
  BY NextRecord
<1>1. m \in DOMAIN group /\ (p \notin disturbed => p \in group[m]) /\ p \in Partition /\ o \in Nat /\ At(m) = <<p, o>>
  BY <1>0, NextRecord
<1>2. p \notin disturbed => o = Reached(m, p) /\ o < position[p] /\ o < Len(log[p])
  BY <1>0, NextRecord
<1>3. UNCHANGED <<log, committed, position, group, disturbed, incoming>> /\ handled' = handled \cup {<<p, o>>}
  BY <1>1 DEF Done, brokerVars
<1>4. job[m] \in Jobs /\ job \in [Member -> Jobs] /\ BusTypeOK
  BY DEF BusInv, BusTypeOK, Jobs
<1>5. /\ job'[m].pc = "handle" /\ job'[m].batch = job[m].batch \ {<<p, o>>} /\ job'[m].back = job[m].back
      /\ \A q \in Partition : job'[m].frontier[q] = IF q = p THEN o + 1 ELSE job[m].frontier[q]
      /\ job'[m] \in Jobs
      /\ \A c \in Member \ {m} : job'[c] = job[c]
      /\ job' = [job EXCEPT ![m] = job'[m]]
  <2>1. At(m)[1] = p /\ At(m)[2] = o /\ o + 1 \in Nat
    BY <1>1
  <2>2. job' = [job EXCEPT ![m].batch = job[m].batch \ {<<p, o>>}, ![m].frontier[p] = o + 1]
    BY <1>1, <2>1 DEF Done, Rest
  <2>3. job[m].pc = "handle"
    BY DEF Handling
  <2> QED
    BY ONLY <1>1, <1>4, <2>1, <2>2, <2>3, m \in Member DEF Jobs
<1>6. ReadingOK(m)'
  <2>1. ReadingOK(m)
    BY <1>1 DEF BusInv, Ownership
  <2>2. ASSUME NEW q \in Partition \ disturbed, q # p
        PROVE  /\ q \in group'[m] \ job'[m].back =>
                    /\ Reached(m, q)' <= position'[q]
                    /\ \A k \in Nat : <<q, k>> \in job'[m].batch <=> Reached(m, q)' <= k /\ k < position'[q]
               /\ q \notin group'[m] =>
                    /\ job'[m].frontier[q] = 0 /\ q \notin job'[m].back
                    /\ \A k \in Nat : <<q, k>> \notin job'[m].batch
    <3>1. Reached(m, q)' = Reached(m, q)
      BY <1>3, <1>5, <2>2, ReachedStays
    <3> QED
      BY <1>3, <1>5, <2>1, <2>2, <3>1 DEF ReadingOK
  <2>3. ASSUME p \notin disturbed
        PROVE  /\ Reached(m, p)' <= position'[p]
               /\ \A k \in Nat : <<p, k>> \in job'[m].batch <=> Reached(m, p)' <= k /\ k < position'[p]
    <3>1. committed[p] \in Nat /\ job[m].frontier[p] \in Nat /\ position[p] \in Nat
      BY <1>1, <1>4 DEF BusTypeOK, Jobs
    <3>2. committed[p] <= o
      BY <1>1, <1>2, <2>3, <3>1 DEF Reached
    <3>3. Reached(m, p)' = o + 1
      <4>1. committed'[p] = committed[p] /\ job'[m].frontier[p] = o + 1
        BY <1>1, <1>3, <1>5
      <4> QED
        BY ONLY <1>1, <3>1, <3>2, <4>1 DEF Reached
    <3>4. p \notin job[m].back
      BY <1>0 DEF Skipped
    <3>5. \A k \in Nat : <<p, k>> \in job[m].batch <=> o <= k /\ k < position[p]
      BY <1>1, <1>2, <2>1, <2>3, <3>4 DEF ReadingOK
    <3> QED
      BY <1>1, <1>2, <1>3, <1>5, <2>3, <3>1, <3>3, <3>5
  <2> QED
    BY ONLY <1>1, <1>3, <2>2, <2>3 DEF ReadingOK
<1>7. BusTypeOK' /\ Ownership'
  <2>1. handled' \subseteq Partition \X Nat
    BY <1>1, <1>3, <1>4 DEF BusTypeOK
  <2> QED
    BY <1>1, <1>3, <1>4, <1>5, <1>6, <2>1, OwnJob DEF BusTypeOK
<1>8. JobsOK'
  <2>1. ASSUME NEW c \in Member
        PROVE  /\ c \notin DOMAIN group \/ job'[c].pc = "idle" => job'[c] = Idle
               /\ job'[c].pc = "seek" => job'[c].batch = {} /\ job'[c].frontier = Idle.frontier
               /\ \A q \in Partition : job'[c].frontier[q] # 0 => <<q, job'[c].frontier[q] - 1>> \in handled'
    <3>1. CASE c = m
      <4>1. ASSUME NEW q \in Partition, job'[m].frontier[q] # 0
            PROVE  <<q, job'[m].frontier[q] - 1>> \in handled'
        <5>1. CASE q = p
          BY <1>1, <1>3, <1>5, <5>1
        <5>2. CASE q # p
          BY <1>3, <1>5, <4>1, <5>2 DEF BusInv, JobsOK
        <5> QED
          BY <5>1, <5>2
      <4> QED
        BY <1>1, <1>5, <3>1, <4>1
    <3>2. CASE c # m
      BY <1>3, <1>5, <3>2 DEF BusInv, JobsOK
    <3> QED
      BY <3>1, <3>2
  <2> QED
    BY <1>3, <2>1 DEF JobsOK
<1>9. HandledOK'
  <2>1. ASSUME NEW x \in handled', x[1] \notin disturbed
        PROVE  /\ x[2] < Len(log'[x[1]])
               /\ LET s == log'[x[1]][x[2] + 1]
                  IN  s \in deadLetters' \/ \E y \in processed' : y[2] = s.sig
    <3>1. CASE x = <<p, o>>
      <4>1. Record(m) = log[p][o + 1]
        BY <1>1 DEF Record
      <4> QED
        BY <1>1, <1>2, <1>3, <2>1, <3>1, <4>1
    <3>2. CASE x \in handled
      BY <1>3, <2>1, <3>2 DEF BusInv, HandledOK, Known, SignatureKnown
    <3> QED
      BY <1>3, <3>1, <3>2
  <2>2. \A q \in Partition \ disturbed' : position'[q] <= Len(log'[q]) /\ \A k \in 0..(committed'[q] - 1) : <<q, k>> \in handled'
    BY <1>3 DEF BusInv, HandledOK
  <2> QED
    BY ONLY <1>3, <2>1, <2>2 DEF HandledOK, Known, SignatureKnown
<1>10. InOrder'
  <2>1. ASSUME p \notin disturbed, NEW k \in 0..(o - 1) PROVE <<p, k>> \in handled
    BY <1>1, <1>2, <2>1, BelowReached
  <2>2. ASSUME NEW x \in handled', x[1] \notin disturbed, NEW k \in 0..(x[2] - 1) PROVE <<x[1], k>> \in handled'
    <3>1. CASE x = <<p, o>>
      BY <1>3, <2>1, <2>2, <3>1
    <3>2. CASE x \in handled
      BY <1>3, <2>2, <3>2 DEF BusInv, InOrder
    <3> QED
      BY <1>3, <3>1, <3>2
  <2> QED
    BY ONLY <1>3, <2>2 DEF InOrder
<1> QED
  BY <1>7, <1>8, <1>9, <1>10 DEF BusInv

LEMMA SkipInv ==
  ASSUME BusInv, NEW m \in Member, Skip(m)
  PROVE  BusInv'
<1>1. /\ Handling(m) /\ At(m)[1] \in job[m].back /\ job' = [job EXCEPT ![m].batch = Rest(m)]
      /\ UNCHANGED <<brokerVars, memory, handled, processed, deadLetters, incoming>>
  BY DEF Skip, Skipped
<1>2. job' = [job EXCEPT ![m] = job'[m]] /\ job'[m] = [job[m] EXCEPT !.batch = Rest(m)]
  BY <1>1, JobOf
<1>3. job[m].back \cup {At(m)[1]} = job[m].back
  BY <1>1
<1>4. job'[m] = [pc |-> "handle", batch |-> Rest(m), frontier |-> job[m].frontier,
                 back |-> job[m].back \cup {At(m)[1]}]
  <2> DEFINE r == job[m]
  <2>1. r = [pc |-> r.pc, batch |-> r.batch, frontier |-> r.frontier, back |-> r.back] /\ r.pc = "handle"
    BY <1>1, JobOf DEF Handling
  <2>2. job'[m] = [r EXCEPT !.batch = Rest(m)]
    BY <1>2
  <2> HIDE DEF r
  <2>3. job'[m] = [pc |-> r.pc, batch |-> Rest(m), frontier |-> r.frontier, back |-> r.back]
    BY ONLY <2>1, <2>2
  <2> QED
    BY <1>3, <2>1, <2>3 DEF r
<1>5. /\ DOMAIN memory' = Member
      /\ \A c \in Member : /\ memory'[c].seen = memory[c].seen
                           /\ memory'[c] = [seen |-> memory'[c].seen, tries |-> memory'[c].tries]
  BY <1>1, MemoryOf
<1> QED
  BY ONLY BusInv, m \in Member, <1>1, <1>2, <1>4, <1>5, DroppedInv

LEMMA RetryInv ==
  ASSUME BusInv, NEW m \in Member, Retry(m)
  PROVE  BusInv'
<1> DEFINE tried == (At(m) :> Tries(m) + 1) @@ memory[m].tries
<1>1. /\ Handling(m)
      /\ job' = [job EXCEPT ![m].batch = Rest(m), ![m].back = job[m].back \cup {At(m)[1]}]
      /\ UNCHANGED <<brokerVars, handled, processed, deadLetters, incoming>>
  BY DEF Retry, Fresh, Processable
<1>2. memory' = [memory EXCEPT ![m].tries = tried]
  BY DEF Retry
<1>3. job' = [job EXCEPT ![m] = job'[m]] /\ job'[m] = [job[m] EXCEPT !.batch = Rest(m), !.back = @ \cup {At(m)[1]}]
  BY <1>1, JobOf
<1>5. job'[m] = [pc |-> "handle", batch |-> Rest(m), frontier |-> job[m].frontier,
                 back |-> job[m].back \cup {At(m)[1]}]
  <2>1. job[m] = [pc |-> job[m].pc, batch |-> job[m].batch, frontier |-> job[m].frontier, back |-> job[m].back]
        /\ job[m].pc = "handle"
    BY <1>1, JobOf DEF Handling
  <2> QED
    BY ONLY <1>3, <2>1
<1> HIDE DEF tried
<1>4. /\ DOMAIN memory' = Member
      /\ \A c \in Member : /\ memory'[c].seen = memory[c].seen
                           /\ memory'[c] = [seen |-> memory'[c].seen, tries |-> memory'[c].tries]
  BY <1>2, TriesOnly
<1> QED
  BY ONLY BusInv, m \in Member, <1>1, <1>3, <1>4, <1>5, DroppedInv

\* A record dead-lettered, with the memory of its consumer otherwise as it was.
LEMMA DeadLetterInv ==
  ASSUME BusInv, NEW m \in Member, Handling(m), ~ Skipped(m), DeadLetter(m),
         DOMAIN memory' = Member,
         \A c \in Member : /\ memory'[c].seen = memory[c].seen
                           /\ memory'[c] = [seen |-> memory'[c].seen, tries |-> memory'[c].tries]
  PROVE  BusInv'
<1>1. /\ Done(m) /\ processed' = processed /\ deadLetters \subseteq deadLetters'
      /\ Record(m) \in deadLetters'
  BY DEF DeadLetter
<1>3. \A x \in processed' : x = <<x[1], x[2]>>
  BY <1>1 DEF BusInv, BusTypeOK
<1>2. \A c \in Member : \A s \in memory'[c].seen : SignatureKnown(s)'
  BY <1>1, SeenOf DEF SignatureKnown
<1> QED
  BY <1>1, <1>2, <1>3, DoneInv

LEMMA RefuseRecordInv ==
  ASSUME BusInv, NEW m \in Member, RefuseRecord(m)
  PROVE  BusInv'
BY MemoryOf, DeadLetterInv DEF RefuseRecord

LEMMA GiveUpInv ==
  ASSUME BusInv, NEW m \in Member, GiveUp(m)
  PROVE  BusInv'
<1> DEFINE left == Forgotten(m)
<1>1. Handling(m) /\ ~ Skipped(m) /\ DeadLetter(m) /\ memory' = [memory EXCEPT ![m].tries = left]
  BY DEF GiveUp, Fresh, Processable
<1> HIDE DEF left
<1>2. /\ DOMAIN memory' = Member
      /\ \A c \in Member : /\ memory'[c].seen = memory[c].seen
                           /\ memory'[c] = [seen |-> memory'[c].seen, tries |-> memory'[c].tries]
  BY <1>1, TriesOnly
<1> QED
  BY <1>1, <1>2, DeadLetterInv

LEMMA SkipDuplicateInv ==
  ASSUME BusInv, NEW m \in Member, SkipDuplicate(m)
  PROVE  BusInv'
<1>1. /\ Handling(m) /\ ~ Skipped(m) /\ Record(m).sig \in memory[m].seen /\ Done(m)
      /\ UNCHANGED <<memory, processed, deadLetters>>
  BY DEF SkipDuplicate, Processable
<1>2. \E y \in processed' : y[2] = Record(m).sig
  BY <1>1, SeenOf DEF SignatureKnown
<1>3. \A x \in processed' : x = <<x[1], x[2]>>
  BY <1>1 DEF BusInv, BusTypeOK
<1>4. /\ DOMAIN memory' = Member /\ processed \subseteq processed' /\ deadLetters \subseteq deadLetters'
      /\ \A c \in Member : memory'[c] = [seen |-> memory'[c].seen, tries |-> memory'[c].tries]
  BY <1>1, MemoryOf
<1>5. \A c \in Member : \A s \in memory'[c].seen : SignatureKnown(s)'
  BY <1>1, SeenOf DEF SignatureKnown
<1> QED
  BY <1>1, <1>2, <1>3, <1>4, <1>5, DoneInv

LEMMA ProcessInv ==
  ASSUME BusInv, NEW m \in Member, Process(m)
  PROVE  BusInv'
<1> DEFINE done == <<Record(m).key, Record(m).sig>>
           known == memory[m].seen \cup {Record(m).sig}
           left == Forgotten(m)
<1>1. /\ Handling(m) /\ ~ Skipped(m) /\ Done(m) /\ deadLetters' = deadLetters
      /\ memory' = [memory EXCEPT ![m] = [seen |-> known, tries |-> left]]
      /\ processed' = processed \cup {done}
  BY DEF Process, Fresh, Processable
<1>3. /\ done \in processed' /\ done[2] = Record(m).sig
      /\ \A x \in processed' : x = <<x[1], x[2]>>
  BY <1>1 DEF BusInv, BusTypeOK
<1> HIDE DEF left
<1>4. DOMAIN memory' = Member
  BY <1>1, MemoryOf
<1>5. ASSUME NEW c \in Member
      PROVE  /\ memory'[c] = [seen |-> memory'[c].seen, tries |-> memory'[c].tries]
             /\ \A s \in memory'[c].seen : SignatureKnown(s)'
  <2>1. CASE c = m
    <3>1. memory'[c] = [seen |-> known, tries |-> left]
      BY <1>1, <2>1, MemoryOf
    <3>2. memory'[c].seen = known /\ memory'[c].tries = left
      BY <3>1
    <3>3. \A s \in known : s = Record(m).sig \/ s \in memory[m].seen
      OBVIOUS
    <3>4. \A s \in memory[m].seen : SignatureKnown(s)'
      BY <1>1, SeenOf DEF SignatureKnown
    <3> QED
      BY <1>3, <3>1, <3>2, <3>3, <3>4 DEF SignatureKnown
  <2>2. CASE c # m
    <3>1. memory'[c] = memory[c]
      BY <1>1, <2>2, MemoryOf
    <3>2. \A s \in memory[c].seen : SignatureKnown(s)'
      BY <1>1, SeenOf DEF SignatureKnown
    <3> QED
      BY <3>1, <3>2, MemoryOf
  <2> QED
    BY <2>1, <2>2
<1>6. Record(m) \in deadLetters' \/ \E y \in processed' : y[2] = Record(m).sig
  BY <1>3
<1>7. processed \subseteq processed' /\ deadLetters \subseteq deadLetters'
  BY <1>1
<1> HIDE DEF known, done
<1> QED
  BY <1>1, <1>3, <1>4, <1>5, <1>6, <1>7, DoneInv

LEMMA LargerOfTwo ==
  ASSUME NEW a \in Nat, NEW b \in Nat
  PROVE  Max({a, b}) = IF a > b THEN a ELSE b
<1> DEFINE w == IF a > b THEN a ELSE b
<1>1. w \in {a, b} /\ \A y \in {a, b} : w >= y
  OBVIOUS
<1>2. \A x \in {a, b} : (\A y \in {a, b} : x >= y) => x = w
  OBVIOUS
<1> HIDE DEF w
<1>3. Max({a, b}) = w
  BY <1>1, <1>2 DEF Max
<1> QED
  BY <1>3 DEF w

LEMMA CommitBatchInv ==
  ASSUME BusInv, NEW m \in Member, CommitBatch(m)
  PROVE  BusInv'
<1> USE DEF CommitBatch
<1>1. m \in DOMAIN group
  BY BusyIsJoined
<1>2. BusTypeOK /\ job[m] \in Jobs /\ DOMAIN job = Member /\ ReadingOK(m)
  BY <1>1, JobOf DEF BusInv, Ownership
<1>3. ASSUME NEW p \in Partition
      PROVE  /\ committed[p] \in Nat /\ position[p] \in Nat /\ job[m].frontier[p] \in Nat
             /\ committed'[p] = Reached(m, p)
  <2>1. committed[p] \in Nat /\ position[p] \in Nat /\ job[m].frontier[p] \in Nat
    BY <1>2 DEF BusTypeOK, Jobs
  <2>2. committed'[p] = Max({committed[p], job[m].frontier[p]})
    OBVIOUS
  <2> QED
    BY <2>1, <2>2, LargerOfTwo DEF Reached
<1>4. committed' \in [Partition -> Nat]
  <2>1. \A p \in Partition : committed'[p] \in Nat
    BY <1>3 DEF Reached
  <2> QED
    BY <2>1
<1>5. /\ job'[m].batch = {} /\ job'[m].frontier = Idle.frontier /\ job'[m].back = job[m].back
      /\ job'[m].pc = (IF job[m].back = {} THEN "idle" ELSE "seek")
      /\ job'[m] \in Jobs /\ (job[m].back = {} => job'[m] = Idle)
      /\ \A c \in Member \ {m} : job'[c] = job[c]
      /\ job' = [job EXCEPT ![m] = job'[m]]
  <2>1. job'[m] = [pc |-> IF job[m].back = {} THEN "idle" ELSE "seek", batch |-> {},
                   frontier |-> Idle.frontier, back |-> job[m].back]
    BY <1>2 DEF Idle
  <2>2. \A c \in Member \ {m} : job'[c] = job[c]
    BY <1>2
  <2>3. job' = [job EXCEPT ![m] = job'[m]]
    BY <1>2
  <2>4. /\ Idle = [pc |-> "idle", batch |-> {}, frontier |-> Idle.frontier, back |-> {}]
        /\ Idle.frontier \in [Partition -> Nat] /\ job[m].back \in SUBSET Partition
    BY <1>2 DEF Idle, Jobs
  <2>5. job'[m] \in Jobs
    BY ONLY <2>1, <2>4 DEF Jobs
  <2> QED
    BY ONLY <2>1, <2>2, <2>3, <2>4, <2>5
<1>6. ReadingOK(m)'
  <2>1. \A p \in Partition : job'[m].frontier[p] = 0
    BY <1>5, IdleHasNothing
  <2>2. ASSUME NEW p \in Partition \ disturbed
        PROVE  /\ p \in group'[m] \ job'[m].back =>
                    /\ Reached(m, p)' <= position'[p]
                    /\ \A o \in Nat : <<p, o>> \in job'[m].batch <=> Reached(m, p)' <= o /\ o < position'[p]
               /\ p \notin group'[m] =>
                    /\ job'[m].frontier[p] = 0 /\ p \notin job'[m].back
                    /\ \A o \in Nat : <<p, o>> \notin job'[m].batch
    <3>1. group' = group /\ position' = position /\ job[m].batch = {}
      OBVIOUS
    <3>2. Reached(m, p)' = Reached(m, p) /\ Reached(m, p) \in Nat
      BY <1>3, <1>4, <2>1, FreshStart
    <3>3. ASSUME p \in group[m] \ job[m].back
          PROVE  Reached(m, p) = position[p]
      <4>1. PICK r \in Nat : r = Reached(m, p)
        BY <3>2
      <4>2. r <= position[p] /\ \A o \in Nat : ~ (r <= o /\ o < position[p])
        BY <1>2, <3>1, <3>3, <4>1 DEF ReadingOK
      <4> QED
        BY ONLY <1>3, p \in Partition, <4>1, <4>2
    <3>4. p \notin group[m] => p \notin job[m].back
      BY <1>2 DEF ReadingOK
    <3>5. position[p] \in Nat
      BY <1>3
    <3> QED
      BY ONLY <1>5, <2>1, <3>1, <3>2, <3>3, <3>4, <3>5, p \in Partition
  <2> QED
    BY <2>2 DEF ReadingOK
<1>7. \A p \in Partition \ (disturbed \cup group[m]) : committed'[p] = committed[p]
  BY <1>2, <1>3 DEF ReadingOK, Reached
<1>8. BusTypeOK' /\ Ownership'
  <2>1. position' \in [Partition -> Nat]
    BY <1>2 DEF BusTypeOK
  <2>2. \A p \in Partition \ (disturbed \cup group[m]) : position'[p] = position[p]
    OBVIOUS
  <2> QED
    BY <1>1, <1>2, <1>4, <1>5, <1>6, <1>7, <2>1, <2>2, OwnJob DEF BusTypeOK
<1>9. JobsOK'
  <2>1. ASSUME NEW c \in Member
        PROVE  /\ c \notin DOMAIN group \/ job'[c].pc = "idle" => job'[c] = Idle
               /\ job'[c].pc = "seek" => job'[c].batch = {} /\ job'[c].frontier = Idle.frontier
               /\ \A q \in Partition : job'[c].frontier[q] # 0 => <<q, job'[c].frontier[q] - 1>> \in handled
    <3>1. CASE c = m
      BY <1>1, <1>5, <3>1, IdleHasNothing
    <3>2. CASE c # m
      BY <1>5, <3>2 DEF BusInv, JobsOK
    <3> QED
      BY <3>1, <3>2
  <2>2. \A c \in Member : \A s \in memory'[c].seen : SignatureKnown(s)'
    BY SeenOf DEF SignatureKnown
  <2>3. UNCHANGED <<group, handled>>
    OBVIOUS
  <2> QED
    BY ONLY <2>1, <2>2, <2>3 DEF JobsOK
<1>10. HandledOK' /\ InOrder'
  <2>1. ASSUME NEW p \in Partition \ disturbed, NEW o \in 0..(committed'[p] - 1) PROVE <<p, o>> \in handled
    <3>1. o \in Nat /\ o < Reached(m, p)
      BY <1>3, <1>4, <2>1
    <3> QED
      BY <3>1, BelowReached
  <2> QED
    BY <2>1 DEF BusInv, HandledOK, InOrder, Known, SignatureKnown
<1> QED
  BY <1>8, <1>9, <1>10 DEF BusInv

LEMMA SeekToCommittedInv ==
  ASSUME BusInv, NEW m \in Member, SeekToCommitted(m)
  PROVE  BusInv'
<1> USE DEF SeekToCommitted
<1>1. m \in DOMAIN group
  BY BusyIsJoined
<1>2. BusTypeOK /\ job[m] \in Jobs /\ DOMAIN job = Member /\ ReadingOK(m)
  BY <1>1, JobOf DEF BusInv, Ownership
<1>3. job[m].batch = {} /\ job[m].frontier = Idle.frontier
  BY DEF BusInv, JobsOK
<1>4. ASSUME NEW p \in Partition
      PROVE  /\ committed[p] \in Nat /\ position[p] \in Nat
             /\ position'[p] = IF p \in job[m].back THEN committed[p] ELSE position[p]
  BY <1>2 DEF BusTypeOK, RolledBack
<1>5. /\ job'[m] = Idle /\ job'[m] \in Jobs /\ job' = [job EXCEPT ![m] = job'[m]]
      /\ \A c \in Member \ {m} : job'[c] = job[c]
  <2>1. Idle \in Jobs
    BY DEF Idle, Jobs
  <2> QED
    BY <1>2, <2>1
<1>6. \A p \in group[m] \ disturbed : position'[p] = committed[p]
  <2> TAKE p \in group[m] \ disturbed
  <2>1. p \in Partition
    BY <1>1, <1>2 DEF BusTypeOK
  <2>2. CASE p \in job[m].back
    BY <1>4, <2>1, <2>2
  <2>3. CASE p \notin job[m].back
    <3>1. Reached(m, p) = committed[p]
      BY <1>3, <1>4, <2>1, IdleHasNothing DEF Reached
    <3>2. /\ committed[p] <= position[p]
          /\ \A o \in Nat : ~ (committed[p] <= o /\ o < position[p])
      BY <1>2, <1>3, <2>1, <2>3, <3>1 DEF ReadingOK
    <3> QED
      BY <1>4, <2>1, <2>3, <3>2
  <2> QED
    BY <2>2, <2>3
<1>7. \A p \in Partition \ (disturbed \cup group[m]) : position'[p] = position[p]
  BY <1>2, <1>4 DEF ReadingOK
<1>8. ReadingOK(m)'
  <2>1. ASSUME NEW p \in Partition \ disturbed
        PROVE  /\ p \in group'[m] \ job'[m].back =>
                    /\ Reached(m, p)' <= position'[p]
                    /\ \A o \in Nat : <<p, o>> \in job'[m].batch <=> Reached(m, p)' <= o /\ o < position'[p]
               /\ p \notin group'[m] =>
                    /\ job'[m].frontier[p] = 0 /\ p \notin job'[m].back
                    /\ \A o \in Nat : <<p, o>> \notin job'[m].batch
    <3>1. job'[m].frontier[p] = 0 /\ job'[m].batch = {} /\ job'[m].back = {}
      BY <1>5, IdleHasNothing
    <3>2. group' = group /\ committed' = committed /\ committed[p] \in Nat
      BY <1>4
    <3>3. Reached(m, p)' = committed[p]
      BY <3>1, <3>2, FreshStart
    <3> QED
      BY ONLY <1>6, <3>1, <3>2, <3>3
  <2> QED
    BY <2>1 DEF ReadingOK
<1>9. BusTypeOK' /\ Ownership'
  <2>1. position' \in [Partition -> Nat]
    BY <1>4 DEF RolledBack
  <2>2. UNCHANGED committed
    OBVIOUS
  <2> QED
    BY <1>1, <1>2, <1>5, <1>7, <1>8, <2>1, <2>2, OwnJob DEF BusTypeOK
<1>10. JobsOK'
  <2>1. ASSUME NEW c \in Member
        PROVE  /\ c \notin DOMAIN group \/ job'[c].pc = "idle" => job'[c] = Idle
               /\ job'[c].pc = "seek" => job'[c].batch = {} /\ job'[c].frontier = Idle.frontier
               /\ \A q \in Partition : job'[c].frontier[q] # 0 => <<q, job'[c].frontier[q] - 1>> \in handled
    <3>1. CASE c = m
      BY <1>5, <3>1, IdleHasNothing
    <3>2. CASE c # m
      BY <1>5, <3>2 DEF BusInv, JobsOK
    <3> QED
      BY <3>1, <3>2
  <2>2. \A c \in Member : \A s \in memory'[c].seen : SignatureKnown(s)'
    BY SeenOf DEF SignatureKnown
  <2>3. UNCHANGED <<group, handled>>
    OBVIOUS
  <2> QED
    BY ONLY <2>1, <2>2, <2>3 DEF JobsOK
<1>11. HandledOK' /\ InOrder'
  <2>1. \A p \in Partition \ disturbed : position'[p] <= Len(log'[p])
    BY <1>4, CommittedIsLogged DEF BusInv, HandledOK
  <2> QED
    BY <2>1 DEF BusInv, HandledOK, InOrder, Known, SignatureKnown
<1> QED
  BY <1>9, <1>10, <1>11 DEF BusInv

LEMMA BusUntouched ==
  ASSUME BusInv, UNCHANGED <<brokerVars, job, memory, handled, processed, deadLetters, incoming>>
  PROVE  BusInv'
<1>1. UNCHANGED <<log, committed, position, group, disturbed>>
  BY DEF brokerVars
<1>2. BusTypeOK'
  BY <1>1 DEF BusInv, BusTypeOK
<1>3. Ownership'
  BY <1>1 DEF BusInv, Ownership, ReadingOK, Reached
<1>4. JobsOK'
  BY <1>1 DEF BusInv, JobsOK, SignatureKnown
<1>5. HandledOK' /\ InOrder'
  BY <1>1 DEF BusInv, HandledOK, InOrder, Known, SignatureKnown
<1> QED
  BY <1>2, <1>3, <1>4, <1>5 DEF BusInv

LEMMA BusStep ==
  ASSUME BusInv, [BusNext]_busVars
  PROVE  BusInv'
<1>1. CASE UNCHANGED busVars
  BY <1>1, BusUntouched DEF busVars
<1>2. ASSUME NEW r \in incoming, Produce(r) PROVE BusInv'
  BY <1>2, ProduceInv
<1>3. ASSUME NEW m \in Member, JoinGroup(m) PROVE BusInv'
  BY <1>3, JoinGroupInv
<1>4. ASSUME NEW m \in Member, LeaveGroup(m) PROVE BusInv'
  BY <1>4, LeaveGroupInv
<1>5. ASSUME NEW m \in Member, Consume(m) PROVE BusInv'
  BY <1>5, PollInv, SkipInv, RefuseRecordInv, SkipDuplicateInv, ProcessInv, GiveUpInv, RetryInv,
     CommitBatchInv, SeekToCommittedInv DEF Consume
<1>6. CASE GateStart \/ GateReadHigh \/ GateReadCommitted \/ GateDecide
  <2>1. UNCHANGED <<brokerVars, job, memory, handled, processed, deadLetters, incoming>>
    BY <1>6 DEF GateStart, GateReadHigh, GateReadCommitted, GateDecide
  <2> QED
    BY <2>1, BusUntouched
<1> QED
  BY <1>1, <1>2, <1>3, <1>4, <1>5, <1>6 DEF BusNext

\* Whoever polls, handles, retries, commits, rewinds, comes, leaves or dies,
\* in any order, a consumer's batch is what it has read of its partitions and
\* not reached, and whatever is acknowledged is known to the processor or in
\* the dead-letter topic, in every partition but those a rebalance took from a
\* consumer in the middle of them (consumer.py, broker.py).
THEOREM BusInvariant == BusSpec => []BusInv
<1>1. BusInv /\ [BusNext]_busVars => BusInv'
  BY BusStep
<1> QED
  BY <1>1, BusStarts, PTL DEF BusSpec

LEMMA BusInvDelivers == BusInv => DeliveryHolds
<1> SUFFICES ASSUME BusInv PROVE DeliveryHolds
  OBVIOUS
<1>1. ASSUME NEW p \in Partition \ disturbed, NEW o \in 1..committed[p] PROVE DealtWith(log[p][o])
  <2> DEFINE r == log[p][o]
             x == <<p, o - 1>>
  <2>1. o - 1 \in 0..(committed[p] - 1) /\ (o - 1) + 1 = o
    BY DEF BusInv, BusTypeOK
  <2>2. x \in handled
    BY <2>1 DEF BusInv, HandledOK
  <2>3. Known(log[x[1]][x[2] + 1])
    BY <2>2 DEF BusInv, HandledOK
  <2>4. Known(r)
    BY <2>1, <2>3
  <2> HIDE DEF r
  <2>5. ASSUME NEW y \in processed, y[2] = r.sig
        PROVE  <<r.key, r.sig>> \in processed \/ SharedWithAnother(r)
    <3>1. y = <<y[1], y[2]>>
      BY DEF BusInv, BusTypeOK
    <3>2. CASE y[1] = r.key
      BY <2>5, <3>1, <3>2
    <3>3. CASE y[1] # r.key
      BY <2>5, <3>1, <3>3 DEF SharedWithAnother
    <3> QED
      BY <3>2, <3>3
  <2>6. DealtWith(r)
    BY <2>4, <2>5 DEF Known, SignatureKnown, DealtWith
  <2> QED
    BY <2>6 DEF r
<1> QED
  BY <1>1 DEF Kept, DeliveryHolds, BusInv

\* So the records of such a partition are dealt with in their order, and nothing
\* the group acknowledges of it is lost but what another agent's record of the
\* same transaction already brought, however many consumers, partitions,
\* retries and departures there are.
THEOREM RecordsInOrder == BusSpec => []InOrder
<1>1. BusInv => InOrder
  BY DEF BusInv
<1> QED
  BY <1>1, BusInvariant, PTL

THEOREM DeliveryIsSound == BusSpec => []DeliveryHolds
BY BusInvariant, BusInvDelivers, PTL

-----------------------------------------------------------------------------
(* The certificate gate, however partitions change hands.                  *)

\* The partitions are counted from 0.
LEMMA PartitionsCounted ==
  ASSUME NEW n, n = Cardinality(Partition)
  PROVE  /\ n \in Nat
         /\ \A k \in Partition : k \in Nat /\ k < n
         /\ \A k \in Nat : k < n => k \in Partition
<1>1. n \in Nat
  BY BusAssumption, FS_CardinalityType
<1>2. Partition = 0..(n - 1)
  BY BusAssumption
<1>3. /\ \A k \in 0..(n - 1) : k \in Nat /\ k < n
      /\ \A k \in Nat : k < n => k \in 0..(n - 1)
  BY <1>1
<1> QED
  BY ONLY <1>1, <1>2, <1>3

\* The totals of naturals over the partitions.
LEMMA TotalsExist ==
  ASSUME NEW f \in [Partition -> Nat]
  PROVE  Totals(f) = [k \in 0..Cardinality(Partition) |->
                        IF k = 0 THEN 0 ELSE Totals(f)[k - 1] + f[k - 1]]
<1> DEFINE UpTo(n, t) == t = [i \in 0..n |-> IF i = 0 THEN 0 ELSE t[i - 1] + f[i - 1]]
           Missing == {n \in 0..Cardinality(Partition) : ~ \E t : UpTo(n, t)}
<1>0. Cardinality(Partition) \in Nat
  BY BusAssumption, FS_CardinalityType
<1>1. ASSUME Missing # {}
      PROVE  FALSE
  <2>1. PICK k \in Missing : \A y \in Missing : k <= y
    <3>1. Missing \in SUBSET Nat
      BY <1>0
    <3> HIDE DEF Missing
    <3> QED
      BY <1>1, <3>1, LeastNatural
  <2>2. k \in 0..Cardinality(Partition) /\ ~ \E t : UpTo(k, t)
    BY <2>1
  <2>3. CASE k = 0
    <3> DEFINE t == [i \in 0..0 |-> 0]
    <3>1. t = [i \in 0..0 |-> IF i = 0 THEN 0 ELSE t[i - 1] + f[i - 1]]
      OBVIOUS
    <3>2. UpTo(0, t)
      BY <3>1
    <3> HIDE DEF t, UpTo
    <3> QED
      BY <2>2, <2>3, <3>2
  <2>4. CASE k # 0
    <3>1. k - 1 \in 0..Cardinality(Partition) /\ k - 1 \notin Missing
      <4> HIDE DEF Missing
      <4> QED
        BY <1>0, <2>1, <2>2, <2>4
    <3>2. PICK s : UpTo(k - 1, s)
      BY <3>1
    <3> DEFINE t == [i \in 0..k |-> IF i = k THEN s[k - 1] + f[k - 1] ELSE s[i]]
    <3>3. ASSUME NEW i \in 0..k
          PROVE  t[i] = IF i = 0 THEN 0 ELSE t[i - 1] + f[i - 1]
      <4>1. CASE i = k
        BY <1>0, <2>2, <2>4, <4>1
      <4>2. CASE i # k
        <5>1. i \in 0..(k - 1) /\ t[i] = s[i]
          BY <1>0, <2>2, <4>2
        <5>2. s[i] = IF i = 0 THEN 0 ELSE s[i - 1] + f[i - 1]
          BY <3>2, <5>1
        <5>3. i # 0 => t[i - 1] = s[i - 1]
          BY <1>0, <2>2, <5>1
        <5> HIDE DEF t
        <5> QED
          BY <5>1, <5>2, <5>3
      <4> QED
        BY <4>1, <4>2
    <3>4. t = [i \in 0..k |-> t[i]]
      OBVIOUS
    <3> HIDE DEF t
    <3>5. UpTo(k, t)
      BY <3>3, <3>4
    <3> QED
      BY <2>2, <3>5
  <2> QED
    BY <2>3, <2>4
<1>2. Cardinality(Partition) \in 0..Cardinality(Partition) /\ Cardinality(Partition) \notin Missing
  <2> HIDE DEF Missing
  <2> QED
    BY <1>0, <1>1
<1>3. \E t : UpTo(Cardinality(Partition), t)
  BY <1>2
<1>4. Totals(f) = CHOOSE t : UpTo(Cardinality(Partition), t)
  BY DEF Totals
<1>5. UpTo(Cardinality(Partition), Totals(f))
  <2> HIDE DEF UpTo
  <2> QED
    BY <1>3, <1>4
<1> QED
  BY <1>5

LEMMA TotalsOf ==
  ASSUME NEW f \in [Partition -> Nat]
  PROVE  /\ Totals(f)[0] = 0
         /\ \A k \in 0..Cardinality(Partition) : Totals(f)[k] \in Nat
         /\ \A k \in Partition : Totals(f)[k + 1] = Totals(f)[k] + f[k]
<1> PICK t : t = Totals(f)
  OBVIOUS
<1> PICK n \in Nat : n = Cardinality(Partition)
  BY BusAssumption, FS_CardinalityType
<1>1. \A k \in 0..n : t[k] = IF k = 0 THEN 0 ELSE t[k - 1] + f[k - 1]
  <2>1. t = [k \in 0..n |-> IF k = 0 THEN 0 ELSE t[k - 1] + f[k - 1]]
    BY TotalsExist
  <2> QED
    BY <2>1
<1>2. /\ \A k \in Partition : k \in Nat /\ k < n
      /\ \A k \in Nat : k < n => k \in Partition
  BY PartitionsCounted
<1>3. \A k \in 0..n : t[k] \in Nat
  <2> DEFINE Off == {k \in 0..n : t[k] \notin Nat}
  <2> SUFFICES ASSUME Off # {}
               PROVE  FALSE
    OBVIOUS
  <2>1. PICK k \in Off : \A y \in Off : k <= y
    <3>1. Off \in SUBSET Nat
      OBVIOUS
    <3> HIDE DEF Off
    <3> QED
      BY <3>1, LeastNatural
  <2>2. k \in 0..n /\ t[k] \notin Nat
    OBVIOUS
  <2>3. k # 0
    BY <1>1, <2>2
  <2>4. k - 1 \in 0..n /\ k - 1 \in Nat /\ k - 1 < n /\ ~ (k <= k - 1)
    BY <2>2, <2>3
  <2>5. t[k - 1] \in Nat /\ f[k - 1] \in Nat
    BY <1>2, <2>1, <2>4
  <2> QED
    BY <1>1, <2>2, <2>3, <2>5
<1>4. ASSUME NEW k \in Partition PROVE t[k + 1] = t[k] + f[k]
  <2>1. k \in Nat /\ k + 1 \in 0..n /\ k + 1 # 0 /\ (k + 1) - 1 = k
    BY <1>2
  <2> QED
    BY <1>1, <2>1
<1> QED
  BY <1>1, <1>3, <1>4

LEMMA TotalsRise ==
  ASSUME NEW f \in [Partition -> Nat], NEW g \in [Partition -> Nat],
         \A p \in Partition : f[p] <= g[p]
  PROVE  \A k \in 0..Cardinality(Partition) : Totals(f)[k] <= Totals(g)[k]
<1> PICK s, t : s = Totals(f) /\ t = Totals(g)
  OBVIOUS
<1> PICK n \in Nat : n = Cardinality(Partition)
  BY BusAssumption, FS_CardinalityType
<1>1. /\ s[0] = 0 /\ t[0] = 0 /\ \A k \in 0..n : s[k] \in Nat /\ t[k] \in Nat
      /\ \A k \in Partition : s[k + 1] = s[k] + f[k] /\ t[k + 1] = t[k] + g[k]
  BY TotalsOf
<1>2. /\ \A k \in Partition : k \in Nat /\ k < n
      /\ \A k \in Nat : k < n => k \in Partition
  BY PartitionsCounted
<1> DEFINE Off == {k \in 0..n : ~ (s[k] <= t[k])}
<1> SUFFICES ASSUME Off # {}
             PROVE  FALSE
  OBVIOUS
<1>3. PICK k \in Off : \A y \in Off : k <= y
  <2>1. Off \in SUBSET Nat
    OBVIOUS
  <2> HIDE DEF Off
  <2> QED
    BY <2>1, LeastNatural
<1>4. k \in 0..n /\ ~ (s[k] <= t[k])
  OBVIOUS
<1>5. k # 0
  BY <1>1, <1>4
<1>6. PICK j \in Nat : k = j + 1 /\ j < n /\ j \in 0..n /\ ~ (k <= j)
  <2>1. k - 1 \in Nat /\ k = (k - 1) + 1 /\ k - 1 < n /\ k - 1 \in 0..n /\ ~ (k <= k - 1)
    BY <1>4, <1>5
  <2> QED
    BY <2>1
<1>7. s[j] <= t[j]
  BY <1>3, <1>6
<1>8. j \in Partition /\ f[j] \in Nat /\ g[j] \in Nat /\ f[j] <= g[j]
  BY <1>2, <1>6
<1>9. s[k] = s[j] + f[j] /\ t[k] = t[j] + g[j] /\ s[j] \in Nat /\ t[j] \in Nat
  BY <1>1, <1>6, <1>8
<1> QED
  BY <1>4, <1>7, <1>8, <1>9

\* The types of the broker's state and of the consumers' jobs, whoever joins
\* in the middle of a batch.
OffsetsOK ==
  /\ incoming \subseteq Incoming /\ log \in [Partition -> Seq(Incoming)]
  /\ committed \in [Partition -> Nat] /\ position \in [Partition -> Nat]
  /\ group \in [DOMAIN group -> SUBSET Partition] /\ DOMAIN group \subseteq Member
  /\ job \in [Member -> Jobs]

\* What the broker holds and has acknowledged only grows.
OffsetsGrow ==
  \A p \in Partition : committed[p] <= committed'[p] /\ Len(log[p]) <= Len(log'[p])

\* A step of a consumer on its job alone.
LEMMA JobStep ==
  ASSUME OffsetsOK, NEW m \in Member, NEW j \in Jobs, job' = [job EXCEPT ![m] = j],
         UNCHANGED <<log, committed, group, incoming>>, position' \in [Partition -> Nat]
  PROVE  OffsetsOK' /\ OffsetsGrow
<1>1. job' \in [Member -> Jobs]
  BY DEF OffsetsOK
<1>2. \A p \in Partition : committed[p] \in Nat /\ Len(log[p]) \in Nat
  BY DEF OffsetsOK
<1>3. OffsetsGrow
  BY <1>2 DEF OffsetsGrow
<1> QED
  BY <1>1, <1>3 DEF OffsetsOK

LEMMA IdleIsJob == Idle \in Jobs
BY DEF Idle, Jobs

LEMMA ProduceOffsets ==
  ASSUME OffsetsOK, NEW r \in incoming, Produce(r)
  PROVE  OffsetsOK' /\ OffsetsGrow
<1>1. r \in Incoming /\ log \in [Partition -> Seq(Incoming)]
  BY DEF OffsetsOK
<1>2. log' = [log EXCEPT ![PartitionOf[r.key]] = Append(@, r)]
  BY DEF Produce
<1>3. ASSUME NEW p \in Partition
      PROVE  log'[p] \in Seq(Incoming) /\ Len(log[p]) <= Len(log'[p])
  <2>1. PICK l \in Seq(Incoming) : l = log[p]
    BY <1>1
  <2>2. log'[p] = l \/ log'[p] = Append(l, r)
    BY <1>1, <1>2, <2>1
  <2>3. Append(l, r) \in Seq(Incoming) /\ Len(Append(l, r)) = Len(l) + 1 /\ Len(l) \in Nat
    BY <1>1, <2>1
  <2>4. log'[p] \in Seq(Incoming)
    BY ONLY <2>1, <2>2, <2>3
  <2>5. Len(l) <= Len(log'[p])
    BY ONLY <2>2, <2>3
  <2> QED
    BY ONLY <2>1, <2>4, <2>5
<1>4. DOMAIN log' = Partition /\ log' = [p \in DOMAIN log' |-> log'[p]]
  BY <1>1, <1>2
<1>5. log' \in [Partition -> Seq(Incoming)]
  BY <1>3, <1>4
<1>6. \A p \in Partition : committed[p] \in Nat
  BY DEF OffsetsOK
<1>7. UNCHANGED <<committed, position, group, job>> /\ incoming' \subseteq incoming
  BY DEF Produce
<1> QED
  BY <1>3, <1>5, <1>6, <1>7 DEF OffsetsOK, OffsetsGrow

LEMMA GroupOffsets ==
  ASSUME OffsetsOK, NEW m \in Member, JoinGroup(m) \/ LeaveGroup(m)
  PROVE  OffsetsOK' /\ OffsetsGrow
<1>1. /\ DOMAIN Rebalanced(DOMAIN group \cup {m}) = DOMAIN group \cup {m}
      /\ Rebalanced(DOMAIN group \cup {m}) \in [DOMAIN group \cup {m} -> SUBSET Partition]
  BY DEF Rebalanced
<1>2. /\ DOMAIN Rebalanced(DOMAIN group \ {m}) = DOMAIN group \ {m}
      /\ Rebalanced(DOMAIN group \ {m}) \in [DOMAIN group \ {m} -> SUBSET Partition]
  BY DEF Rebalanced
<1>3. /\ group' \in [DOMAIN group' -> SUBSET Partition] /\ DOMAIN group' \subseteq Member
      /\ UNCHANGED <<log, committed, incoming>>
  BY <1>1, <1>2 DEF JoinGroup, LeaveGroup, OffsetsOK
<1>4. position' \in [Partition -> Nat]
  BY DEF JoinGroup, LeaveGroup, RolledBack, OffsetsOK
<1>5. job' \in [Member -> Jobs]
  BY IdleIsJob DEF JoinGroup, LeaveGroup, OffsetsOK
<1>6. \A p \in Partition : committed[p] \in Nat /\ Len(log[p]) \in Nat
  BY DEF OffsetsOK
<1>7. OffsetsGrow
  BY <1>3, <1>6 DEF OffsetsGrow
<1> QED
  BY <1>3, <1>4, <1>5, <1>7 DEF OffsetsOK

LEMMA PollOffsets ==
  ASSUME OffsetsOK, NEW m \in Member, Poll(m)
  PROVE  OffsetsOK' /\ OffsetsGrow
<1>1. IsFiniteSet(Unread(m)) /\ Unread(m) \subseteq Partition \X Nat
  BY UnreadCounted DEF OffsetsOK, Poll
<1>2. Polled(m) \subseteq Unread(m)
  BY DEF Polled
<1>3. ASSUME NEW p \in Partition
      PROVE  position[p] + Cardinality({x \in Polled(m) : x[1] = p}) \in Nat
  <2>1. IsFiniteSet({x \in Polled(m) : x[1] = p})
    BY <1>1, <1>2, FS_Subset
  <2>2. Cardinality({x \in Polled(m) : x[1] = p}) \in Nat /\ position[p] \in Nat
    BY <2>1, FS_CardinalityType DEF OffsetsOK
  <2> QED
    BY <2>2
<1>4. position' \in [Partition -> Nat]
  BY <1>3 DEF Poll
<1>5. [Idle EXCEPT !.pc = "handle", !.batch = Polled(m)] \in Jobs
  BY <1>1, <1>2 DEF Idle, Jobs
<1> QED
  BY <1>4, <1>5, JobStep DEF Poll

\* The next record of a batch leaves it.
LEMMA DropOffsets ==
  ASSUME OffsetsOK, NEW m \in Member, Handling(m)
  PROVE  /\ At(m)[1] \in Partition /\ At(m)[2] \in Nat
         /\ [job[m] EXCEPT !.batch = Rest(m)] \in Jobs
         /\ [job[m] EXCEPT !.batch = Rest(m), !.back = @ \cup {At(m)[1]}] \in Jobs
         /\ [job[m] EXCEPT !.batch = Rest(m), !.frontier[At(m)[1]] = At(m)[2] + 1] \in Jobs
<1>1. job[m] \in Jobs
  BY DEF OffsetsOK
<1>2. job[m].batch \in SUBSET (Partition \X Nat) /\ job[m].frontier \in [Partition -> Nat]
      /\ job[m].back \in SUBSET Partition
  BY <1>1 DEF Jobs
<1>3. At(m) \in job[m].batch
  BY <1>2, FirstOfBatch DEF Handling
<1>4. At(m)[1] \in Partition /\ At(m)[2] \in Nat
  BY <1>2, <1>3
<1>5. Rest(m) \in SUBSET (Partition \X Nat)
  BY <1>2 DEF Rest
<1>6. At(m)[2] + 1 \in Nat
  BY <1>4
<1> HIDE DEF Rest
<1>7. [job[m].frontier EXCEPT ![At(m)[1]] = At(m)[2] + 1] \in [Partition -> Nat]
  BY <1>2, <1>6
<1>8. [job[m] EXCEPT !.batch = Rest(m)] \in Jobs
  BY <1>1, <1>5 DEF Jobs
<1>9. [job[m] EXCEPT !.batch = Rest(m), !.back = @ \cup {At(m)[1]}] \in Jobs
  BY <1>1, <1>4, <1>5 DEF Jobs
<1>10. [job[m] EXCEPT !.batch = Rest(m), !.frontier[At(m)[1]] = At(m)[2] + 1] \in Jobs
  BY <1>1, <1>5, <1>7 DEF Jobs
<1> QED
  BY <1>4, <1>8, <1>9, <1>10

LEMMA HandleOffsets ==
  ASSUME OffsetsOK, NEW m \in Member,
         Skip(m) \/ RefuseRecord(m) \/ SkipDuplicate(m) \/ Process(m) \/ GiveUp(m) \/ Retry(m)
  PROVE  OffsetsOK' /\ OffsetsGrow
<1>1. Handling(m)
  BY DEF Skip, RefuseRecord, SkipDuplicate, Process, GiveUp, Retry, Fresh, Processable
<1>2. UNCHANGED <<log, committed, group, incoming, position>>
  BY DEF Skip, RefuseRecord, SkipDuplicate, Process, GiveUp, Retry, DeadLetter, Done, brokerVars
<1>3. position' \in [Partition -> Nat]
  BY <1>2 DEF OffsetsOK
<1>4. job \in [Member -> Jobs]
  BY DEF OffsetsOK
<1>5. \E j \in Jobs : job' = [job EXCEPT ![m] = j]
  <2>1. CASE Skip(m)
    <3>1. job' = [job EXCEPT ![m] = [job[m] EXCEPT !.batch = Rest(m)]]
      BY <2>1, <1>4 DEF Skip
    <3> QED
      BY <1>1, <3>1, DropOffsets
  <2>2. CASE Retry(m)
    <3>1. job' = [job EXCEPT ![m] = [job[m] EXCEPT !.batch = Rest(m), !.back = @ \cup {At(m)[1]}]]
      BY <2>2, <1>4 DEF Retry
    <3> QED
      BY <1>1, <3>1, DropOffsets
  <2>3. CASE Done(m)
    <3>1. job' = [job EXCEPT ![m] =
                    [job[m] EXCEPT !.batch = Rest(m), !.frontier[At(m)[1]] = At(m)[2] + 1]]
      BY <2>3, <1>4 DEF Done
    <3> QED
      BY <1>1, <3>1, DropOffsets
  <2>4. Skip(m) \/ Retry(m) \/ Done(m)
    BY DEF RefuseRecord, SkipDuplicate, Process, GiveUp, DeadLetter
  <2> QED
    BY <2>1, <2>2, <2>3, <2>4
<1> QED
  BY <1>2, <1>3, <1>5, JobStep

LEMMA CommitOffsets ==
  ASSUME OffsetsOK, NEW m \in Member, CommitBatch(m) \/ SeekToCommitted(m)
  PROVE  OffsetsOK' /\ OffsetsGrow
<1>1. job[m] \in Jobs
  BY DEF OffsetsOK
<1>2. job[m].frontier \in [Partition -> Nat] /\ job[m].back \in SUBSET Partition
  BY <1>1 DEF Jobs
<1>3. CASE SeekToCommitted(m)
  <2>1. position' \in [Partition -> Nat]
    BY <1>3 DEF SeekToCommitted, RolledBack, OffsetsOK
  <2> QED
    BY <1>3, <2>1, IdleIsJob, JobStep DEF SeekToCommitted
<1>4. CASE CommitBatch(m)
  <2>1. ASSUME NEW p \in Partition
        PROVE  committed'[p] \in Nat /\ committed[p] <= committed'[p]
    <3>1. committed[p] \in Nat /\ job[m].frontier[p] \in Nat
      BY <1>2 DEF OffsetsOK
    <3>2. committed'[p] = Max({committed[p], job[m].frontier[p]})
      BY <1>4 DEF CommitBatch
    <3>3. PICK a, b \in Nat : a = committed[p] /\ b = job[m].frontier[p]
      BY <3>1
    <3>4. Max({a, b}) = IF a > b THEN a ELSE b
      BY LargerOfTwo
    <3>5. Max({a, b}) \in Nat /\ a <= Max({a, b})
      BY <3>4
    <3> QED
      BY <3>2, <3>3, <3>5
  <2>2. committed' \in [Partition -> Nat]
    BY <1>4, <2>1 DEF CommitBatch
  <2>3. [Idle EXCEPT !.pc = IF job[m].back = {} THEN "idle" ELSE "seek", !.back = job[m].back] \in Jobs
    BY <1>2 DEF Idle, Jobs
  <2>4. job' \in [Member -> Jobs]
    BY <1>4, <2>3 DEF CommitBatch, OffsetsOK
  <2>5. \A p \in Partition : Len(log[p]) \in Nat
    BY DEF OffsetsOK
  <2>6. UNCHANGED <<log, position, group, incoming>>
    BY <1>4 DEF CommitBatch
  <2> QED
    BY <2>1, <2>2, <2>4, <2>5, <2>6 DEF OffsetsOK, OffsetsGrow
<1> QED
  BY <1>3, <1>4

\* The gate's steps change nothing else, and no other step changes the gate.
GateStep == GateStart \/ GateReadHigh \/ GateReadCommitted \/ GateDecide

LEMMA OffsetsStep ==
  ASSUME OffsetsOK, BusNext
  PROVE  /\ OffsetsOK' /\ OffsetsGrow
         /\ GateStep \/ gate' = gate
<1>1. CASE GateStep
  <2>1. UNCHANGED <<log, committed, position, group, job, incoming>>
    BY <1>1 DEF GateStep, GateStart, GateReadHigh, GateReadCommitted, GateDecide, brokerVars
  <2>2. \A p \in Partition : committed[p] \in Nat /\ Len(log[p]) \in Nat
    BY DEF OffsetsOK
  <2> QED
    BY <1>1, <2>1, <2>2 DEF OffsetsOK, OffsetsGrow
<1>2. ASSUME NEW r \in incoming, Produce(r) PROVE OffsetsOK' /\ OffsetsGrow /\ gate' = gate
  BY <1>2, ProduceOffsets DEF Produce
<1>3. ASSUME NEW m \in Member, JoinGroup(m) \/ LeaveGroup(m)
      PROVE  OffsetsOK' /\ OffsetsGrow /\ gate' = gate
  BY <1>3, GroupOffsets DEF JoinGroup, LeaveGroup
<1>4. ASSUME NEW m \in Member, Consume(m)
      PROVE  OffsetsOK' /\ OffsetsGrow /\ gate' = gate
  <2>1. gate' = gate
    BY <1>4 DEF Consume, Poll, Skip, RefuseRecord, SkipDuplicate, Process, GiveUp, DeadLetter, Done,
       Retry, CommitBatch, SeekToCommitted
  <2> QED
    BY <1>4, <2>1, PollOffsets, HandleOffsets, CommitOffsets DEF Consume
<1> QED
  BY <1>1, <1>2, <1>3, <1>4 DEF BusNext, GateStep

\* What each partition is behind by only shrinks while the same call goes on.
LEMMA BehindShrinks ==
  ASSUME OffsetsOK, OffsetsOK', OffsetsGrow, gate'.start = gate.start, gate.start \in [Partition -> Nat]
  PROVE  /\ Behind \in [Partition -> Nat] /\ Behind' \in [Partition -> Nat]
         /\ \A p \in Partition : Behind'[p] <= Behind[p]
<1>1. ASSUME NEW p \in Partition
      PROVE  /\ Lag(gate.start[p], committed[p]) \in Nat
             /\ Lag(gate.start[p], committed'[p]) \in Nat
             /\ Lag(gate.start[p], committed'[p]) <= Lag(gate.start[p], committed[p])
  <2>1. PICK s, a, b \in Nat : s = gate.start[p] /\ a = committed[p] /\ b = committed'[p]
    BY DEF OffsetsOK
  <2>2. a <= b
    BY <2>1 DEF OffsetsGrow
  <2>3. Lag(s, a) \in Nat /\ Lag(s, b) \in Nat /\ Lag(s, b) <= Lag(s, a)
    BY <2>2 DEF Lag
  <2> QED
    BY <2>1, <2>3
<1> QED
  BY <1>1 DEF Behind

\* The figures of a call in progress.
LEMMA GateFigures ==
  ASSUME GateOK, gate.pc \in {"high", "committed"}
  PROVE  /\ gate.next \in 0..Cardinality(Partition) /\ gate.total \in Nat /\ gate.worst \in Nat
         /\ gate.start \in [Partition -> Nat] /\ \A p \in Partition : gate.start[p] <= Len(log[p])
         /\ gate.pc = "committed" =>
              gate.next \in Partition /\ gate.high \in Nat /\ gate.start[gate.next] <= gate.high
         /\ \A p \in 0..(gate.next - 1) : Behind[p] <= gate.worst
         /\ Totals(Behind)[gate.next] <= gate.total
BY DEF GateOK

\* The invariant follows from what a step leaves of the figures.
LEMMA GateStays ==
  ASSUME GateOK, OffsetsOK, OffsetsOK', OffsetsGrow, gate' = gate
  PROVE  GateOK'
<1> SUFFICES ASSUME gate.pc \in {"high", "committed"}
             PROVE  GateOK'
  BY DEF GateOK
<1>1. /\ gate.next \in 0..Cardinality(Partition) /\ gate.total \in Nat /\ gate.worst \in Nat
      /\ gate.start \in [Partition -> Nat] /\ \A p \in Partition : gate.start[p] <= Len(log[p])
      /\ \A p \in 0..(gate.next - 1) : Behind[p] <= gate.worst
      /\ Totals(Behind)[gate.next] <= gate.total
  BY GateFigures
<1>2. /\ Behind \in [Partition -> Nat] /\ Behind' \in [Partition -> Nat]
      /\ \A p \in Partition : Behind'[p] <= Behind[p]
  BY <1>1, BehindShrinks
<1>3. \A p \in Partition : gate.start[p] <= Len(log'[p])
  <2>1. ASSUME NEW p \in Partition PROVE gate.start[p] <= Len(log'[p])
    <3>1. gate.start[p] \in Nat /\ Len(log[p]) \in Nat /\ Len(log'[p]) \in Nat
      BY <1>1 DEF OffsetsOK
    <3>2. gate.start[p] <= Len(log[p]) /\ Len(log[p]) <= Len(log'[p])
      BY <1>1 DEF OffsetsGrow
    <3> QED
      BY <3>1, <3>2
  <2> QED
    BY <2>1
<1>4. ASSUME NEW p \in 0..(gate.next - 1) PROVE Behind'[p] <= gate.worst
  <2>1. p \in Partition
    <3>1. PICK n : n = Cardinality(Partition)
      OBVIOUS
    <3>2. n \in Nat /\ \A k \in Nat : k < n => k \in Partition
      BY <3>1, PartitionsCounted
    <3>3. gate.next \in 0..n
      BY <1>1, <3>1
    <3> QED
      BY <1>4, <3>2, <3>3
  <2>2. Behind[p] <= gate.worst /\ Behind'[p] <= Behind[p] /\ Behind[p] \in Nat /\ Behind'[p] \in Nat
    BY <1>1, <1>2, <2>1
  <2> QED
    BY <1>1, <2>2
<1>5. Totals(Behind')[gate.next] <= gate.total
  <2>1. PICK f, g \in [Partition -> Nat] : f = Behind' /\ g = Behind
    BY <1>2
  <2>2. \A p \in Partition : f[p] <= g[p]
    BY <1>2, <2>1
  <2>3. Totals(f)[gate.next] <= Totals(g)[gate.next]
    BY <1>1, <2>2, TotalsRise
  <2>4. Totals(f)[gate.next] \in Nat /\ Totals(g)[gate.next] \in Nat
    BY <1>1, TotalsOf
  <2>5. Totals(g)[gate.next] <= gate.total
    BY <1>1, <2>1
  <2> QED
    BY <1>1, <2>1, <2>3, <2>4, <2>5
<1> QED
  BY <1>1, <1>3, <1>4, <1>5 DEF GateOK

LEMMA GateStartOK ==
  ASSUME OffsetsOK, GateStart
  PROVE  GateOK'
<1>1. gate' = [pc |-> "high", next |-> 0, high |-> 0, total |-> 0, worst |-> 0,
               start |-> [p \in Partition |-> Len(log[p])]]
  BY DEF GateStart, NoCall
<1>2. UNCHANGED <<log, committed>>
  BY DEF GateStart, brokerVars
<1>3. \A p \in Partition : Len(log[p]) \in Nat /\ committed[p] \in Nat
  BY DEF OffsetsOK
<1>4. Cardinality(Partition) \in Nat
  BY BusAssumption, FS_CardinalityType
<1>5. gate'.start \in [Partition -> Nat] /\ \A p \in Partition : gate'.start[p] <= Len(log'[p])
  BY <1>1, <1>2, <1>3
<1>6. Behind' \in [Partition -> Nat]
  <2>1. ASSUME NEW p \in Partition PROVE Lag(gate'.start[p], committed'[p]) \in Nat
    BY <1>2, <1>3, <1>5 DEF Lag
  <2> QED
    BY <2>1 DEF Behind
<1>7. Totals(Behind')[0] = 0
  <2>1. PICK f \in [Partition -> Nat] : f = Behind'
    BY <1>6
  <2> QED
    BY <2>1, TotalsOf
<1>8. /\ gate'.pc = "high" /\ gate'.next = 0 /\ gate'.total = 0 /\ gate'.worst = 0
      /\ gate' = [pc |-> gate'.pc, next |-> gate'.next, high |-> gate'.high, total |-> gate'.total,
                  worst |-> gate'.worst, start |-> gate'.start]
  BY <1>1
<1>9. 0..(0 - 1) = {} /\ 0 \in 0..Cardinality(Partition) /\ 0 <= 0 /\ 0 \in Nat
  BY <1>4
<1> QED
  BY <1>5, <1>7, <1>8, <1>9 DEF GateOK

LEMMA GateReadHighOK ==
  ASSUME GateOK, OffsetsOK, GateReadHigh
  PROVE  GateOK'
<1>1. gate.pc = "high" /\ gate.next \in Partition
  BY DEF GateReadHigh
<1>2. gate = [pc |-> gate.pc, next |-> gate.next, high |-> gate.high, total |-> gate.total,
              worst |-> gate.worst, start |-> gate.start]
  BY <1>1 DEF GateOK
<1>3. gate' = [pc |-> "committed", next |-> gate.next, high |-> Len(log[gate.next]),
               total |-> gate.total, worst |-> gate.worst, start |-> gate.start]
  BY <1>2 DEF GateReadHigh
<1>4. UNCHANGED <<log, committed>>
  BY DEF GateReadHigh, brokerVars
<1>5. Behind' = Behind
  BY <1>3, <1>4 DEF Behind
<1>6. Len(log[gate.next]) \in Nat
  BY <1>1 DEF OffsetsOK
<1> QED
  BY <1>1, <1>3, <1>4, <1>5, <1>6, GateFigures DEF GateOK

LEMMA GateReadCommittedOK ==
  ASSUME GateOK, OffsetsOK, GateReadCommitted
  PROVE  GateOK'
<1>1. gate.pc = "committed"
  BY DEF GateReadCommitted
<1>2. gate = [pc |-> gate.pc, next |-> gate.next, high |-> gate.high, total |-> gate.total,
              worst |-> gate.worst, start |-> gate.start]
  BY <1>1 DEF GateOK
<1>3. /\ gate.next \in Partition /\ gate.total \in Nat /\ gate.worst \in Nat /\ gate.high \in Nat
      /\ gate.start \in [Partition -> Nat] /\ gate.start[gate.next] <= gate.high
      /\ \A p \in Partition : gate.start[p] <= Len(log[p])
      /\ \A p \in 0..(gate.next - 1) : Behind[p] <= gate.worst
      /\ Totals(Behind)[gate.next] <= gate.total
  BY <1>1, GateFigures
<1> DEFINE lag == Lag(gate.high, committed[gate.next])
<1>4. gate' = [pc |-> "high", next |-> gate.next + 1, high |-> gate.high,
               total |-> gate.total + lag, worst |-> Max({gate.worst, lag}), start |-> gate.start]
  BY <1>2 DEF GateReadCommitted, CommittedOffset
<1>5. UNCHANGED <<log, committed>>
  BY DEF GateReadCommitted, brokerVars
<1>6. Behind' = Behind
  BY <1>4, <1>5 DEF Behind
<1>7. Behind \in [Partition -> Nat] /\ lag \in Nat /\ Behind[gate.next] <= lag
  <2>1. ASSUME NEW p \in Partition PROVE Lag(gate.start[p], committed[p]) \in Nat
    BY <1>3 DEF OffsetsOK, Lag
  <2>2. PICK h, s, c \in Nat : h = gate.high /\ s = gate.start[gate.next] /\ c = committed[gate.next]
    BY <1>3 DEF OffsetsOK
  <2>3. s <= h
    BY <1>3, <2>2
  <2>4. Lag(h, c) \in Nat /\ Lag(s, c) <= Lag(h, c)
    BY <2>3 DEF Lag
  <2> QED
    BY <1>3, <2>1, <2>2, <2>4 DEF Behind
<1> PICK n : n = Cardinality(Partition)
  OBVIOUS
<1>8. n \in Nat /\ gate.next \in Nat /\ gate.next < n
  BY <1>3, PartitionsCounted
<1> PICK w, l, t \in Nat : w = gate.worst /\ l = lag /\ t = gate.total
  BY <1>3, <1>7
<1>9. Max({w, l}) \in Nat /\ w <= Max({w, l}) /\ l <= Max({w, l})
  <2>1. Max({w, l}) = IF w > l THEN w ELSE l
    BY LargerOfTwo
  <2> QED
    BY <2>1
<1>10. PICK f \in [Partition -> Nat] : f = Behind
  BY <1>7
<1>11. Totals(f)[gate.next + 1] <= t + l
  <2>1. Totals(f)[gate.next + 1] = Totals(f)[gate.next] + f[gate.next]
    BY <1>3, TotalsOf
  <2>2. gate.next \in 0..Cardinality(Partition)
    BY <1>8
  <2>3. PICK a, b \in Nat : a = Totals(f)[gate.next] /\ b = f[gate.next]
    BY <1>3, <2>2, TotalsOf
  <2>4. a <= t /\ b <= l
    BY <1>3, <1>7, <1>10, <2>3
  <2> QED
    BY <2>1, <2>3, <2>4
<1>12. ASSUME NEW p \in 0..((gate.next + 1) - 1) PROVE f[p] <= Max({w, l})
  <2>1. p = gate.next \/ p \in 0..(gate.next - 1)
    BY <1>8
  <2>2. p \in Nat /\ p < n
    BY <1>8
  <2>3. PICK a \in Nat : a = f[p]
    BY <2>2, PartitionsCounted
  <2>4. a <= w \/ a <= l
    BY <1>3, <1>7, <1>10, <2>1, <2>3
  <2> QED
    BY <1>9, <2>3, <2>4
<1>13. /\ gate'.pc = "high" /\ gate'.next = gate.next + 1 /\ gate'.total = t + l
       /\ gate'.worst = Max({w, l}) /\ gate'.start = gate.start /\ f = Behind'
       /\ gate' = [pc |-> gate'.pc, next |-> gate'.next, high |-> gate'.high, total |-> gate'.total,
                   worst |-> gate'.worst, start |-> gate'.start]
  BY <1>4, <1>6, <1>10
<1>14. gate.next + 1 \in 0..Cardinality(Partition) /\ t + l \in Nat
  BY <1>8
<1> HIDE DEF lag
<1>15. gate'.start \in [Partition -> Nat] /\ \A p \in Partition : gate'.start[p] <= Len(log'[p])
  BY <1>3, <1>5, <1>13
<1> QED
  BY <1>9, <1>11, <1>12, <1>13, <1>14, <1>15 DEF GateOK

\* A call ends with a certificate only once every partition was read.
LEMMA GateDecideOK ==
  ASSUME GateOK, OffsetsOK, GateDecide
  PROVE  /\ GateOK'
         /\ gate'.pc = "submitted" =>
              /\ \A p \in Partition : Behind[p] <= MaxPartitionLag
              /\ Totals(Behind)[Cardinality(Partition)] <= MaxTotalLag
<1>1. gate.pc = "high" /\ gate.next \notin Partition
  BY DEF GateDecide
<1>2. gate = [pc |-> gate.pc, next |-> gate.next, high |-> gate.high, total |-> gate.total,
              worst |-> gate.worst, start |-> gate.start]
  BY <1>1 DEF GateOK
<1>3. gate'.pc = IF WithinThreshold(gate) THEN "submitted" ELSE "blocked"
  BY <1>2 DEF GateDecide
<1>4. GateOK'
  BY <1>3 DEF GateOK
<1> PICK n : n = Cardinality(Partition)
  OBVIOUS
<1>5. /\ gate.next \in 0..n /\ gate.total \in Nat /\ gate.worst \in Nat /\ gate.start \in [Partition -> Nat]
      /\ \A p \in 0..(gate.next - 1) : Behind[p] <= gate.worst
      /\ Totals(Behind)[gate.next] <= gate.total
  BY <1>1, GateFigures
<1>6. n \in Nat /\ gate.next = n /\ \A p \in Partition : p \in Nat /\ p < n
  <2>1. n \in Nat /\ (\A k \in Nat : k < n => k \in Partition) /\ \A p \in Partition : p \in Nat /\ p < n
    BY PartitionsCounted
  <2>2. ~ (gate.next < n)
    BY <1>1, <1>5, <2>1
  <2> QED
    BY <1>5, <2>1, <2>2
<1>7. PICK f \in [Partition -> Nat] : f = Behind
  <2>1. ASSUME NEW p \in Partition PROVE Lag(gate.start[p], committed[p]) \in Nat
    BY <1>5 DEF OffsetsOK, Lag
  <2> QED
    BY <2>1 DEF Behind
<1> SUFFICES ASSUME WithinThreshold(gate)
             PROVE  /\ \A p \in Partition : f[p] <= MaxPartitionLag
                    /\ Totals(f)[n] <= MaxTotalLag
  BY <1>3, <1>4, <1>7
<1>8. PICK w, t \in Nat : w = gate.worst /\ t = gate.total
  BY <1>5
<1>9. PICK v, u \in Nat : v = MaxPartitionLag /\ u = MaxTotalLag
  BY BusAssumption
<1>10. w <= v /\ t <= u
  BY <1>8, <1>9 DEF WithinThreshold
<1>11. ASSUME NEW p \in Partition PROVE f[p] <= v
  <2>1. p \in 0..(gate.next - 1)
    BY <1>6
  <2>2. f[p] <= w /\ f[p] \in Nat
    BY <1>5, <1>7, <1>8, <2>1
  <2> QED
    BY <1>10, <2>2
<1>12. Totals(f)[n] <= u
  <2>1. Totals(f)[n] <= t
    BY <1>5, <1>6, <1>7, <1>8
  <2>2. Totals(f)[n] \in Nat
    BY <1>6, TotalsOf
  <2> QED
    BY <1>10, <2>1, <2>2
<1> QED
  BY <1>9, <1>11, <1>12

\* A certificate goes out only if what was on the bus when the gate was asked
\* has been acknowledged up to the thresholds, whoever joins, leaves, dies or
\* retries meanwhile: for any records, partitions, consumers and thresholds.
THEOREM GatedIsCaughtUp == BusSpec => GatedOnCaughtUp
<1> DEFINE GateInv == OffsetsOK /\ GateOK
           Caught == /\ \A p \in Partition : Behind[p] <= MaxPartitionLag
                     /\ Totals(Behind)[Cardinality(Partition)] <= MaxTotalLag
           Gated == gate.pc # "submitted" /\ gate'.pc = "submitted" => Caught
<1>1. BusInit => GateInv
  <2> SUFFICES ASSUME BusInit PROVE GateInv
    OBVIOUS
  <2>1. group = [m \in {} |-> {}] /\ gate.pc = "idle"
    BY DEF BusInit, NoCall
  <2>2. DOMAIN group = {} /\ group \in [{} -> SUBSET Partition]
    BY <2>1
  <2>3. <<>> \in Seq(Incoming)
    OBVIOUS
  <2>4. OffsetsOK
    BY <2>2, <2>3, IdleIsJob DEF BusInit, OffsetsOK
  <2> QED
    BY <2>1, <2>4 DEF GateOK
<1>2. GateInv /\ [BusNext]_busVars => GateInv' /\ [Gated]_busVars
  <2> SUFFICES ASSUME GateInv, [BusNext]_busVars PROVE GateInv' /\ [Gated]_busVars
    OBVIOUS
  <2>1. CASE UNCHANGED busVars
    <3>1. UNCHANGED <<log, committed, position, group, job, incoming, gate>>
      BY <2>1 DEF busVars, brokerVars
    <3>2. OffsetsOK'
      BY <3>1 DEF OffsetsOK
    <3>3. GateOK'
      BY <3>1 DEF GateOK, Behind
    <3> QED
      BY <2>1, <3>2, <3>3
  <2>2. CASE BusNext
    <3>1. OffsetsOK' /\ OffsetsGrow /\ (GateStep \/ gate' = gate)
      BY <2>2, OffsetsStep
    <3>2. CASE gate' = gate
      BY <3>1, <3>2, GateStays
    <3>3. CASE GateStart
      <4>1. gate'.pc = "high"
        BY <3>3 DEF GateStart, NoCall
      <4> QED
        BY <3>1, <3>3, <4>1, GateStartOK
    <3>4. CASE GateReadHigh
      <4>1. gate'.pc = "committed"
        <5>1. gate = [pc |-> gate.pc, next |-> gate.next, high |-> gate.high, total |-> gate.total,
                      worst |-> gate.worst, start |-> gate.start]
          BY <3>4 DEF GateReadHigh, GateOK
        <5> QED
          BY <3>4, <5>1 DEF GateReadHigh
      <4> QED
        BY <3>1, <3>4, <4>1, GateReadHighOK
    <3>5. CASE GateReadCommitted
      <4>1. gate'.pc = "high"
        <5>1. gate = [pc |-> gate.pc, next |-> gate.next, high |-> gate.high, total |-> gate.total,
                      worst |-> gate.worst, start |-> gate.start]
          BY <3>5 DEF GateReadCommitted, GateOK
        <5> QED
          BY <3>5, <5>1 DEF GateReadCommitted
      <4> QED
        BY <3>1, <3>5, <4>1, GateReadCommittedOK
    <3>6. CASE GateDecide
      BY <3>1, <3>6, GateDecideOK
    <3> QED
      BY <3>1, <3>2, <3>3, <3>4, <3>5, <3>6 DEF GateStep
  <2> QED
    BY <2>1, <2>2
<1>3. GatedOnCaughtUp <=> [][Gated]_busVars
  BY DEF GatedOnCaughtUp
<1> HIDE DEF GateInv, Gated
<1> QED
  BY <1>1, <1>2, <1>3, PTL DEF BusSpec
=============================================================================
