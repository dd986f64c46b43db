-------------------------- MODULE AuditLogProofs --------------------------
(***************************************************************************)
(* What appending to the audit file and losing power can do to it, in the  *)
(* terms its users reason in: the whole records of a run, and the ones     *)
(* that are durable.                                                       *)
(***************************************************************************)
EXTENDS AuditLog, TLAPS

\* A leaf is first-order reasoning unless it calls the SMT solver.
USE ZenonT(20)

\* An append, successful or not, adds one entry at most and changes none.
LEMMA AppendShape ==
  ASSUME NEW ids, NEW outcomes, NEW rec \in Records(ids, outcomes),
         LogTypeOK(ids, outcomes), AppendOK(rec) \/ AppendError(rec)
  PROVE  /\ LogTypeOK(ids, outcomes)'
         /\ Len(log') \in {Len(log), Len(log) + 1}
         /\ \A i \in 1 .. Len(log) : log'[i] = log[i]
         /\ Len(log') = Len(log) + 1 => log'[Len(log) + 1] \in {rec, Torn(rec)}
         /\ synced <= synced' /\ lost' = lost
  <1>1. Torn(rec) \in Records(ids, outcomes) BY DEF Torn, Records
  <1> USE DEF LogTypeOK
  <1>2. CASE AppendOK(rec) BY <1>2, SMTT(30) DEF AppendOK
  <1>3. CASE AppendError(rec)
    <2>1. CASE log' = log BY <1>3, <2>1, SMTT(30) DEF AppendError
    <2>2. CASE log' = Append(log, rec) BY <1>3, <2>2, SMTT(30) DEF AppendError
    <2>3. CASE log' = Append(log, Torn(rec)) BY <1>1, <1>3, <2>3, SMTT(30) DEF AppendError
    <2> QED BY <1>3, <2>1, <2>2, <2>3 DEF AppendError
  <1> QED BY <1>2, <1>3

\* An append adds no whole record but the one that was to be written, and what
\* was durable, or lost with its file, stays so.
LEMMA AppendEntries ==
  ASSUME NEW ids, NEW outcomes, NEW rec \in Records(ids, outcomes),
         LogTypeOK(ids, outcomes), AppendOK(rec) \/ AppendError(rec),
         NEW id, NEW event
  PROVE  /\ Entries(id, event) \subseteq Entries(id, event)'
         /\ \A i \in Entries(id, event) : log'[i] = log[i]
         /\ \A i \in Entries(id, event)' \ Entries(id, event) :
               i = Len(log) + 1 /\ log'[i] = rec /\ rec.id = id /\ rec.event = event
         /\ Durable(id, event) => Durable(id, event)'
         /\ Secured(id, event) => Secured(id, event)'
  <1> USE DEF LogTypeOK
  <1>1. /\ Len(log') \in {Len(log), Len(log) + 1}
        /\ \A i \in 1 .. Len(log) : log'[i] = log[i]
        /\ Len(log') = Len(log) + 1 => log'[Len(log) + 1] \in {rec, Torn(rec)}
        /\ synced \in Int /\ synced' \in Int /\ synced <= synced' /\ Len(log) \in Nat
        /\ lost' = lost
    BY AppendShape, SMTT(30)
  <1>2. Entries(id, event) \subseteq Entries(id, event)' BY <1>1, SMTT(30) DEF Entries
  <1>3. \A i \in Entries(id, event) : log'[i] = log[i] BY <1>1 DEF Entries
  <1>4. ~Torn(rec).whole BY DEF Torn, Records
  <1>5. ASSUME NEW i \in Entries(id, event)' \ Entries(id, event)
        PROVE  i = Len(log) + 1 /\ log'[i] = rec /\ rec.id = id /\ rec.event = event
    <2>1. i \in 1 .. Len(log') /\ i \notin 1 .. Len(log) BY <1>1, <1>5 DEF Entries
    <2>2. i = Len(log) + 1 /\ Len(log') = Len(log) + 1 BY <1>1, <2>1, SMTT(30)
    <2> QED BY <1>1, <1>4, <1>5, <2>2 DEF Entries
  <1>6. Durable(id, event) => Durable(id, event)'
    <2> SUFFICES ASSUME NEW i \in Entries(id, event), i <= synced
                 PROVE  Durable(id, event)'
      BY DEF Durable
    <2>1. i \in Entries(id, event)' /\ i \in Int BY <1>2, SMTT(30) DEF Entries
    <2> QED BY <1>1, <2>1, SMTT(30) DEF Durable
  <1>7. Secured(id, event) => Secured(id, event)' BY <1>1, <1>6 DEF Secured
  <1> QED BY <1>2, <1>3, <1>5, <1>6, <1>7

\* The entries of another event, or of another operation, stay as they are.
LEMMA AppendElsewhere ==
  ASSUME NEW ids, NEW outcomes, NEW rec \in Records(ids, outcomes),
         LogTypeOK(ids, outcomes), AppendOK(rec) \/ AppendError(rec),
         NEW id, NEW event, rec.id # id \/ rec.event # event
  PROVE  /\ Entries(id, event)' = Entries(id, event)
         /\ \A i \in Entries(id, event) : log'[i] = log[i]
         /\ Durable(id, event) => Durable(id, event)'
         /\ Secured(id, event) => Secured(id, event)'
  <1>1. /\ Entries(id, event) \subseteq Entries(id, event)'
        /\ \A i \in Entries(id, event) : log'[i] = log[i]
        /\ \A i \in Entries(id, event)' \ Entries(id, event) :
              i = Len(log) + 1 /\ log'[i] = rec /\ rec.id = id /\ rec.event = event
        /\ Durable(id, event) => Durable(id, event)'
        /\ Secured(id, event) => Secured(id, event)'
    BY AppendEntries
  <1> QED BY <1>1

\* An operation's first record of an event is the only one, the last of the log.
LEMMA AppendFirst ==
  ASSUME NEW ids, NEW outcomes, NEW rec \in Records(ids, outcomes),
         LogTypeOK(ids, outcomes), AppendOK(rec) \/ AppendError(rec),
         Entries(rec.id, rec.event) = {}
  PROVE  \A i \in Entries(rec.id, rec.event)' : i = Len(log) + 1 /\ log'[i] = rec
  <1>1. \A i \in Entries(rec.id, rec.event)' \ Entries(rec.id, rec.event) :
              i = Len(log) + 1 /\ log'[i] = rec /\ rec.id = rec.id /\ rec.event = rec.event
    BY AppendEntries, SMTT(30)
  <1> QED BY <1>1

\* A record whose append succeeded is durable.
LEMMA AppendDurable ==
  ASSUME NEW ids, NEW outcomes, NEW rec \in Records(ids, outcomes), rec.whole,
         LogTypeOK(ids, outcomes), AppendOK(rec)
  PROVE  /\ Durable(rec.id, rec.event)'
         /\ \E i \in Entries(rec.id, rec.event)' : i <= synced' /\ log'[i] = rec
  <1>1. /\ Len(log') = Len(log) + 1 /\ log'[Len(log) + 1] = rec /\ synced' = Len(log) + 1
        /\ Len(log) \in Nat
    BY SMTT(30) DEF LogTypeOK, AppendOK
  <1>2. Len(log) + 1 \in Entries(rec.id, rec.event)' BY <1>1, SMTT(30) DEF Entries
  <1> QED BY <1>1, <1>2, SMTT(30) DEF Durable

\* A power failure makes no whole record out of another.  It spares what is
\* durable, or takes the whole file and no record is left.
LEMMA PowerLossEntries ==
  ASSUME NEW ids, NEW outcomes, LogTypeOK(ids, outcomes), LosePower
  PROVE  /\ LogTypeOK(ids, outcomes)'
         /\ \A id, event :
               /\ Entries(id, event)' \subseteq Entries(id, event)
               /\ \A i \in Entries(id, event)' : log'[i] = log[i]
               /\ Secured(id, event) => Secured(id, event)'
         /\ \/ \A id, event : Entries(id, event)' = {}
            \/ /\ synced' = synced
               /\ \A id, event : \A i \in Entries(id, event) : i <= synced => i \in Entries(id, event)'
  <1> DEFINE R == Records(ids, outcomes)
  <1>1. /\ log \in Seq(R) /\ synced \in 0 .. Len(log) /\ Len(log) \in Nat
        /\ \A i \in 1 .. Len(log) : log[i] \in R
    BY SMTT(30) DEF LogTypeOK
  <1>2. CASE KeepFile
    <2>1. synced' = synced /\ lost' = lost /\ named' \in BOOLEAN BY <1>2 DEF KeepFile
    <2>2. \A rec \in R : Torn(rec) \in R /\ ~Torn(rec).whole BY DEF Torn, Records
    <2>3. PICK n \in synced .. Len(log) :
            log' \in {SubSeq(log, 1, n)} \cup
                     (IF n > synced THEN {Append(SubSeq(log, 1, n - 1), Torn(log[n]))} ELSE {})
      BY <1>2 DEF KeepFile
    <2>4. /\ log' \in Seq(R) /\ Len(log') = n
          /\ \A i \in 1 .. n : log'[i] = log[i] \/ (i = n /\ n > synced /\ log'[i] = Torn(log[i]))
      <3>1. CASE log' = SubSeq(log, 1, n)
        BY <1>1, <3>1, SMTT(30)
      <3>2. CASE n > synced /\ log' = Append(SubSeq(log, 1, n - 1), Torn(log[n]))
        <4>1. /\ SubSeq(log, 1, n - 1) \in Seq(R) /\ Len(SubSeq(log, 1, n - 1)) = n - 1
              /\ \A i \in 1 .. n - 1 : SubSeq(log, 1, n - 1)[i] = log[i]
          BY <1>1, <3>2, SMTT(30)
        <4>2. n \in 1 .. Len(log) /\ Torn(log[n]) \in R BY <1>1, <2>2, <3>2, SMTT(30)
        <4> QED BY <3>2, <4>1, <4>2, SMTT(30)
      <3> QED BY <2>3, <3>1, <3>2
    <2>5. LogTypeOK(ids, outcomes)'
      <3>1. log' \in Seq(R) /\ synced' \in 0 .. Len(log') BY <1>1, <2>1, <2>4, SMTT(30)
      <3> QED BY <2>1, <3>1 DEF LogTypeOK
    <2>6. ASSUME NEW id, NEW event
          PROVE  /\ Entries(id, event)' \subseteq Entries(id, event)
                 /\ \A i \in Entries(id, event)' : log'[i] = log[i]
                 /\ \A i \in Entries(id, event) : i <= synced => i \in Entries(id, event)'
                 /\ Secured(id, event) => Secured(id, event)'
      <3>1. ASSUME NEW i \in Entries(id, event)' PROVE i \in Entries(id, event) /\ log'[i] = log[i]
        <4>1. i \in 1 .. n /\ i \in 1 .. Len(log) BY <1>1, <2>4, <3>1, SMTT(30) DEF Entries
        <4>2. log'[i] = log[i] BY <1>1, <2>2, <2>4, <3>1, <4>1 DEF Entries
        <4> QED BY <3>1, <4>1, <4>2 DEF Entries
      <3>2. ASSUME NEW i \in Entries(id, event), i <= synced PROVE i \in Entries(id, event)'
        BY <1>1, <2>4, <3>2, SMTT(30) DEF Entries
      <3> QED BY <2>1, <3>1, <3>2 DEF Durable, Secured
    <2> QED BY <2>1, <2>5, <2>6
  <1>3. CASE LoseFile
    <2>1. \A id, event : Entries(id, event)' = {} BY <1>3, SMTT(30) DEF LoseFile, Entries
    <2>2. LogTypeOK(ids, outcomes)'
      <3>1. log' \in Seq(R) /\ synced' \in 0 .. Len(log') BY <1>3, SMTT(30) DEF LoseFile
      <3>2. named' \in BOOLEAN BY <1>3 DEF LoseFile, LogTypeOK
      <3>3. \A i \in 1 .. synced : <<log[i].id, log[i].event>> \in ids \X {"start", "finish"}
        <4> SUFFICES ASSUME NEW i \in 1 .. synced
                     PROVE  <<log[i].id, log[i].event>> \in ids \X {"start", "finish"}
          OBVIOUS
        <4>1. log[i] \in R BY <1>1, SMTT(30)
        <4> QED BY <4>1 DEF Records
      <3>4. lost' \subseteq ids \X {"start", "finish"} BY <1>3, <3>3 DEF LoseFile, LogTypeOK
      <3> QED BY <3>1, <3>2, <3>4 DEF LogTypeOK
    <2>3. ASSUME NEW id, NEW event, Secured(id, event) PROVE Secured(id, event)'
      <3>1. CASE <<id, event>> \in lost BY <1>3, <3>1 DEF LoseFile, Secured
      <3>2. CASE Durable(id, event)
        <4>1. PICK i \in Entries(id, event) : i <= synced BY <3>2 DEF Durable
        <4>2. i \in 1 .. synced BY <1>1, <4>1, SMTT(30) DEF Entries
        <4>3. <<id, event>> \in lost' BY <1>3, <4>1, <4>2 DEF LoseFile, Entries
        <4> QED BY <4>3 DEF Secured
      <3> QED BY <2>3, <3>1, <3>2 DEF Secured
    <2> QED BY <2>1, <2>2, <2>3
  <1> QED BY <1>2, <1>3 DEF LosePower
===========================================================================
