---------------------------- MODULE StartupProofs ----------------------------
(***************************************************************************)
(* Workspace.tla for any replicas, files, environments, options and        *)
(* numbers of starts: whole configurations, verified clients, and what the *)
(* replicas of an application print when they start together.              *)
(***************************************************************************)
EXTENDS Workspace, FiniteSetTheorems, TLAPS

\* What config.json may be, and what it is once the operator has written it.
DiskInv ==
  /\ disk \in Contents \union {Default, Torn, Absent}
  /\ theirs # Absent /\ ~late => disk = theirs
  /\ proc \in {"create", "write"} => theirs = Absent \/ late

\* A whole configuration: RunsOneFile.
ConfigInv == DiskInv /\ RunsOneFile

\* Every step of Workspace is one of the configuration, Open, or leaves the
\* configuration as it is.
LEMMA Steps ==
  ASSUME [Next]_vars
  PROVE  ConfigNext \/ Open \/ UNCHANGED configVars
<1>1. ASSUME NEW r \in Replicas, New(r) \/ InitWorkspace(r) \/ Created(r) \/ Unanswered(r)
      PROVE  UNCHANGED configVars
  BY <1>1 DEF New, InitWorkspace, Created, Unanswered
<1>2. ASSUME PgInsert \/ PgQuery \/ StrayEnds PROVE UNCHANGED configVars
  BY <1>2 DEF PgInsert, PgQuery, StrayEnds
<1>3. QED
  BY <1>1, <1>2 DEF Next, Router, vars

\* The configuration a process runs with is one whole file under its environment,
\* and the operator's file outlives every start that found it.
LEMMA ConfigInvariance == Spec => []ConfigInv
<1>1. Init => ConfigInv
  BY DEF Init, ConfigInit, ConfigInv, DiskInv, RunsOneFile
<1>2. ConfigInv /\ [Next]_vars => ConfigInv'
  <2> SUFFICES ASSUME ConfigInv, [Next]_vars PROVE ConfigInv'
    OBVIOUS
  <2> USE DEF ConfigInv, DiskInv, RunsOneFile, configHistory
  <2>1. CASE Start
    BY <2>1 DEF Start
  <2>2. CASE Stat
    BY <2>2 DEF Stat
  <2>3. CASE Truncate
    BY <2>3 DEF Truncate
  <2>4. CASE Write
    BY <2>4 DEF Write
  <2>5. CASE WriteFails
    BY <2>5 DEF WriteFails
  <2>6. CASE Read
    BY <2>6 DEF Read
  <2>7. CASE Kill
    BY <2>7 DEF Kill
  <2>8. CASE Place
    <3>1. late' <=> proc \in {"create", "write"}
      BY <2>8, Zenon DEF Place
    <3>2. QED
      BY <2>8, <3>1 DEF Place
  <2>9. CASE Open
    BY <2>9 DEF Open
  <2>10. CASE UNCHANGED configVars
    BY <2>10 DEF configVars
  <2>11. QED
    BY <2>1, <2>2, <2>3, <2>4, <2>5, <2>6, <2>7, <2>8, <2>9, <2>10, Steps DEF ConfigNext
<1>3. QED
  BY <1>1, <1>2, PTL DEF Spec

\* What a process runs with is one whole file with its own environment on top.
THEOREM RunsOneFileHolds == Spec => []RunsOneFile
<1>1. ConfigInv => RunsOneFile
  BY DEF ConfigInv
<1>2. QED
  BY <1>1, ConfigInvariance, PTL

\* A file of the operator's stays as he wrote it.
THEOREM FileIsKeptHolds == Spec => []FileIsKept
<1>1. ConfigInv => FileIsKept
  BY DEF ConfigInv, DiskInv, FileIsKept
<1>2. QED
  BY <1>1, ConfigInvariance, PTL

-----------------------------------------------------------------------------

\* Where verified clients were asked for, the handshake lets no other in.
LEMMA AskedMeansVerified ==
  ASSUME ConfigInv, Serves, Asked
  PROVE  end.kind = "tls" /\ end.cert = "ours"
<1>1. cfg = Override(from, env)
  BY DEF ConfigInv, RunsOneFile, Serves
<1>2. cfg.tls
  BY <1>1 DEF Override, Fields, Asked
<1>3. cfg.ca # ""
  BY <1>1 DEF Override, Fields, Asked
<1>4. cfg.auth \notin {"none", "request"}
  BY <1>1 DEF Override, Fields, Asked
<1>5. Build(cfg).kind # "insecure" /\ (Build(cfg).kind = "tls" => Build(cfg).clients = "require")
  BY <1>2, <1>3, <1>4 DEF Build, Failed, parseClientAuth
<1>6. QED
  BY <1>5 DEF Serves, Handshake

LEMMA AdmitStep ==
  ASSUME ConfigInv, VerifiedOnly, Admit
  PROVE  VerifiedOnly'
  BY AskedMeansVerified DEF Admit, VerifiedOnly

\* Clients are served by the router of the operator's wishes only.
THEOREM VerifiedOnlyHolds == Spec => []VerifiedOnly
<1>1. Init => VerifiedOnly
  BY DEF Init, VerifiedOnly
<1>2. ConfigInv /\ VerifiedOnly /\ [Next]_vars => VerifiedOnly'
  <2> SUFFICES ASSUME ConfigInv, VerifiedOnly, [Next]_vars PROVE VerifiedOnly'
    OBVIOUS
  <2>1. ASSUME NEW r \in Replicas, InitWorkspace(r) PROVE VerifiedOnly'
    BY <2>1, AdmitStep DEF InitWorkspace
  <2>2. CASE PgInsert \/ PgQuery
    BY <2>2, AdmitStep DEF PgInsert, PgQuery
  <2>3. ASSUME UNCHANGED admitted PROVE VerifiedOnly'
    BY <2>3 DEF VerifiedOnly
  <2>4. QED
    BY <2>1, <2>2, <2>3 DEF Next, Router, Open, New, Created, Unanswered, StrayEnds, seenVars, vars
<1>3. QED
  BY <1>1, <1>2, ConfigInvariance, PTL DEF Spec

-----------------------------------------------------------------------------

\* Who printed what: a replica that is content has its database, and the one that
\* made it is alone; creations that meet, or find the database made, are trouble.
SaidInv ==
  /\ at \in [Replicas -> {"new", "connected", "creating", "ready", "failed"}]
  /\ said \in [Replicas -> {"nothing", "ok", "quiet", "warn"}]
  /\ base \in BOOLEAN /\ stray \in BOOLEAN
  /\ \A r \in Replicas :
       /\ said[r] \in {"ok", "quiet"} => base
       /\ said[r] = "warn" => r \in trouble
       /\ at[r] = "creating" /\ (base \/ stray) => r \in trouble
  /\ \A r, q \in Replicas :
       /\ said[r] = "ok" /\ said[q] = "ok" => r = q
       /\ at[r] = "creating" /\ at[q] = "creating" /\ r # q => r \in trouble

LEMMA Verdicts ==
  /\ Verdict({"already exists"}) = "quiet"
  /\ \A text : text # "already exists" => Verdict({text}) = "warn"
  BY DEF Verdict

\* A replica prints its line and goes on: a warning with trouble, or silence with the
\* database there.
LEMMA SayStep ==
  ASSUME SaidInv, NEW r \in Replicas, NEW what \in {"ok", "quiet", "warn"}, Say(r, what),
         at[r] \in {"connected", "creating"}, stray' = stray,
         base' \in {base, TRUE}, base' = base \/ at[r] = "creating",
         trouble' \in {trouble, trouble \union {r}},
         what = "warn" => r \in trouble',
         what # "warn" => base',
         what = "ok" => ~base
  PROVE  SaidInv'
<1>1. said' = [said EXCEPT ![r] = what] /\ at' = [at EXCEPT ![r] = "ready"]
  BY DEF Say
<1>2. /\ at' \in [Replicas -> {"new", "connected", "creating", "ready", "failed"}]
      /\ said' \in [Replicas -> {"nothing", "ok", "quiet", "warn"}]
      /\ base' \in BOOLEAN /\ stray' \in BOOLEAN
  BY <1>1 DEF SaidInv
<1>3. ASSUME NEW q \in Replicas
      PROVE  /\ said'[q] \in {"ok", "quiet"} => base'
             /\ said'[q] = "warn" => q \in trouble'
  BY <1>1, <1>3 DEF SaidInv
<1>4. ASSUME NEW q \in Replicas, at'[q] = "creating", base' \/ stray'
      PROVE  q \in trouble'
  BY <1>1, <1>4 DEF SaidInv
<1>5. ASSUME NEW p \in Replicas, NEW q \in Replicas
      PROVE  /\ said'[p] = "ok" /\ said'[q] = "ok" => p = q
             /\ at'[p] = "creating" /\ at'[q] = "creating" /\ p # q => p \in trouble'
  BY <1>1, <1>5 DEF SaidInv
<1>6. QED
  BY <1>2, <1>3, <1>4, <1>5 DEF SaidInv

LEMMA InitWorkspaceStep ==
  ASSUME SaidInv, NEW r \in Replicas, InitWorkspace(r)
  PROVE  SaidInv'
<1>1. at[r] = "connected" /\ UNCHANGED <<base, stray>>
  BY DEF InitWorkspace, Denied, Rejected, Begins
<1>2. CASE Denied(r)
  BY <1>1, <1>2, SayStep, Verdicts DEF Denied
<1>3. CASE Rejected(r)
  <2>1. CASE base /\ Say(r, Verdict({"already exists"})) /\ UNCHANGED trouble
    BY <1>1, <2>1, SayStep, Verdicts
  <2>2. CASE Say(r, Verdict({"permission denied"})) /\ trouble' = trouble \union {r}
    BY <1>1, <2>2, SayStep, Verdicts
  <2>3. QED
    BY <1>3, <2>1, <2>2 DEF Rejected
<1>4. CASE Begins(r)
  <2> DEFINE others == {q \in Replicas : at[q] = "creating"}
  <2>1. /\ ~base /\ at' = [at EXCEPT ![r] = "creating"] /\ UNCHANGED said
        /\ trouble' = trouble \union others \union IF others # {} \/ stray THEN {r} ELSE {}
    BY <1>4 DEF Begins
  <2>2. \A q \in Replicas : at'[q] = "creating" /\ stray' => q \in trouble'
    BY <1>1, <2>1 DEF SaidInv
  <2>3. \A p, q \in Replicas : at'[p] = "creating" /\ at'[q] = "creating" /\ p # q => p \in trouble'
    BY <1>1, <2>1 DEF SaidInv
  <2>4. QED
    BY <1>1, <2>1, <2>2, <2>3 DEF SaidInv
<1>5. QED
  BY <1>2, <1>3, <1>4 DEF InitWorkspace

LEMMA CreatedStep ==
  ASSUME SaidInv, NEW r \in Replicas, Created(r)
  PROVE  SaidInv'
<1>1. at[r] = "creating" /\ UNCHANGED stray
  BY DEF Created
<1>2. CASE ~base /\ base' = TRUE /\ Say(r, "ok") /\ UNCHANGED trouble
  BY <1>1, <1>2, SayStep
<1>3. CASE base /\ Say(r, Verdict({"duplicate key"})) /\ UNCHANGED <<base, trouble>>
  BY <1>1, <1>3, SayStep, Verdicts DEF SaidInv
<1>4. CASE base' \in {base, TRUE} /\ Say(r, Verdict({"bad connection"})) /\ trouble' = trouble \union {r}
  BY <1>1, <1>4, SayStep, Verdicts
<1>5. CASE base' = TRUE /\ Say(r, Verdict({"already exists"})) /\ UNCHANGED trouble
  BY <1>1, <1>5, SayStep, Verdicts
<1>6. QED
  BY <1>2, <1>3, <1>4, <1>5 DEF Created

LEMMA UnansweredStep ==
  ASSUME SaidInv, NEW r \in Replicas, Unanswered(r)
  PROVE  SaidInv'
<1>1. /\ said' = [said EXCEPT ![r] = "warn"] /\ at' = [at EXCEPT ![r] = "ready"]
      /\ trouble' = trouble \union {r} /\ base' = base
      /\ stray' = (stray \/ at[r] = "creating")
  BY DEF Unanswered, Say
<1>2. stray' \in BOOLEAN
  BY <1>1, Zenon
<1>3. \A q \in Replicas : at'[q] = "creating" /\ (base' \/ stray') => q \in trouble'
  <2> SUFFICES ASSUME NEW q \in Replicas, q # r, at[q] = "creating", base \/ stray'
               PROVE  q \in trouble
    BY <1>1 DEF SaidInv
  <2>1. CASE base \/ stray
    BY <2>1 DEF SaidInv
  <2>2. CASE at[r] = "creating"
    BY <2>2 DEF SaidInv
  <2>3. stray' => stray \/ at[r] = "creating"
    BY <1>1, Zenon
  <2>4. QED
    BY <2>1, <2>2, <2>3
<1>4. QED
  BY <1>1, <1>2, <1>3 DEF SaidInv

LEMMA SaidInvariance == Spec => []SaidInv
<1>1. Init => SaidInv
  BY DEF Init, SaidInv
<1>2. SaidInv /\ [Next]_vars => SaidInv'
  <2> SUFFICES ASSUME SaidInv, [Next]_vars PROVE SaidInv'
    OBVIOUS
  <2>1. ASSUME NEW r \in Replicas, New(r) PROVE SaidInv'
    BY <2>1 DEF New, SaidInv, seenVars
  <2>2. CASE StrayEnds
    <3>1. stray /\ stray' = FALSE /\ base' \in {base, TRUE}
          /\ at' = at /\ said' = said /\ trouble' = trouble
      BY <2>2 DEF StrayEnds, seenVars
    <3>2. base' \in BOOLEAN /\ (base => base')
      <4>1. CASE base' = base
        BY <4>1 DEF SaidInv
      <4>2. CASE base' = TRUE
        BY <4>2
      <4>3. QED
        BY <3>1, <4>1, <4>2
    <3>3. \A r \in Replicas : at[r] = "creating" => r \in trouble
      BY <3>1 DEF SaidInv
    <3>4. QED
      BY <3>1, <3>2, <3>3 DEF SaidInv
  <2>3. ASSUME UNCHANGED <<at, said, base, stray, trouble>> PROVE SaidInv'
    BY <2>3 DEF SaidInv
  <2>4. QED
    BY <2>1, <2>2, <2>3, InitWorkspaceStep, CreatedStep, UnansweredStep
       DEF Next, Router, Open, PgInsert, PgQuery, seenVars, vars
<1>3. QED
  BY <1>1, <1>2, PTL DEF Spec

-----------------------------------------------------------------------------

LEMMA ConfigTypeInvariance == Spec => []ConfigTypeOK
<1>1. Init => ConfigTypeOK
  <2>1. DOMAIN Absent = {"file"}
    BY DEF Absent
  <2>2. 0 \in 0..MaxStarts /\ 0 \in 0..MaxPlaced
    BY BoundsAssumption
  <2>3. QED
    BY <2>1, <2>2 DEF Init, ConfigInit, ConfigTypeOK
<1>2. ConfigTypeOK /\ [Next]_vars => ConfigTypeOK'
  <2> SUFFICES ASSUME ConfigTypeOK, [Next]_vars PROVE ConfigTypeOK'
    OBVIOUS
  <2> USE DEF ConfigTypeOK, configHistory
  <2>1. CASE Start
    BY <2>1, BoundsAssumption DEF Start
  <2>2. CASE Stat
    BY <2>2 DEF Stat
  <2>3. CASE Truncate
    BY <2>3 DEF Truncate, Torn
  <2>4. CASE Write
    BY <2>4 DEF Write, Default, Fields
  <2>5. CASE WriteFails
    BY <2>5 DEF WriteFails
  <2>6. CASE Read
    <3>1. DOMAIN Override(disk, env) = Fields
      BY DEF Override
    <3>2. QED
      BY <2>6, <3>1 DEF Read
  <2>7. CASE Kill
    BY <2>7 DEF Kill
  <2>8. CASE Place
    <3>1. late' \in BOOLEAN
      <4>1. late' = (proc \in {"create", "write"})
        BY <2>8 DEF Place
      <4>2. CASE proc \in {"create", "write"}
        BY <4>1, <4>2
      <4>3. CASE proc \notin {"create", "write"}
        BY <4>1, <4>3
      <4>4. QED
        BY <4>2, <4>3
    <3>2. DOMAIN disk' = Fields /\ theirs' \in Contents /\ placed' \in 0..MaxPlaced
      BY <2>8, ContentsAssumption, BoundsAssumption DEF Place
    <3>3. QED
      BY <2>8, <3>1, <3>2 DEF Place
  <2>9. CASE Open
    BY <2>9 DEF Open
  <2>10. CASE UNCHANGED configVars
    BY <2>10 DEF configVars
  <2>11. QED
    BY <2>1, <2>2, <2>3, <2>4, <2>5, <2>6, <2>7, <2>8, <2>9, <2>10, Steps DEF ConfigNext
<1>3. QED
  BY <1>1, <1>2, PTL DEF Spec

\* What WorkspaceTypeOK says beyond Config and what the replicas print.
RestTypeOK ==
  /\ pg \in BOOLEAN /\ valid \in BOOLEAN
  /\ via \in [Replicas -> 0..MaxStarts]
  /\ row[1] \in {"nothing", IF column = "text" THEN "string" ELSE "int64"}
  /\ pg => proc = "serving" /\ cfg.enabled = "true"

\* A step of the router's start-up and PostgreSQL: it is connected only while the
\* process serves, under the configuration it was opened with.
LEMMA RouterPg ==
  ASSUME RestTypeOK, Router
  PROVE  pg' \in BOOLEAN /\ (pg' => proc' = "serving" /\ cfg'.enabled = "true")
<1>1. pg' = (pg /\ proc' = "serving")
  BY DEF Router
<1>2. pg' \in BOOLEAN
  BY <1>1
<1>3. proc = "serving" /\ proc' = "serving" => cfg' = cfg
  BY DEF Router, ConfigNext, Start, Stat, Truncate, Write, WriteFails, Read, Kill, Place,
     configHistory
<1>4. QED
  BY <1>1, <1>2, <1>3 DEF RestTypeOK

\* The types of the whole start-up: above all, PostgreSQL is there only while the
\* router serves and its section of the file or the environment says so, and the
\* row is of its column's type.
THEOREM WorkspaceTypeCorrect == Spec => []WorkspaceTypeOK
<1>1. Init => RestTypeOK
  <2>1. 0 \in 0..MaxStarts
    BY BoundsAssumption
  <2>2. Nothing[1] = "nothing"
    BY DEF Nothing
  <2>3. QED
    BY <2>1, <2>2 DEF Init, RestTypeOK
<1>2. ConfigTypeOK /\ RestTypeOK /\ [Next]_vars => RestTypeOK'
  <2> SUFFICES ASSUME ConfigTypeOK, RestTypeOK, [Next]_vars PROVE RestTypeOK'
    OBVIOUS
  <2>1. CASE Router
    BY <2>1, RouterPg DEF Router, RestTypeOK, fixed
  <2>2. CASE Open
    <3>1. pg' \in BOOLEAN /\ (pg' => proc' = "serving" /\ cfg'.enabled = "true")
      BY <2>2 DEF Open, RestTypeOK
    <3>2. QED
      BY <2>2, <3>1 DEF Open, RestTypeOK, fixed
  <2>3. CASE PgInsert
    <3>1. row'[1] \in {"nothing", IF column = "text" THEN "string" ELSE "int64"}
      BY <2>3 DEF PgInsert, Stored, RestTypeOK
    <3>2. QED
      BY <2>3, <3>1 DEF PgInsert, RestTypeOK, configVars, fixed
  <2>4. ASSUME NEW r \in Replicas, InitWorkspace(r) PROVE RestTypeOK'
    <3>1. via' = via \/ via' = [via EXCEPT ![r] = starts]
      BY <2>4 DEF InitWorkspace, Denied, Rejected, Begins
    <3>2. via' \in [Replicas -> 0..MaxStarts]
      BY <3>1 DEF RestTypeOK, ConfigTypeOK
    <3>3. QED
      BY <2>4, <3>2 DEF InitWorkspace, RestTypeOK, configVars, fixed
  <2>5. ASSUME UNCHANGED <<configVars, pg, via, row, fixed>> PROVE RestTypeOK'
    BY <2>5 DEF RestTypeOK, configVars, fixed
  <2>6. QED
    BY <2>1, <2>2, <2>3, <2>4, <2>5 DEF Next, New, Created, Unanswered, StrayEnds, PgQuery, vars, fixed
<1>3. ConfigTypeOK /\ RestTypeOK /\ SaidInv => WorkspaceTypeOK
  BY DEF RestTypeOK, SaidInv, WorkspaceTypeOK
<1>4. QED
  BY <1>1, <1>2, <1>3, ConfigTypeInvariance, SaidInvariance, PTL DEF Spec

\* A replica that starts without a warning has its database, and one at most has
\* made it.
THEOREM QuietMeansReadyHolds == Spec => []QuietMeansReady
<1>1. SaidInv => QuietMeansReady
  <2> SUFFICES ASSUME SaidInv PROVE QuietMeansReady
    OBVIOUS
  <2> DEFINE makers == {r \in Replicas : said[r] = "ok"}
  <2>1. makers = {} \/ \E r \in makers : makers = {r}
    BY DEF SaidInv
  <2>2. Cardinality(makers) <= 1
    BY <2>1, FS_EmptySet, FS_Singleton
  <2>3. QED
    BY <2>2 DEF SaidInv, QuietMeansReady
<1>2. QED
  BY <1>1, SaidInvariance, PTL

\* A warning is given for a reason.
THEOREM WarnExplainedHolds == Spec => []WarnExplained
<1>1. SaidInv => WarnExplained
  BY DEF SaidInv, WarnExplained
<1>2. QED
  BY <1>1, SaidInvariance, PTL

-----------------------------------------------------------------------------

\* A number that a double holds, and an int64 in any case, reaches a bigint column
\* as it is; what the column holds and a double does comes back as it is.
LEMMA NumberStored ==
  ASSUME NEW v \in {"string", "int", "int64", "float64", "nil"} \X Int,
         Fits("bigint", fromProtoValue(Pack(v)))
  PROVE  LET s == Stored("bigint", fromProtoValue(Pack(v))) IN
         /\ v[1] = "int64" => s = <<"int64", v[2]>>
         /\ v[2] <= 2 ^ Mantissa =>
              s = <<"int64", v[2]>> /\ Unpack(toProtoValue(s)) = <<"float64", v[2]>>
<1>1. CASE v[1] \in {"string", "int64"}
  <2>1. fromProtoValue(Pack(v)) = <<"string", v[2]>>
    BY <1>1 DEF Pack, fromProtoValue
  <2>2. QED
    BY <2>1 DEF Stored, toProtoValue, Unpack, Double
<1>2. CASE v[1] \in {"int", "float64"}
  <2>1. fromProtoValue(Pack(v)) = <<"float64", Double(v[2])>>
    BY <1>2 DEF Pack, fromProtoValue
  <2>2. v[2] <= 2 ^ Mantissa => Double(v[2]) = v[2]
    BY DEF Double
  <2>3. QED
    BY <1>2, <2>1, <2>2 DEF Stored, toProtoValue, Unpack
<1>3. CASE v[1] = "nil"
  <2>1. fromProtoValue(Pack(v)) = <<"string", NilText>>
    BY <1>3 DEF Pack, fromProtoValue
  <2>2. QED
    BY <2>1 DEF Fits, NilText
<1>4. QED
  BY <1>1, <1>2, <1>3

\* The row is what became of the value it was made from.
RowInv ==
  \/ row = Nothing /\ given = Nothing
  \/ /\ given \in Inputs /\ Fits(column, fromProtoValue(Pack(given)))
     /\ row = Stored(column, fromProtoValue(Pack(given)))

\* A number is kept on its way into a bigint column and back.
THEOREM NumbersKeptHolds == Spec => []NumbersKept
<1> DEFINE NumberInv == RowInv /\ NumbersKept
<1>1. Init => NumberInv
  BY DEF Init, RowInv, NumbersKept, Nothing
<1>2. NumberInv /\ [Next]_vars => NumberInv'
  <2> SUFFICES ASSUME NumberInv, [Next]_vars PROVE NumberInv'
    OBVIOUS
  <2>1. ASSUME UNCHANGED <<row, given, got, column>> PROVE NumberInv'
    BY <2>1 DEF RowInv, NumbersKept
  <2>2. CASE PgInsert
    <3>1. ASSUME NEW v \in Inputs, Fits(column, fromProtoValue(Pack(v))),
                 row' = Stored(column, fromProtoValue(Pack(v))), given' = v,
                 UNCHANGED <<got, column>>
          PROVE  NumberInv'
      <4>1. RowInv'
        BY <3>1 DEF RowInv
      <4>2. column = "bigint" => (v[1] = "int64" => row' = <<"int64", v[2]>>)
        BY <3>1, NumberStored, InputsAssumption
      <4>3. QED
        BY <3>1, <4>1, <4>2 DEF NumbersKept
    <3>2. QED
      BY <2>2, <2>1, <3>1 DEF PgInsert, fixed
  <2>3. CASE PgQuery
    <3>1. ASSUME row # Nothing, got' = [in |-> given, out |-> Unpack(toProtoValue(row))],
                 UNCHANGED <<row, given, column>>
          PROVE  NumberInv'
      <4>1. /\ given \in Inputs /\ Fits(column, fromProtoValue(Pack(given)))
            /\ row = Stored(column, fromProtoValue(Pack(given)))
        BY <3>1 DEF RowInv
      <4>2. column = "bigint" /\ given[2] <= 2 ^ Mantissa =>
              Unpack(toProtoValue(row)) = <<"float64", given[2]>>
        BY <4>1, NumberStored, InputsAssumption
      <4>3. QED
        BY <3>1, <4>1, <4>2 DEF RowInv, NumbersKept
    <3>2. QED
      BY <2>3, <2>1, <3>1 DEF PgQuery, fixed
  <2>4. QED
    BY <2>1, <2>2, <2>3 DEF Next, Router, Open, New, InitWorkspace, Created, Unanswered,
       StrayEnds, seenVars, fixed, vars
<1>3. NumberInv => NumbersKept
  OBVIOUS
<1>4. QED
  BY <1>1, <1>2, <1>3, PTL DEF Spec
=============================================================================
