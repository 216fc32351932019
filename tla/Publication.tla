---------------------------- MODULE Publication -----------------------------
(***************************************************************************)
(* publish_release: gate, build, consistency check, receipt, intent, the   *)
(* deployments to two hosts, the records of what happened, and the check   *)
(* of the live sites (scripts/publish_release.py, control/publication.py,  *)
(* the command journal and the publication tables of the control           *)
(* database).                                                              *)
(*                                                                         *)
(* Every publication has a checkout of its own; the hosts, the journal and *)
(* the database are shared.  A data.js is its version of the corpus, its   *)
(* digest is the version again.  ProjectionWatermarks has the answers of   *)
(* the projection gate; here it lets pass or refuses.                      *)
(***************************************************************************)
EXTENDS Naturals, FiniteSets

CONSTANTS
    Publications, \* runs of the command
    Shas,         \* commits that are published
    ClaimOf,      \* commit -> the version of the corpus its pages quote
    MaxKeys,      \* bound: journal rows of an act (99 in the code)
    MaxCorpus,    \* bound: versions of the corpus
    MaxMishaps     \* bound: kills, failed calls and deployments, lost replies

Roles    == {"canonical", "mirror"}
Versions == 0..MaxCorpus
Keys     == 1..MaxKeys
Nobody   == "nobody"

ASSUME PublicationAssumption ==
    /\ ClaimOf \in [Shas -> Versions] /\ Nobody \notin Publications
    /\ MaxKeys \in Nat \ {0} /\ MaxCorpus \in Nat /\ MaxMishaps \in Nat

VARIABLES
    pub,          \* publication -> where it is
    corpus,       \* version of the results build_data.py reads
    host,         \* role -> the release it serves
    journal,      \* commit, attempt -> state of the command row
    rows,         \* publication_deployments: [pub, role, ok]
    mishaps,      \* kills, failed calls and deployments, lost replies
    released      \* commit, attempt -> publications that released to both hosts under the row

publicationVars == <<pub, corpus, host, journal, rows, mishaps, released>>

Stages == {"idle", "gate", "build", "check", "begin", "insert", "canonical", "mirror", "receipt",
           "record", "archive", "database", "see canonical", "see mirror", "done"}
Options == {"dry-run", "skip-build", "no-post-deploy-check"}
Results == {"none", "refused", "dry run", "published", "unchecked", "deploy failed", "not live", "died"}

PublicationTypeOK ==
    /\ \A p \in Publications :
        /\ pub[p].at \in Stages /\ pub[p].result \in Results /\ pub[p].sha \in Shas
        /\ pub[p].data \in Versions /\ pub[p].key \in Keys
        /\ pub[p].options \subseteq Options
        /\ pub[p].ok \subseteq Roles /\ pub[p].seen \subseteq Roles
        /\ pub[p].raised => pub[p].at \in {"receipt", "record", "done"}
        /\ (pub[p].result = "none") = (pub[p].at # "done")
        /\ pub[p].result = "published" => pub[p].ok = Roles /\ pub[p].seen = Roles
    /\ corpus \in Versions
    /\ \A h \in Roles : host[h].data \in Versions /\ host[h].by \in Publications \cup {Nobody}
    /\ journal \in [Shas -> [Keys -> {"none", "intent", "completed", "failed"}]]
    /\ rows \subseteq [pub : Publications, role : Roles, ok : BOOLEAN]

\* Both hosts serve the same release; each checkout has an old data.js.
PublicationInit ==
    /\ pub \in [Publications ->
                 {[at |-> "idle", result |-> "none", sha |-> s, data |-> 0, key |-> 1,
                   options |-> {}, raised |-> FALSE, ok |-> {}, seen |-> {}] : s \in Shas}]
    /\ corpus = 0
    /\ host = [h \in Roles |-> [data |-> 0, by |-> Nobody]]
    /\ journal = [s \in Shas |-> [k \in Keys |-> "none"]]
    /\ rows = {} /\ mishaps = 0
    /\ released = [s \in Shas |-> [k \in Keys |-> {}]]

Mishap   == mishaps < MaxMishaps /\ mishaps' = mishaps + 1
NoMishap == UNCHANGED mishaps
Go(p, step) == pub' = [pub EXCEPT ![p].at = step]
End(p, r)   == pub' = [pub EXCEPT ![p].at = "done", ![p].result = r]
Row(p)      == journal[pub[p].sha][pub[p].key]
-----------------------------------------------------------------------------
(* Before anything is deployed.                                            *)

\* The candidate is HEAD.
Begin(p, options) ==
    /\ pub[p].at = "idle"
    /\ pub' = [pub EXCEPT ![p].at = "gate", ![p].options = options]
    /\ UNCHANGED <<corpus, host, journal, rows, mishaps, released>>

Gate(p) ==
    /\ pub[p].at = "gate"
    /\ Go(p, "build") \/ End(p, "refused")
    /\ UNCHANGED <<corpus, host, journal, rows, mishaps, released>>

Build(p) ==
    /\ pub[p].at = "build"
    /\ \/ /\ pub' = [pub EXCEPT ![p].at = "check",
                                ![p].data = IF "skip-build" \in pub[p].options THEN @ ELSE corpus]
          /\ NoMishap
       \/ "skip-build" \notin pub[p].options /\ End(p, "refused") /\ Mishap
    /\ UNCHANGED <<corpus, host, journal, rows, released>>

\* check_site_consistency: the pages quote the numbers of data.js.
Consistent(p) == ClaimOf[pub[p].sha] = pub[p].data

\* check_site_consistency, build_receipt, assert_publication_ready.
Check(p) ==
    /\ pub[p].at = "check"
    /\ IF ~Consistent(p) THEN End(p, "refused")
       ELSE IF "dry-run" \in pub[p].options THEN End(p, "dry run") ELSE Go(p, "begin")
    /\ UNCHANGED <<corpus, host, journal, rows, mishaps, released>>

\* begin_command with completed = "advance": the first attempt that has not ended.
BeginCommand(p) ==
    LET open == {k \in Keys : journal[pub[p].sha][k] \in {"none", "intent"}}
    IN  /\ pub[p].at = "begin"
        /\ \/ \E k \in open :
                /\ \A j \in open : k <= j
                /\ pub' = [pub EXCEPT ![p].key = k,
                              ![p].at = IF journal[pub[p].sha][k] = "none" THEN "insert" ELSE "canonical"]
                /\ NoMishap
           \/ open = {} /\ End(p, "refused") /\ NoMishap
           \/ End(p, "refused") /\ Mishap
        /\ UNCHANGED <<corpus, host, journal, rows, released>>

\* record_command_intent: its second look returns a row that is there by now,
\* whatever its state; without it the unique index refuses the insert.
InsertIntent(p) ==
    /\ pub[p].at = "insert"
    /\ \/ /\ Row(p) = "none"
          /\ journal' = [journal EXCEPT ![pub[p].sha][pub[p].key] = "intent"]
          /\ (Go(p, "canonical") /\ NoMishap) \/ (End(p, "refused") /\ Mishap)
       \/ Row(p) # "none" /\ UNCHANGED journal /\ (Go(p, "canonical") \/ End(p, "refused")) /\ NoMishap
    /\ UNCHANGED <<corpus, host, rows, released>>
-----------------------------------------------------------------------------
(* The deployments, their records, and the look at the live sites.         *)

\* The host serves the checkout.
Serve(p, role) ==
    host' = [host EXCEPT ![role] = [data |-> pub[p].data, by |-> p]]

\* firebase_deploy; the mirror is deployed whatever became of canonical.  A
\* deployment that failed or timed out may have been released; other errors
\* of the call leave the loop, and the command once the row says "failed".
Deploy(p, role) ==
    LET next == IF role = "canonical" THEN "mirror" ELSE "receipt"
    IN  /\ pub[p].at = role
        /\ \/ /\ Serve(p, role) /\ NoMishap
              /\ pub' = [pub EXCEPT ![p].at = next, ![p].ok = @ \cup {role}]
           \/ Mishap /\ Go(p, next) /\ (UNCHANGED host \/ Serve(p, role))
           \/ Mishap /\ pub' = [pub EXCEPT ![p].at = "receipt", ![p].raised = TRUE] /\ UNCHANGED host
        /\ released' = IF role = "mirror" /\ pub'[p].ok = Roles
                       THEN [released EXCEPT ![pub[p].sha][pub[p].key] = @ \cup {p}] ELSE released
        /\ UNCHANGED <<corpus, journal, rows>>

\* Mutant: one host is enough.
OutcomeOfAny(p) == IF pub[p].ok # {} THEN "completed" ELSE "failed"

Outcome(p) == IF pub[p].ok = Roles THEN "completed" ELSE "failed"

AfterReceipt(p) == IF pub[p].raised THEN End(p, "died") ELSE Go(p, "archive")

\* finish_command reads the row outside of the transaction that writes it; a
\* row that has ended, or a failure, costs a warning.
ReceiptRead(p) ==
    /\ pub[p].at = "receipt"
    /\ \/ Row(p) = "intent" /\ Go(p, "record") /\ NoMishap
       \/ Row(p) # "intent" /\ AfterReceipt(p) /\ NoMishap
       \/ Mishap /\ AfterReceipt(p)
    /\ UNCHANGED <<corpus, host, journal, rows, released>>

ReceiptWrite(p) ==
    /\ pub[p].at = "record"
    /\ journal' = [journal EXCEPT ![pub[p].sha][pub[p].key] = Outcome(p)]
    /\ AfterReceipt(p)
    /\ UNCHANGED <<corpus, host, rows, mishaps, released>>

\* write_receipt: nothing catches its failure.
Archive(p) ==
    /\ pub[p].at = "archive"
    /\ \/ Go(p, "database") /\ NoMishap
       \/ End(p, "died") /\ Mishap
    /\ UNCHANGED <<corpus, host, journal, rows, released>>

\* A failed deployment ends the command.
AfterRecords(p) ==
    IF pub[p].ok # Roles THEN End(p, "deploy failed")
    ELSE IF "no-post-deploy-check" \in pub[p].options THEN End(p, "unchecked")
    ELSE Go(p, "see canonical")

\* record_publication_receipt and record_deployment, each a transaction: a
\* failure leaves the rows before it and is a warning, unless SQLite raised it.
Database(p) ==
    LET row(role) == [pub |-> p, role |-> role, ok |-> role \in pub[p].ok]
    IN  /\ pub[p].at = "database"
        /\ \/ rows' = rows \cup {row(role) : role \in Roles} /\ NoMishap
           \/ Mishap /\ (UNCHANGED rows \/ rows' = rows \cup {row("canonical")})
        /\ AfterRecords(p) \/ (mishaps' > mishaps /\ End(p, "died"))
        /\ UNCHANGED <<corpus, host, journal, released>>

\* Mutant: a site that cannot be reached raises no problem.
SeenOrUnreachable(p, role) == host[role].data = pub[p].data \/ mishaps' > mishaps

\* check_live_site: an answer with the digest of the receipt.
Seen(p, role) == host[role].data = pub[p].data /\ mishaps' = mishaps

\* Both sites are fetched, then the problems are counted.
SeeCanonical(p) ==
    /\ pub[p].at = "see canonical" /\ (NoMishap \/ Mishap)
    /\ pub' = [pub EXCEPT ![p].at = "see mirror",
                          ![p].seen = IF Seen(p, "canonical") THEN {"canonical"} ELSE {}]
    /\ UNCHANGED <<corpus, host, journal, rows, released>>

SeeMirror(p) ==
    /\ pub[p].at = "see mirror" /\ (NoMishap \/ Mishap)
    /\ LET seen == pub[p].seen \cup (IF Seen(p, "mirror") THEN {"mirror"} ELSE {})
       IN  pub' = [pub EXCEPT ![p].at = "done", ![p].seen = seen,
                              ![p].result = IF seen = Roles THEN "published" ELSE "not live"]
    /\ UNCHANGED <<corpus, host, journal, rows, released>>

Killed(p) ==
    /\ pub[p].at \notin {"idle", "done"} /\ Mishap /\ End(p, "died")
    /\ UNCHANGED <<corpus, host, journal, rows, released>>

\* More results are recorded.
Grow ==
    /\ corpus < MaxCorpus /\ corpus' = corpus + 1
    /\ UNCHANGED <<pub, host, journal, rows, mishaps, released>>

PublishRelease(p) ==
    \/ \E options \in SUBSET Options : Begin(p, options)
    \/ Gate(p) \/ Build(p) \/ Check(p) \/ BeginCommand(p) \/ InsertIntent(p)
    \/ \E role \in Roles : Deploy(p, role)
    \/ ReceiptRead(p) \/ ReceiptWrite(p) \/ Archive(p) \/ Database(p) \/ SeeCanonical(p) \/ SeeMirror(p)

PublicationNext == Grow \/ \E p \in Publications : PublishRelease(p) \/ Killed(p)

PublicationSpec == PublicationInit /\ [][PublicationNext]_publicationVars
-----------------------------------------------------------------------------
(* Properties.                                                             *)

AtRest == \A p \in Publications : pub[p].at \in {"idle", "done"}

\* "The mirror must never drift from canonical": two publications may overlap
\* in any way, but when they are over and the hosts serve different data, one
\* of the two that released what is served did not report success after its
\* look at the live sites.
DriftIsReported ==
    AtRest /\ host["canonical"].data # host["mirror"].data =>
        \E h \in Roles : host[h].by # Nobody /\ pub[host[h].by].result # "published"

\* The journal under overlapping publications that share a row: completed
\* stands for a publication that released to both hosts, and a release leaves
\* a row whatever happens afterwards.
JournalIsTruthful ==
    \A s \in Shas, k \in Keys :
        /\ journal[s][k] = "completed" => released[s][k] # {}
        /\ journal[s][k] = "none" => \A h \in Roles :
                ~(host[h].by # Nobody /\ pub[host[h].by].sha = s /\ pub[host[h].by].key = k)
=============================================================================
