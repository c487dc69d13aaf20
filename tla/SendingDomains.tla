--------------------------- MODULE SendingDomains ---------------------------
(***************************************************************************)
(* A sender's domain is released for sending by its SPF, DKIM and DMARC    *)
(* records (sendingDomain.service).  The verdict is kept and looked up     *)
(* again when it is older than REVERIFY_AFTER_MS, by whoever starts a      *)
(* campaign or sends a form's message.  One domain.                        *)
(***************************************************************************)
EXTENDS Integers

CONSTANTS Callers,    \* requests and workers that ask at once
          Reverify,   \* REVERIFY_AFTER_MS, in ticks of the clock
          MaxTime     \* bound: ticks; a call is shorter than a tick

ASSUME DomainAssumption == Reverify \in Nat /\ MaxTime \in Nat

VARIABLES
    hour,      \* the clock
    records,   \* what the domain publishes: right or wrong
    dns,       \* the resolver answers: TRUE
    domain,    \* SendingDomain: status ("none": no document), checkedAt
    asking,    \* each caller: its step, for a send or for the panel, what the lookups said
    wrongAt,   \* history: when the records became wrong
    raced      \* history: callers whose look at the old verdict was overtaken by a new one

domainVars == <<hour, records, dns, domain, asking, wrongAt, raced>>

DomainsInit ==
    /\ hour = 0 /\ records = FALSE /\ dns = TRUE /\ wrongAt = 0
    /\ domain = [status |-> "none", at |-> 0]
    /\ asking = [c \in Callers |-> [pc |-> "idle"]]
    /\ raced = {}

AskingAt(c, w) == asking[c].pc = w
Asks(c, w, send, got) == asking' = [asking EXCEPT ![c] = [pc |-> w, send |-> send, got |-> got]]
Idle(c) == asking' = [asking EXCEPT ![c] = [pc |-> "idle"]]
World == <<hour, records, dns, wrongAt>>
Verified == domain.status = "verified"

Stale == domain.status = "none" \/ hour - domain.at > Reverify

(* assertSendable: a verdict that is good and fresh is enough.             *)
AssertSendable(c) ==
    /\ AskingAt(c, "idle")
    /\ Asks(c, IF Verified /\ ~Stale THEN "allowed" ELSE "lookup", TRUE, "none")
    /\ UNCHANGED <<World, domain, raced>>

\* verify, from the panel.
VerifyDomain(c) ==
    /\ AskingAt(c, "idle")
    /\ Asks(c, "lookup", FALSE, "none")
    /\ UNCHANGED <<World, domain, raced>>

\* checkSpf, checkDkim, checkDmarc: one record that is wrong fails the domain, even if another
\* could not be asked for.
Verdicts == IF dns THEN {IF records THEN "pass" ELSE "fail"} ELSE {"error"} \cup (IF records THEN {} ELSE {"fail"})

EvaluateDomain(c) ==
    /\ AskingAt(c, "lookup")
    /\ \E got \in Verdicts : Asks(c, IF got = "error" THEN "existing" ELSE "write", asking[c].send, got)
    /\ UNCHANGED <<World, domain, raced>>

Answered(c, verified) == IF asking[c].send /\ verified THEN Asks(c, "allowed", TRUE, asking[c].got) ELSE Idle(c)

\* Mutant: an outage is written like a refusal.
KeepExistingNever(c) ==
    /\ AskingAt(c, "existing")
    /\ Asks(c, "write", asking[c].send, "error")
    /\ raced' = raced \ {c}
    /\ UNCHANGED <<World, domain>>

KeepExisting(c) ==
    /\ AskingAt(c, "existing")
    /\ IF Verified THEN Answered(c, TRUE) ELSE Asks(c, "write", asking[c].send, "error")
    /\ raced' = raced \ {c}
    /\ UNCHANGED <<World, domain>>

WriteVerdict(c) ==
    LET verified == asking[c].got = "pass" IN
    /\ AskingAt(c, "write")
    /\ domain' = [status |-> IF verified THEN "verified" ELSE "unverified", at |-> hour]
    /\ Answered(c, verified)
    /\ raced' = IF verified THEN raced \cup {d \in Callers \ {c} : AskingAt(d, "write")} ELSE raced
    /\ UNCHANGED World

\* The campaign starts, the form's message goes out; or the call breaks off.
CallEnds(c) == AskingAt(c, "allowed") /\ Idle(c) /\ UNCHANGED <<World, domain, raced>>
CallBreaks(c) == ~AskingAt(c, "idle") /\ Idle(c) /\ UNCHANGED <<World, domain, raced>>

(* The client edits its records; the resolver times out for a while.       *)
EditRecords ==
    /\ records' = ~records
    /\ wrongAt' = IF records THEN hour ELSE wrongAt
    /\ UNCHANGED <<hour, dns, domain, asking, raced>>
DnsTurns == dns' = ~dns /\ UNCHANGED <<hour, records, wrongAt, domain, asking, raced>>
HourPasses ==
    /\ hour < MaxTime /\ \A c \in Callers : AskingAt(c, "idle")
    /\ hour' = hour + 1
    /\ UNCHANGED <<records, dns, wrongAt, domain, asking, raced>>

AskStep(c) == EvaluateDomain(c) \/ KeepExisting(c) \/ WriteVerdict(c) \/ CallEnds(c)

\* A domain whose records are wrong for longer than a verdict lasts sends nothing more,
\* unless the resolver is out; and "DNS fora do ar nao derruba um dominio que ja estava
\* liberado": an outage takes no domain down, except by a check that had looked at the old
\* verdict before a check beside it released the domain.
ReleasedByRecords ==
    [][\A c \in Callers :
        /\ ~AskingAt(c, "allowed") /\ AskingAt(c, "allowed")' /\ asking'[c].got # "error"
              => records \/ hour - wrongAt <= Reverify
        /\ AskingAt(c, "write") /\ ~AskingAt(c, "write")' /\ asking[c].got = "error" /\ Verified /\ ~Verified'
              => c \in raced]_domainVars
=============================================================================
