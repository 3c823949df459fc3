----------------------------- MODULE Contracts -----------------------------
(***************************************************************************)
(* The wire contracts of status.py and suite.py that relate several        *)
(* fields: the request status, the provenance of a snapshot, and the       *)
(* attention snapshot a producer hands to HQ.                              *)
(*                                                                         *)
(* A payload is a record of what JSON gives.  A field that may be left out *)
(* is Absent then, and Other is any value that is wrong by itself: of      *)
(* another type, too long, not an identifier, outside the allowed origin.  *)
(* Such rules are abstracted to membership in the sets below, and so is    *)
(* every field that only its own rule looks at.  A time is the instant     *)
(* that its text stands for.                                               *)
(***************************************************************************)
EXTENDS Integers, Sequences, Functions

CONSTANTS
    Ids,           \* identifiers
    Instants,      \* instants of well-formed timestamps with a known offset
    Days,          \* calendar dates without a time
    Texts,         \* nonblank texts
    Destinations,  \* destinations within the configured origin
    SafeInteger,   \* 9007199254740991
    MaxItems,      \* max_items
    Snapshots,     \* what validate_attention may be given
    Absent, Null, Other

DATA_QUALIFIERS == {"stale", "partial", "cached"}

ASSUME KindsAssumption ==
    /\ Instants \subseteq Int
    /\ Absent \notin Instants
    /\ Null \notin Instants
    /\ Null # Absent
    /\ \A q \in DATA_QUALIFIERS : Other # <<q>>

VARIABLE offered  \* what validate_attention is given

REQUEST_OUTCOMES ==
    {"loading", "ok", "empty", "denied", "failed", "unavailable", "queued", "unknown"}

Has(field) == field # Absent
ListOf(list, S) == list # Other /\ Range(list) \subseteq S

-----------------------------------------------------------------------------
(* status.py                                                               *)

Qualified(s, q) == q \in Range(s.qualifiers)

\* validate_status
ValidStatus(s) ==
    /\ s.status \in REQUEST_OUTCOMES
    /\ ListOf(s.qualifiers, DATA_QUALIFIERS)
    /\ IsInjective(s.qualifiers)
    /\ s.retryable \in BOOLEAN
    /\ Qualified(s, "stale") <=> Has(s.as_of)
    /\ Has(s.as_of) => s.as_of \in Instants
    /\ Qualified(s, "partial") <=> Has(s.missing)
    /\ Has(s.missing) => ListOf(s.missing, Texts) /\ s.missing # <<>>
    /\ Has(s.retry_after) => s.retryable /\ s.retry_after \in 0..SafeInteger

\* suite.timestamp borrows the check of as_of from an otherwise sound status.
StaleAt(t) == [status |-> "ok", qualifiers |-> <<"stale">>, retryable |-> FALSE,
               as_of |-> t, missing |-> Absent, retry_after |-> Absent]

ValidTime(t) == ValidStatus(StaleAt(t))
NullOrTime(t) == t = Null \/ ValidTime(t)

-----------------------------------------------------------------------------
(* suite.py                                                                *)

ValidProvenance(p) ==
    /\ p.source_id \in Ids
    /\ NullOrTime(p.observed_at)
    /\ ValidTime(p.fetched_at)
    /\ p.observed_at # Null => p.observed_at <= p.fetched_at
    /\ Has(p.destination) => p.destination \in Destinations

\* Mutant: an incomplete success need not say so.
ReadableSilent(outcome, partial, complete, items) ==
    /\ outcome = "empty" => items = <<>> /\ complete
    /\ outcome \notin {"ok", "empty"} => items = <<>> /\ ~complete
    /\ outcome = "ok" /\ ~complete => items = <<>> \/ partial
    /\ complete => ~partial

\* What outcome, qualifiers, complete and items say of one another.
Readable(outcome, partial, complete, items) ==
    /\ outcome = "empty" => items = <<>> /\ complete
    /\ outcome \notin {"ok", "empty"} => items = <<>> /\ ~complete
    /\ outcome = "ok" /\ ~complete => partial
    /\ complete => ~partial

Key(item) == <<item.source_app_id, item.signal_id>>

\* The dates of an item: each name once.
ValidDates(dates) ==
    /\ Len(dates) <= 10
    /\ IsInjective([i \in DOMAIN dates |-> dates[i].name])
    /\ \A i \in DOMAIN dates :
          /\ dates[i].name \in Ids
          /\ dates[i].value \in Days \/ ValidTime(dates[i].value)

ValidItem(item) ==
    /\ {item.source_app_id, item.signal_id} \subseteq Ids
    /\ item.kind \in {"action", "date", "assignment", "update"}
    /\ item.kind = "action" => Has(item.action_label)
    /\ Has(item.action_label) => item.action_label \in Texts
    /\ item.destination \in Destinations
    /\ ValidTime(item.updated_at)
    /\ Has(item.dates) => ValidDates(item.dates)

\* Every item is of the producer, and no key comes twice.
ValidItems(items, source) ==
    /\ \A i \in DOMAIN items : ValidItem(items[i]) /\ items[i].source_app_id = source
    /\ IsInjective([i \in DOMAIN items |-> Key(items[i])])

ValidAttention(a) ==
    /\ a.schema_version = 1
    /\ ValidStatus(a.status)
    /\ ValidProvenance(a.provenance)
    /\ a.complete \in BOOLEAN
    /\ a.items # Other
    /\ Len(a.items) <= MaxItems
    /\ Readable(a.status.status, Qualified(a.status, "partial"), a.complete, a.items)
    /\ ValidItems(a.items, a.provenance.source_id)

-----------------------------------------------------------------------------
Accepted == ValidAttention(offered)

Offered == offered \in Snapshots

\* Whoever reads "complete" and whoever reads the status come to the same view of an
\* accepted snapshot, and items come with the outcome "ok" alone: what says that
\* nothing was found, or nothing is known, shows nothing.
ReadingsAgree ==
    Accepted =>
        /\ offered.complete <=> /\ offered.status.status \in {"ok", "empty"}
                                /\ ~Qualified(offered.status, "partial")
        /\ offered.items # <<>> => offered.status.status = "ok"
=============================================================================
