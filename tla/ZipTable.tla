------------------------------ MODULE ZipTable ------------------------------
(***************************************************************************)
(* The `zips` table of the hotel crawl, and the SQL statements that the VM *)
(* crawlers (services/hotel-scraper) and the browser workers               *)
(* (services/hotel-scraper-windows) run on it, as functions on table       *)
(* values.  The two services share the table: it is their work queue.      *)
(*                                                                         *)
(* updated_at is kept as the row's age in ticks, saturated at StaleAfter:  *)
(* the code only ever compares it with "thirty minutes ago", and           *)
(* age = StaleAfter means older than that.  last_scraped_at is kept as the *)
(* one fact the claims read: whether it is past the refresh window.        *)
(***************************************************************************)
EXTENDS Naturals

CONSTANTS
    Zip,         \* the ZIP codes of the table
    Token,       \* claim markers 'husshone-browser:<uuid>'
    Null,        \* SQL NULL, and "no worker", "no ZIP" and "no claim"
    Message,     \* a failure text in last_error
    StaleAfter   \* age, in ticks, at which an in_progress row has expired

ASSUME ZipTableAssumption ==
    /\ StaleAfter \in Nat \ {0}
    /\ Null \notin Token \cup Zip
    /\ Message \notin Token \cup {Null}

PlacesStatus == {"pending", "in_progress", "done", "error", "quarantined"}

ZipRow == [ places_status : PlacesStatus,
            last_error    : Token \cup {Null, Message},
            age           : 0 .. StaleAfter,
            refreshDue    : BOOLEAN ]

\* A row as the loader inserts it.
LoadedRow == [ places_status |-> "pending", last_error |-> Null,
               age |-> 0, refreshDue |-> FALSE ]

InProgress(row) == row.places_status = "in_progress"

\* Mutant of Expired: the comparison is off by one and no row ever expires.
NeverExpired(row) == InProgress(row) /\ row.age > StaleAfter

\* places_status = 'in_progress' AND updated_at < now() - 30 minutes
Expired(row) == InProgress(row) /\ row.age = StaleAfter

\* last_error LIKE 'husshone-browser:%'
Marked(row) == row.last_error \in Token

-----------------------------------------------------------------------------
(* Statements of services/hotel-scraper/scripts/lib/db.mjs                 *)

\* SET places_status = 'in_progress', updated_at = now(): last_error is kept.
VmClaimed(row) == [row EXCEPT !.places_status = "in_progress", !.age = 0]

\* SET places_status = 'pending', updated_at = now(): last_error is kept.
VmRequeued(row) == [row EXCEPT !.places_status = "pending", !.age = 0]

requeueStaleInProgress(table) ==
    [z \in Zip |-> IF Expired(table[z]) THEN VmRequeued(table[z]) ELSE table[z]]

\* markZipDone, and the ZIP update of the browser's _save_results and
\* _mark_zip_empty_done: every one of them sets the same columns.
DoneRow(row) == [ places_status |-> "done", last_error |-> Null,
                  age |-> 0, refreshDue |-> FALSE ]

\* Mutant of ParkedRow: a status that no claim, recovery or retry selects.
MisspelledRow(row, status) ==
    [row EXCEPT !.places_status = "failed", !.last_error = Message, !.age = 0]

\* markZipError, _mark_zip_error and _mark_zip_quarantined
ParkedRow(row, status) ==
    [row EXCEPT !.places_status = status, !.last_error = Message, !.age = 0]

\* Rows a claim may pick: a pending one, and a done one past the refresh
\* window only when nothing is pending.  ORDER BY is a preference among
\* these; FOR UPDATE SKIP LOCKED passes over a row another claim is taking.
Claimable(table) ==
    LET pending == {z \in Zip : table[z].places_status = "pending"}
        due     == {z \in Zip : /\ table[z].places_status = "done"
                                /\ table[z].refreshDue}
    IN  IF pending # {} THEN pending ELSE due

-----------------------------------------------------------------------------
(* Statements of services/hotel-scraper-windows/app/worker.py              *)

\* Mutant of BrowserClaimed: a marker that is already there is reused.
MarkerReused(row, token) ==
    [row EXCEPT !.places_status = "in_progress", !.age = 0,
                !.last_error = IF Marked(row) THEN @ ELSE token]

BrowserClaimed(row, token) ==
    [row EXCEPT !.places_status = "in_progress", !.last_error = token, !.age = 0]

\* _release_zip_claims, the expiry recovery of _claim_next_zip and
\* retry_failed_zips all set these columns.
Released(row) ==
    [row EXCEPT !.places_status = "pending", !.last_error = Null, !.age = 0]

\* Mutant of RequeueExpiredMarkers: the age is not looked at.
RequeueEveryMarker(table) ==
    [z \in Zip |-> IF InProgress(table[z]) /\ Marked(table[z])
                   THEN Released(table[z]) ELSE table[z]]

\* First statement of _claim_next_zip: only expired rows with a marker.
RequeueExpiredMarkers(table) ==
    [z \in Zip |-> IF Expired(table[z]) /\ Marked(table[z])
                   THEN Released(table[z]) ELSE table[z]]

\* The WHERE clause of the heartbeat and of the release, and the test of
\* _lock_owned_zip.
Leased(row, token) == InProgress(row) /\ row.last_error = token

=============================================================================
