----------------------------- MODULE PitIntake -----------------------------
(***************************************************************************)
(* The feeds of the pit-intake worker: words and Drive links (/submit) and   *)
(* clips (/upload) that join a pit's feed, the bucket the clips are kept in, *)
(* and the admin's removals.  The worker awaits between its calls to the     *)
(* bucket and to the Durable Object and may die at any of them; a method of  *)
(* the Durable Object runs whole.                                           *)
(*                                                                         *)
(* An entry and the clip it was uploaded with bear the number of their       *)
(* request.  Of a clip's name only one thing matters: sanitizeFilename keeps *)
(* dots, so its key may hold "..".  Clients are told apart by the limiter    *)
(* only: one stands for all.                                                *)
(***************************************************************************)
EXTENDS Integers, Sequences, SequencesExt

CONSTANTS
    Pits,
    Cap,            \* FEED_CAP
    Limit,          \* door -> requests one client has per window
    Workers,        \* requests in flight
    NoPit,
    MaxEntries      \* bound: entries of a behaviour

Doors == {"submit", "upload", "world"}

ASSUME IntakeAssumption ==
    /\ Cap \in Nat \ {0} /\ MaxEntries \in Nat
    /\ Limit \in [Doors -> Int] /\ NoPit \notin Pits

Numbers == 1 .. MaxEntries

VARIABLES
    feeds,      \* pit -> its entries, newest first: [n, upload, dotted]
    bucket,     \* the clips stored
    workers,    \* request -> [at, pit, entry]
    passed,     \* door -> requests let through since the window of the client opened
    made,       \* numbers given so far
    accepted,   \* history: pit -> the entries added, in order
    removed     \* history: the numbers of entries taken out by the admin

intakeVars == <<feeds, bucket, workers, passed, made, accepted, removed>>

Entry(n, upload, dotted) == [n |-> n, upload |-> upload, dotted |-> dotted]
Entries == [n : 0 .. MaxEntries, upload : BOOLEAN, dotted : BOOLEAN]
NoEntry == Entry(0, FALSE, FALSE)
Resting == [at |-> "idle", pit |-> NoPit, entry |-> NoEntry]
Working(place, p, e) == [at |-> place, pit |-> p, entry |-> e]

IntakeInit ==
    /\ feeds = [p \in Pits |-> <<>>]
    /\ bucket = {}
    /\ workers = [w \in Workers |-> Resting]
    /\ passed = [d \in Doors |-> 0]
    /\ made = 0
    /\ accepted = [p \in Pits |-> <<>>]
    /\ removed = {}
----------------------------------------------------------------------------
\* IntakeStore.rateLimit
RateLimit(d) ==
    /\ Limit[d] <= 0 \/ passed[d] < Limit[d]
    /\ passed' = [passed EXCEPT ![d] = IF Limit[d] <= 0 THEN @ ELSE @ + 1]

\* the window of the client has run out, so its next request opens a new one
WindowEnds(d) ==
    /\ passed[d] # 0
    /\ passed' = [passed EXCEPT ![d] = 0]
    /\ UNCHANGED <<feeds, bucket, workers, made, accepted, removed>>

\* POST /world/device and /world/token: passed on to the identity provider, nothing kept
WorldProxy ==
    /\ RateLimit("world")
    /\ UNCHANGED <<feeds, bucket, workers, made, accepted, removed>>

\* the limiter lets a request in; what it reads and calls next, it awaits
LetIn(w, d) ==
    /\ workers[w] = Resting
    /\ RateLimit(d)
    /\ workers' = [workers EXCEPT ![w] = Working(d, NoPit, NoEntry)]
    /\ UNCHANGED <<feeds, bucket, made, accepted, removed>>

\* IntakeStore.add and remove, on the list of one pit
\* mutant: the entry joins at the end
AddedLast(list, e) == SubSeq(Append(list, e), 1, IF Len(list) < Cap THEN Len(list) + 1 ELSE Cap)
Added(list, e) == SubSeq(<<e>> \o list, 1, IF Len(list) < Cap THEN Len(list) + 1 ELSE Cap)
FindIndex(list, n) == SelectInSeq(list, LAMBDA e : e.n = n)    \* the first, 0 if none
Lists(list, n) == FindIndex(list, n) # 0
Without(list, n) == RemoveAt(list, FindIndex(list, n))

\* the body names the pit and holds a link or words
Submits(w, p) ==
    /\ workers[w].at = "submit" /\ made < MaxEntries
    /\ made' = made + 1
    /\ workers' = [workers EXCEPT ![w] = Working("adding", p, Entry(made', FALSE, FALSE))]
    /\ UNCHANGED <<feeds, bucket, passed, accepted, removed>>

\* the clip is stored before its entry is made
Uploads(w, p) ==
    /\ workers[w].at = "upload" /\ made < MaxEntries
    /\ made' = made + 1
    /\ bucket' = bucket \union {made'}
    /\ \E dotted \in BOOLEAN :
          workers' = [workers EXCEPT ![w] = Working("adding", p, Entry(made', TRUE, dotted))]
    /\ UNCHANGED <<feeds, passed, accepted, removed>>

Adds(w) ==
    LET p == workers[w].pit
        e == workers[w].entry
    IN  /\ workers[w].at = "adding"
        /\ feeds' = [feeds EXCEPT ![p] = Added(@, e)]
        /\ accepted' = [accepted EXCEPT ![p] = Append(@, e)]
        /\ workers' = [workers EXCEPT ![w] = Resting]
        /\ UNCHANGED <<bucket, passed, made, removed>>

EntryOf(p, n) == feeds[p][FindIndex(feeds[p], n)]

\* mutant: the clip leaves the bucket while its entry is still listed
RemovesClipFirst(w, p, n) ==
    /\ workers[w] = Resting /\ Lists(feeds[p], n)
    /\ bucket' = bucket \ {n}
    /\ workers' = [workers EXCEPT ![w] = Working("unlinking", p, EntryOf(p, n))]
    /\ UNCHANGED <<feeds, passed, made, accepted, removed>>
\* DELETE /entry: an entry the pit does not list is answered 404
Removes(w, p, n) ==
    /\ workers[w] = Resting /\ Lists(feeds[p], n)
    /\ feeds' = [feeds EXCEPT ![p] = Without(@, n)]
    /\ workers' = [workers EXCEPT ![w] =
          IF EntryOf(p, n).upload THEN Working("unlinking", p, EntryOf(p, n)) ELSE Resting]
    /\ removed' = removed \union {n}
    /\ UNCHANGED <<bucket, passed, made, accepted>>

Unlinks(w) ==
    /\ workers[w].at = "unlinking"
    /\ bucket' = bucket \ {workers[w].entry.n}
    /\ workers' = [workers EXCEPT ![w] = Resting]
    /\ UNCHANGED <<feeds, passed, made, accepted, removed>>

\* refused for its body, pit, type, size or link; the store fails (500), or the bucket
\* does (swallowed on a removal); or the worker dies
Dies(w) ==
    /\ workers[w].at # "idle"
    /\ workers' = [workers EXCEPT ![w] = Resting]
    /\ UNCHANGED <<feeds, bucket, passed, made, accepted, removed>>

IntakeNext ==
    \/ \E d \in Doors : WindowEnds(d)
    \/ WorldProxy
    \/ \E w \in Workers :
        \/ \E d \in {"submit", "upload"} : LetIn(w, d)
        \/ \E p \in Pits : Submits(w, p) \/ Uploads(w, p)
        \/ \E p \in Pits, n \in Numbers : Removes(w, p, n)
        \/ Adds(w) \/ Unlinks(w) \/ Dies(w)

IntakeSpec == IntakeInit /\ [][IntakeNext]_intakeVars
----------------------------------------------------------------------------
IntakeTypeOK ==
    /\ feeds \in [Pits -> Seq(Entries)] /\ accepted \in [Pits -> Seq(Entries)]
    /\ bucket \subseteq Numbers /\ removed \subseteq Numbers
    /\ workers \in [Workers -> [at : {"idle", "submit", "upload", "adding", "unlinking"},
                                pit : Pits \union {NoPit}, entry : Entries]]
    /\ passed \in [Doors -> Nat] /\ made \in 0 .. MaxEntries

\* GET /file/<key>: a key that holds ".." is not found, stored or not
Stored(e) == e.n \in bucket
Served(e) == Stored(e) /\ ~e.dotted

(***************************************************************************)
(* Every clip a feed shows is stored, and can be fetched unless its name     *)
(* holds "..": it is stored before its entry is added and its entry is gone  *)
(* before it is deleted, whatever requests run at once and wherever one of   *)
(* them dies.                                                               *)
(***************************************************************************)
ListedClipsAreStored ==
    /\ IntakeTypeOK
    /\ \A p \in Pits : \A i \in DOMAIN feeds[p] :
          feeds[p][i].upload => Stored(feeds[p][i]) /\ (Served(feeds[p][i]) \/ feeds[p][i].dotted)

(***************************************************************************)
(* A feed is its pit's entries, newest first (index.ts:9), and loses one     *)
(* only to the admin or to Cap newer ones: what is shown is a selection of   *)
(* what was accepted, in reverse; nothing removed comes back; and what is    *)
(* missing without having been removed is older than Cap others.            *)
(***************************************************************************)
FeedIsHonest ==
    \A p \in Pits :
        /\ Len(feeds[p]) <= Cap
        /\ \A i \in DOMAIN feeds[p] :
              /\ \E k \in DOMAIN accepted[p] : feeds[p][i] = accepted[p][k]
              /\ feeds[p][i].n \notin removed
        /\ \A i, j \in DOMAIN feeds[p], k, m \in DOMAIN accepted[p] :
              feeds[p][i] = accepted[p][k] /\ feeds[p][j] = accepted[p][m] => (i < j <=> k > m)
        /\ \A k \in DOMAIN accepted[p] :
              ~Lists(feeds[p], accepted[p][k].n) /\ accepted[p][k].n \notin removed
                  => Len(accepted[p]) - k >= Cap

=============================================================================
