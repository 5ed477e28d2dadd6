------------------------------- MODULE WatchSet -------------------------------
(***************************************************************************)
(* The set of watched addresses and the lock around it, which the API's    *)
(* handlers (api.rs) share with the indexer's scan (indexer.rs).           *)
(*                                                                         *)
(* The lock is tokio's RwLock, which serves its waiters in the order they  *)
(* came: a reader that finds a writer waiting waits behind it.  Writers    *)
(* hold the lock for an insertion and the scan for a copy, one step each;  *)
(* a sign request holds it for reading while it asks the storage service   *)
(* for the outputs of one address after another.                           *)
(***************************************************************************)
EXTENDS SequencesExt

CONSTANTS
  Watchable,  \* addresses that may be watched
  Signers,    \* sign requests handled at the same time
  Scanner     \* the indexer

ASSUME WatchSetAssumption ==
  Watchable \cap Signers = {} /\ Scanner \notin Watchable \cup Signers

VARIABLES
  watched,  \* watched_addresses
  holders,  \* sign requests that hold the lock
  waiting   \* waiters: an address for the request that adds it

lockVars == <<watched, holders, waiting>>

Waits(t) == Contains(waiting, t)

WatchSetTypeOK ==
  /\ watched \subseteq Watchable
  /\ holders \subseteq Signers
  /\ ToSet(waiting) \subseteq Watchable \cup Signers \cup {Scanner}
  /\ IsInjective(waiting)
  /\ \A s \in holders : ~Waits(s)

WatchSetInit == watched = {} /\ holders = {} /\ waiting = <<>>

(* The lock is asked for                                                   *)
Arrives(t) ==
  /\ ~Waits(t)
  /\ waiting' = Append(waiting, t)

(* A mutation: readers do not wait for writers                             *)
IsNextUnfair(t) ==
  /\ Waits(t)
  /\ t \in Watchable => holders = {} /\ Head(waiting) = t

(* It is granted: readers share it                                         *)
IsNext(t) ==
  /\ waiting # <<>> /\ Head(waiting) = t
  /\ t \in Watchable => holders = {}

Leaves(t) == waiting' = RemoveFirst(waiting, t)

(* watch_address_handler, and derive_address_handler once the enclave has  *)
(* answered.  To watch an address again changes nothing.                   *)
AskToWatch(a) ==
  /\ a \in Watchable \ watched
  /\ Arrives(a)
  /\ UNCHANGED <<watched, holders>>

Watch(a) ==
  /\ a \in Watchable /\ IsNext(a)
  /\ watched' = watched \cup {a}
  /\ Leaves(a)
  /\ UNCHANGED holders

(* fetch_selected_utxos                                                    *)
AskToSign(s) ==
  /\ s \in Signers \ holders
  /\ Arrives(s)
  /\ UNCHANGED <<watched, holders>>

BeginSelecting(s) ==
  /\ s \in Signers /\ IsNext(s)
  /\ holders' = holders \cup {s}
  /\ Leaves(s)
  /\ UNCHANGED watched

(* A mutation: the set is read, and locked, again for the next address     *)
EndSelectingReadingAgain(s) ==
  /\ s \in holders
  /\ ToSet(waiting) \cap Watchable = {}
  /\ holders' = holders \ {s}
  /\ UNCHANGED <<watched, waiting>>

(* The storage service has answered for as many addresses as were asked    *)
EndSelecting(s) ==
  /\ s \in holders
  /\ holders' = holders \ {s}
  /\ UNCHANGED <<watched, waiting>>

(* The scan takes its copy                                                 *)
ScannerReads ==
  /\ IsNext(Scanner)
  /\ Leaves(Scanner)
  /\ UNCHANGED <<watched, holders>>
=============================================================================
