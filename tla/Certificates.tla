---------------------------- MODULE Certificates ----------------------------
(***************************************************************************)
(* The uploaded certificate of one host: a row with the encrypted key, the *)
(* host's tls_mode, two files Caddy reads when it loads a configuration.   *)
(* Upload, delete and the host's own handlers change them one statement or *)
(* one rename at a time; the panel may stop between any two, and puts back *)
(* missing files when it boots.  A certificate is the number of its        *)
(* upload.                                                                 *)
(***************************************************************************)
EXTENDS Naturals

CONSTANTS
    Requests,     \* concurrent requests about the host
    None,
    Overlap,      \* whether they overlap
    Faults,       \* "crash", "wipe", "decrypt", "db", "write", "remove", "load"
    MaxStarts, MaxFaults   \* bounds

VARIABLES
    host,       \* the hosts row: tls_mode and its other columns; None when deleted
    row,        \* host_manual_certs: the certificate, None without a row
    crt, key,   \* the two files: the upload each is from, None when missing
    served,     \* what Caddy serves the host with since it last took a configuration
    boot,       \* where the panel's start is; "up" when it serves requests
    request,    \* where each request is
    disturbed,  \* history: a fault since an upload or a removal last did all of its work
    starts, faults

vars == <<host, row, crt, key, served, boot, request, disturbed, starts, faults>>

Modes == {"auto", "none", "manual"}
Idle  == [pc |-> "idle", kind |-> None, up |-> 0, host |-> None]

Serving(mode, c) == [mode |-> mode, crt |-> c]

Init ==
    /\ host = [mode |-> "auto", edit |-> 0] /\ row = None
    /\ crt = None /\ key = None /\ served = Serving("auto", None)
    /\ boot = "up" /\ request = [p \in Requests |-> Idle]
    /\ disturbed = FALSE /\ starts = 0 /\ faults = 0

At(p, pc)   == request[p].pc = pc
Goto(p, pc) == request' = [request EXCEPT ![p].pc = pc]
End(p)      == request' = [request EXCEPT ![p] = Idle]
Quiet       == \A p \in Requests : At(p, "idle")

Fault(f) == f \in Faults /\ faults < MaxFaults /\ faults' = faults + 1 /\ disturbed' = TRUE
NoFault  == UNCHANGED <<faults, disturbed>>

Begin(p, kind, pc, mode) ==
    /\ boot = "up" /\ At(p, "idle") /\ (Overlap \/ Quiet)
    /\ host # None /\ starts < MaxStarts /\ starts' = starts + 1
    /\ request' = [request EXCEPT ![p] = [pc |-> pc, kind |-> kind, up |-> starts + 1,
                                          host |-> [host EXCEPT !.mode = mode]]]
    /\ UNCHANGED <<host, row, crt, key, served, boot>> /\ NoFault
----------------------------------------------------------------------------
(* UploadManualCert, once the pair is found good for the host. *)

Upload(p) == Begin(p, "upload", "apply", "manual")

\* One transaction: the row and the mode, or neither, which ends the request.
ApplyManualCertUpload(p) ==
    /\ At(p, "apply")
    /\ \/ /\ host # None /\ Goto(p, "crt")
          /\ row' = request[p].up /\ host' = [host EXCEPT !.mode = "manual"]
       \/ End(p) /\ UNCHANGED <<host, row>>
    /\ UNCHANGED <<crt, key, served, boot, starts>> /\ NoFault

\* Store.Write: each file is replaced by a rename; an error ends the request.
WriteCert(p) ==
    /\ At(p, "crt")
    /\ \/ crt' = request[p].up /\ Goto(p, "key") /\ NoFault
       \/ UNCHANGED crt /\ End(p) /\ Fault("write")
    /\ UNCHANGED <<host, row, key, served, boot, starts>>

WriteKey(p) ==
    /\ At(p, "key")
    /\ \/ key' = request[p].up /\ Goto(p, "reconcile") /\ NoFault
       \/ UNCHANGED key /\ End(p) /\ Fault("write")
    /\ UNCHANGED <<host, row, crt, served, boot, starts>>
----------------------------------------------------------------------------
(* DeleteManualCert, and UpdateHost when it takes a host out of manual. *)

Delete(p, revert) == revert # "manual" /\ Begin(p, "delete", "row", revert)

\* The mode may not become manual here.
Update(p, mode) ==
    /\ host # None /\ (mode = "manual" => host.mode = "manual")
    /\ Begin(p, IF host.mode = "manual" /\ mode # "manual" THEN "cascade" ELSE "edit",
             "host", mode)

\* The whole row, as the request read it and with its own changes.
UpdateHost(p) ==
    /\ At(p, "host")
    /\ IF host = None THEN End(p) /\ UNCHANGED host
       ELSE /\ host' = [request[p].host EXCEPT !.edit =
                           IF request[p].kind = "delete" THEN @ ELSE request[p].up]
            /\ Goto(p, IF request[p].kind = "cascade" THEN "row" ELSE "reconcile")
    /\ UNCHANGED <<row, crt, key, served, boot, starts>> /\ NoFault

\* The statement fails: a delete has removed the row and the files by then.
UpdateHostFails(p) ==
    /\ At(p, "host") /\ End(p) /\ Fault("db")
    /\ UNCHANGED <<host, row, crt, key, served, boot, starts>>

\* Without a row the delete is refused, a cascade goes on.
DeleteRow(p) ==
    /\ At(p, "row")
    /\ IF row = None /\ request[p].kind = "delete" THEN End(p) ELSE Goto(p, "rm_crt")
    /\ row' = None
    /\ UNCHANGED <<host, crt, key, served, boot, starts>> /\ NoFault

\* The statement fails: a delete ends there, a cascade goes on and leaves the row.
DeleteRowFails(p) ==
    /\ At(p, "row") /\ Fault("db")
    /\ IF request[p].kind = "delete" THEN End(p)
       ELSE request' = [request EXCEPT ![p].pc = "rm_crt", ![p].kind = "left"]
    /\ UNCHANGED <<host, row, crt, key, served, boot, starts>>

Removed(p) == Goto(p, IF request[p].kind = "delete" THEN "host" ELSE "reconcile")

\* Store.Remove gives up at its first error, and the request goes on.
RemoveCert(p) ==
    /\ At(p, "rm_crt")
    /\ \/ crt' = None /\ Goto(p, "rm_key") /\ NoFault
       \/ UNCHANGED crt /\ Removed(p) /\ Fault("remove")
    /\ UNCHANGED <<host, row, key, served, boot, starts>>

RemoveKey(p) ==
    /\ At(p, "rm_key")
    /\ \/ key' = None /\ Removed(p) /\ NoFault
       \/ UNCHANGED key /\ Removed(p) /\ Fault("remove")
    /\ UNCHANGED <<host, row, crt, served, boot, starts>>

\* The files stay.
DeleteHost(p) == Begin(p, "remove", "gone", "none")

DeleteHostRow(p) ==
    /\ At(p, "gone")
    /\ \/ host # None /\ Goto(p, "reconcile") /\ host' = None /\ row' = None
       \/ End(p) /\ UNCHANGED <<host, row>>
    /\ UNCHANGED <<crt, key, served, boot, starts>> /\ NoFault
----------------------------------------------------------------------------
(* The configuration Caddy is given, and the panel's start. *)

\* Caddy refuses a configuration whose pair is missing or does not match.
Load ==
    served' = IF host = None THEN None
              ELSE IF host.mode # "manual" THEN Serving(host.mode, None)
              ELSE IF crt # None /\ crt = key THEN Serving("manual", crt) ELSE served

\* The last step of a request.  An upload, a delete or a cascade that did all of its
\* work has set row, mode, files and configuration anew.
Reconcile(p) ==
    /\ At(p, "reconcile") /\ Load /\ End(p)
    /\ disturbed' = (disturbed /\ request[p].kind \notin {"upload", "cascade", "delete"})
    /\ UNCHANGED <<host, row, crt, key, boot, starts, faults>>

\* ApplyFromDB fails and is logged, or an upload cannot read its host back and ends
\* before it: Caddy keeps what it serves.
ReconcileFails(p) ==
    /\ At(p, "reconcile") /\ End(p) /\ Fault("load")
    /\ UNCHANGED <<host, row, crt, key, served, boot, starts>>

\* The panel stops; the volume of the files may be a new one.
Stop ==
    /\ boot' = "scan" /\ request' = [p \in Requests |-> Idle]
    /\ \/ Fault("crash") /\ UNCHANGED <<crt, key>>
       \/ Fault("wipe") /\ crt' = None /\ key' = None
    /\ UNCHANGED <<host, row, served, starts>>

\* The rows cannot be listed, or the key cannot be decrypted: logged.
Unrestorable ==
    /\ boot' = "apply_without"
    /\ \/ Fault("db")
       \/ row # None /\ (crt = None \/ key = None) /\ Fault("decrypt")

\* Mutant: one file is enough.
ScanEither ==
    /\ boot = "scan"
    /\ \/ boot' = (IF row = None \/ crt # None \/ key # None THEN "apply" ELSE "crt")
          /\ NoFault
       \/ Unrestorable
    /\ UNCHANGED <<host, row, crt, key, served, request, starts>>

\* ReconcileManualCerts leaves a pair that is there as it is.
Scan ==
    /\ boot = "scan"
    /\ \/ boot' = (IF row = None \/ (crt # None /\ key # None) THEN "apply" ELSE "crt")
          /\ NoFault
       \/ Unrestorable
    /\ UNCHANGED <<host, row, crt, key, served, request, starts>>

\* A write that fails is logged, and the start goes on with what is there.
RestoreCert ==
    /\ boot = "crt"
    /\ \/ crt' = row /\ boot' = "key" /\ NoFault
       \/ UNCHANGED crt /\ boot' = "apply_without" /\ Fault("write")
    /\ UNCHANGED <<host, row, key, served, request, starts>>

RestoreKey ==
    /\ boot = "key"
    /\ \/ key' = row /\ boot' = "apply" /\ NoFault
       \/ UNCHANGED key /\ boot' = "apply_without" /\ Fault("write")
    /\ UNCHANGED <<host, row, crt, served, request, starts>>

\* The panel serves requests also when no attempt succeeds.
Apply ==
    /\ boot \in {"apply", "apply_without"} /\ boot' = "up"
    /\ \/ Load /\ NoFault
       \/ UNCHANGED served /\ Fault("load")
    /\ UNCHANGED <<host, row, crt, key, request, starts>>

Step(p) ==
    \/ ApplyManualCertUpload(p) \/ WriteCert(p) \/ WriteKey(p)
    \/ UpdateHost(p) \/ UpdateHostFails(p) \/ DeleteRow(p) \/ DeleteRowFails(p)
    \/ RemoveCert(p) \/ RemoveKey(p) \/ DeleteHostRow(p) \/ Reconcile(p) \/ ReconcileFails(p)

Next ==
    \/ \E p \in Requests :
          Upload(p) \/ DeleteHost(p) \/ Step(p) \/ \E m \in Modes : Delete(p, m) \/ Update(p, m)
    \/ Stop \/ Scan \/ RestoreCert \/ RestoreKey \/ Apply

Spec == Init /\ [][Next]_vars
----------------------------------------------------------------------------
(* Properties *)

\* Types; while the panel starts there is no request.
TypeOK ==
    /\ host = None \/ host \in [mode: Modes, edit: 0 .. MaxStarts]
    /\ {row, crt, key} \subseteq (1 .. MaxStarts) \cup {None}
    /\ served = None \/ served \in [mode: Modes, crt: (1 .. MaxStarts) \cup {None}]
    /\ boot \in {"scan", "crt", "key", "apply", "apply_without", "up"} /\ (boot # "up" => Quiet)

\* Between requests, row, mode, files and what Caddy serves agree; after a crash, a
\* lost volume, or a statement, a write or a load that failed (the code logs most of
\* them and answers 200), the next upload or removal that does all of its work makes
\* them agree again, whatever it finds (UploadManualCert's transaction and order,
\* UpdateHost's cascade).
AtRest ==
    Quiet /\ boot = "up" /\ ~disturbed /\ host # None =>
        /\ host.mode = "manual" <=> row # None
        /\ row # None => crt = row /\ key = row
        /\ served = Serving(host.mode, row)

\* A start that finds a file missing has put back both from the row before Caddy is
\* given a configuration that names them, unless it logged that it could not list the
\* rows, decrypt the key or write a file (ReconcileManualCerts, called before the first
\* reconcile): one file is not taken for a pair.
BootRestores == boot = "apply" /\ row # None => crt # None /\ key # None
=============================================================================
