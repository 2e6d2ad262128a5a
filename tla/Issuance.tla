---------------------------- MODULE Issuance ----------------------------
(* DNS-01 credentials from the panel's form to the ACME policy: the        *)
(* dns_providers rows and their two-read PUT (internal/api/dns_providers.go, *)
(* internal/db/dns_providers.go), the boot import of the legacy token, the *)
(* check a host save makes (internal/api/hosts.go), and the provider block *)
(* the renderer emits (internal/caddycfg/caddycfg.go).                     *)
EXTENDS Integers, FiniteSets

CONSTANTS
    Callers,    \* concurrent requests
    Keys,       \* master keys the panel may be started with
    Values,     \* credential values a form may carry
    None,
    MaxChanges  \* bound on requests and restarts

VARIABLES
    rows,    \* provider -> [on, blob]; a blob is None or [key, creds]
    env,     \* whether CLOUDFLARE_API_TOKEN is set
    key,     \* the master key of the running panel
    host,    \* the host's tls_challenge and tls_dns_provider, or None
    work,    \* caller -> its request in progress, or None
    sound,   \* nothing was taken away since the host's last accepted check
    changes

vars == <<rows, env, key, host, work, sound, changes>>

Providers == {"cloudflare", "route53"}
Fields(p) == IF p = "cloudflare" THEN {"token"} ELSE {"secret", "region"}
Required(p) == Fields(p) \ {"region"}
Forms(p) == [Fields(p) -> Values \cup {"blank", "unchanged", "absent"}]

\* ValidateCredentials.
Valid(p, creds) ==
    \A f \in Required(p) : f \in DOMAIN creds /\ creds[f] # "blank"

-----------------------------------------------------------------------------
(* Rendering *)

\* LoadEnabledDNSCredentials: rows another key encrypted are left out.
Loaded ==
    {p \in {q \in Providers : rows[q].on /\ rows[q].blob # None} :
        rows[p].blob.key = key}

LegacyCFEnvSet == env /\ "cloudflare" \notin Loaded

\* The fields of the provider block; "env" is the placeholder of the token.
buildDNSProvider(p) ==
    IF p \in Loaded
    THEN {f \in DOMAIN rows[p].blob.creds : rows[p].blob.creds[f] # "blank"}
    ELSE IF p = "cloudflare" /\ LegacyCFEnvSet THEN {"env"} ELSE {}

\* validateDNSProvider, as a host save runs it.
Ready(p) ==
    \/ rows[p].on /\ rows[p].blob # None
    \/ p = "cloudflare" /\ env

-----------------------------------------------------------------------------
(* Boot *)

\* ImportLegacyCloudflareToken.
Imported(table, e, k) ==
    IF e /\ table["cloudflare"].blob = None
    THEN [table EXCEPT !["cloudflare"] =
             [on |-> TRUE, blob |-> [key |-> k, creds |-> [f \in {"token"} |-> "legacy"]]]]
    ELSE table

Fresh == [p \in Providers |-> [on |-> FALSE, blob |-> None]]

Init ==
    /\ env \in BOOLEAN /\ key \in Keys
    /\ rows = Imported(Fresh, env, key)
    /\ host = None /\ work = [c \in Callers |-> None]
    /\ sound = FALSE /\ changes = 0

Changed == changes < MaxChanges /\ changes' = changes + 1

\* A save is between its check and its row.
Saving(c) == work[c] # None /\ "save" \in DOMAIN work[c]

\* The panel is started again, perhaps with another .env; a save that was past its
\* check never comes to its row, and the host is an older one.
Restart(e, k) ==
    /\ Changed
    /\ env' = e /\ key' = k
    /\ rows' = Imported(rows, e, k)
    /\ work' = [c \in Callers |-> None]
    /\ sound' = (sound /\ (env => e) /\ key = k /\ \A c \in Callers : ~Saving(c))
    /\ UNCHANGED host

-----------------------------------------------------------------------------
(* PUT /api/dns-providers/{name} *)

\* The current row is read. sent = None leaves the credentials alone, on =
\* None the switch.
PutStarts(c, p, sent, on) ==
    /\ Changed
    /\ work[c] = None
    /\ work' = [work EXCEPT ![c] =
           [put |-> p, sent |-> sent, seen |-> rows[p],
            on |-> IF on = None THEN rows[p].on ELSE on = "on"]]
    /\ UNCHANGED <<rows, env, key, host, sound>>

\* FilterKnownFields, less the fields sent as unchanged.
Given(p, sent) == {f \in Fields(p) : sent[f] \notin {"unchanged", "absent"}}

\* What the stored credentials become: the decrypted ones, overwritten by the
\* fields sent with a value of their own.
Merged(p, sent) ==
    LET existing == IF rows[p].blob = None THEN <<>> ELSE rows[p].blob.creds
        given == Given(p, sent)
    IN  [f \in given \cup DOMAIN existing |->
            IF f \in given THEN sent[f] ELSE existing[f]]

\* Mutant: a switch-on is stored whether or not credentials are there.
StorableAnyway(w) ==
    w.sent = None \/ Valid(w.put, Merged(w.put, w.sent))

\* The checks between the second read and the UPDATE.
Storable(w) ==
    IF w.sent = None THEN w.on => w.seen.blob # None
    ELSE /\ rows[w.put].blob # None => rows[w.put].blob.key = key
         /\ Valid(w.put, Merged(w.put, w.sent))

\* The credentials are read and decrypted, and merged into a form of work[c].
PutMerges(c) ==
    /\ work[c] # None /\ "put" \in DOMAIN work[c]
    /\ LET w == work[c]
       IN  work' = [work EXCEPT ![c] =
               IF Storable(w)
               THEN [store |-> w.put, on |-> w.on,
                     creds |-> IF w.sent = None THEN None ELSE Merged(w.put, w.sent)]
               ELSE None]
    /\ UNCHANGED <<rows, env, key, host, sound, changes>>

\* UpsertDNSProviderCredentials: without credentials only the switch is set.
PutStores(c) ==
    /\ work[c] # None /\ "store" \in DOMAIN work[c]
    /\ LET w == work[c]
       IN  /\ rows' = [rows EXCEPT ![w.store] =
                  [on |-> w.on,
                   blob |-> IF w.creds = None THEN @.blob
                            ELSE [key |-> key, creds |-> w.creds]]]
           /\ sound' = (sound /\ (rows[w.store].on => w.on))
    /\ work' = [work EXCEPT ![c] = None]
    /\ UNCHANGED <<env, key, host, changes>>

-----------------------------------------------------------------------------
(* Saving a host *)

\* CreateHost or UpdateHost up to validateDNSProvider's answer; one save at a time
\* is a bound.
SaveChecks(c, p) ==
    /\ Changed
    /\ work[c] = None
    /\ \A d \in Callers : ~Saving(d)
    /\ Ready(p)
    /\ work' = [work EXCEPT ![c] = [save |-> p]]
    /\ sound' = (rows[p].blob # None /\ rows[p].on => rows[p].blob.key = key)
    /\ UNCHANGED <<rows, env, key, host>>

\* The row of the host is written.
SaveStores(c) ==
    /\ Saving(c)
    /\ host' = work[c].save
    /\ work' = [work EXCEPT ![c] = None]
    /\ UNCHANGED <<rows, env, key, sound, changes>>

Next ==
    \/ \E e \in BOOLEAN, k \in Keys : Restart(e, k)
    \/ \E c \in Callers, p \in Providers, on \in {None, "on", "off"} :
           \E sent \in Forms(p) \cup {None} : PutStarts(c, p, sent, on)
    \/ \E c \in Callers : PutMerges(c) \/ PutStores(c) \/ SaveStores(c)
    \/ \E c \in Callers, p \in Providers : SaveChecks(c, p)

Spec == Init /\ [][Next]_vars

-----------------------------------------------------------------------------
(* Properties *)

\* Every variable has its type; stored credentials hold known fields only.
TypeOK ==
    /\ DOMAIN rows = Providers
    /\ \A p \in Providers :
           /\ rows[p].on \in BOOLEAN
           /\ rows[p].blob # None =>
                  /\ rows[p].blob.key \in Keys
                  /\ DOMAIN rows[p].blob.creds \subseteq Fields(p)
    /\ env \in BOOLEAN /\ key \in Keys /\ host \in Providers \cup {None}
    /\ DOMAIN work = Callers /\ sound \in BOOLEAN /\ changes \in 0 .. MaxChanges

\* UpdateDNSProvider's last check and its comment ("creates a Caddy config that
\* mentions the provider by name but has no auth"): however requests overlap,
\* a provider that is switched on holds every credential it requires.
EnabledHasCredentials ==
    \A p \in Providers :
        rows[p].on => rows[p].blob # None /\ Valid(p, rows[p].blob.creds)

\* validateDNSProvider and buildDNSProvider agree: a host whose save was
\* accepted is rendered with credentials for its provider, as long as nobody
\* has switched the provider off, removed the token or changed the key since
\* the check.
SavedHostHasCredentials ==
    (host # None /\ sound /\ \A c \in Callers : ~Saving(c)) =>
            LET block == buildDNSProvider(host)
            IN  block = {"env"} \/ Required(host) \subseteq block
=============================================================================
