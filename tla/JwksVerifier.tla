----------------------------- MODULE JwksVerifier -----------------------------
(* The JWT verifier of a generation (adapter/jwt/verifier.go): it is started *)
(* inside the window in which the generation is prepared, keeps the issuer's *)
(* key set in a jwx cache that refreshes it in the background, and verifies  *)
(* tokens until the generation is retired.  jwx and httprc are external: a   *)
(* cache serves and refreshes its set while its lifetime lasts; after that a *)
(* lookup may still find the last set, and a refresh fails.                  *)
EXTENDS FiniteSets

CONSTANTS
    Bearers,    \* the requests that present a token
    Kids        \* the ids of the keys an issuer may publish

VARIABLES
    window,     \* the context of Prepare: "open", "ended", or "over" once what Start
                \* registered on its end has run
    startup,    \* Start: "none", "fetching" (it holds mu), "done" or "failed"
    handle,     \* Verifier.cache # nil
    ready,      \* Verifier.ready
    lifetime,   \* the context the cache was built with: "none", "live" or "over"
    published,  \* the key set the issuer serves
    known,      \* the key set in the cache
    bearer,     \* per request: the token it carries and how far Verify got
    ever        \* history: every key the issuer has published

jwksVars == <<window, startup, handle, ready, lifetime, published, known, bearer, ever>>

Tokens == [kid : Kids, genuine : BOOLEAN]
NoToken == [kid |-> CHOOSE kid \in Kids : TRUE, genuine |-> FALSE]
NoBearer == [at |-> "idle", token |-> NoToken, leads |-> FALSE]

JwksInit ==
    /\ window = "open" /\ startup = "none" /\ handle = FALSE /\ ready = FALSE /\ lifetime = "none"
    /\ published \in {{kid} : kid \in Kids} /\ known = {} /\ ever = published
    /\ bearer = [b \in Bearers |-> NoBearer]

-----------------------------------------------------------------------------
\* Faulty: a registration that fails without canceling the lifetime.
LeftBehind == "live"

(* What a failed registration leaves of the lifetime. *)
Abandoned == "over"

(* Start gives the cache a lifetime of its own, which the end of the window is *)
(* to cancel, and waits for the first fetch.                                   *)
Start ==
    /\ window = "open" /\ startup = "none"
    /\ startup' = "fetching" /\ lifetime' = "live"
    /\ UNCHANGED <<window, handle, ready, published, known, bearer, ever>>

(* Register ends: the fetch may have been in time for a window that ends. *)
Started ==
    /\ startup = "fetching"
    /\ \/ /\ startup' = "done" /\ handle' = TRUE /\ ready' = TRUE /\ known' = published
          /\ UNCHANGED lifetime
       \/ /\ startup' = "failed" /\ lifetime' = Abandoned
          /\ UNCHANGED <<handle, ready, known>>
    /\ UNCHANGED <<window, published, bearer, ever>>

(* prepare cancels its context as soon as the factory has returned, which waits *)
(* for Start, or when its time is up.                                           *)
WindowEnds ==
    /\ window = "open"
    /\ window' = "ended"
    /\ UNCHANGED <<startup, handle, ready, lifetime, published, known, bearer, ever>>

\* Faulty: what ends with the window is the first fetch only.
FetchEnds ==
    /\ window = "ended" /\ lifetime = "live"
    /\ window' = "over"
    /\ UNCHANGED <<startup, handle, ready, lifetime, published, known, bearer, ever>>

(* The AfterFunc of the window, in a goroutine of its own; a start that failed *)
(* and Stop take it back.                                                      *)
LifetimeEnds ==
    /\ window = "ended" /\ lifetime = "live"
    /\ window' = "over" /\ lifetime' = "over"
    /\ UNCHANGED <<startup, handle, ready, published, known, bearer, ever>>

(* Stop takes the fields away under mu, and cancels the lifetime after it. *)
Stop ==
    /\ handle
    /\ handle' = FALSE /\ ready' = FALSE
    /\ UNCHANGED <<window, startup, lifetime, published, known, bearer, ever>>

Shutdown ==
    /\ startup = "done" /\ ~handle /\ lifetime = "live"
    /\ lifetime' = "over"
    /\ UNCHANGED <<window, startup, handle, ready, published, known, bearer, ever>>

-----------------------------------------------------------------------------
(* The issuer replaces its keys, and the cache fetches them at its interval. *)
Rotate ==
    /\ published' \in (SUBSET Kids) \ {{}, published}
    /\ ever' = ever \cup published'
    /\ UNCHANGED <<window, startup, handle, ready, lifetime, known, bearer>>

Refreshed ==
    /\ startup = "done" /\ lifetime = "live"
    /\ known' = published
    /\ UNCHANGED <<window, startup, handle, ready, lifetime, published, bearer, ever>>

-----------------------------------------------------------------------------
Proceeds(b, stage) == bearer' = [bearer EXCEPT ![b].at = stage]
Unchanged == UNCHANGED <<window, startup, handle, ready, lifetime, published, ever>>

(* Service.Authenticate and Verify up to keySet: refused while not Ready. *)
Present(b) ==
    /\ bearer[b].at \in {"idle", "accepted", "refused"}
    /\ \E token \in Tokens :
          bearer' = [bearer EXCEPT ![b] =
              [at |-> IF ready /\ handle THEN "lookup" ELSE "refused", token |-> token, leads |-> FALSE]]
    /\ Unchanged /\ UNCHANGED known

Lookup(b) ==
    /\ bearer[b].at = "lookup"
    /\ \/ Proceeds(b, IF bearer[b].token.kid \in known THEN "parse" ELSE "refresh")
       \/ lifetime # "live" /\ Proceeds(b, "refused")
    /\ Unchanged /\ UNCHANGED known

(* refreshUnknownKey: one flight per key id, under the context of whoever leads it. *)
Flight(kid) == {b \in Bearers : bearer[b].at = "flying" /\ bearer[b].token.kid = kid}

Join(b) ==
    /\ bearer[b].at = "refresh"
    /\ bearer' = [bearer EXCEPT ![b].at = "flying", ![b].leads = (Flight(bearer[b].token.kid) = {})]
    /\ Unchanged /\ UNCHANGED known

(* The flight lands: the leader looked at the fields again, and its fetch may *)
(* fail, or end with the leader's own request; all of its joiners share that. *)
Vouched(token, keys) == token.kid \in keys

Land(b) ==
    /\ bearer[b].at = "flying" /\ bearer[b].leads
    /\ \E fetched \in BOOLEAN :
          /\ fetched => ready /\ handle /\ lifetime = "live"
          /\ known' = IF fetched THEN published ELSE known
          /\ bearer' = [o \in Bearers |->
                IF o \notin Flight(bearer[b].token.kid) THEN bearer[o]
                ELSE [bearer[o] EXCEPT !.leads = FALSE,
                      !.at = IF fetched /\ Vouched(bearer[o].token, published) THEN "parse" ELSE "refused"]]
    /\ Unchanged

(* keyMatchesAlgorithm, jwt.Parse and the claims. *)
Parse(b) ==
    /\ bearer[b].at = "parse"
    /\ Proceeds(b, IF bearer[b].token.genuine THEN "accepted" ELSE "refused")
    /\ Unchanged /\ UNCHANGED known

JwksNext ==
    \/ Start \/ Started \/ WindowEnds \/ LifetimeEnds \/ Stop \/ Shutdown \/ Rotate \/ Refreshed
    \/ \E b \in Bearers : Present(b) \/ Lookup(b) \/ Join(b) \/ Land(b) \/ Parse(b)

JwksSpec == JwksInit /\ [][JwksNext]_jwksVars

-----------------------------------------------------------------------------
JwksTypeOK ==
    /\ window \in {"open", "ended", "over"} /\ startup \in {"none", "fetching", "done", "failed"}
    /\ handle \in BOOLEAN /\ ready \in BOOLEAN
    /\ lifetime \in {"none", "live", "over"}
    /\ published \subseteq Kids /\ known \subseteq Kids /\ ever \subseteq Kids
    /\ bearer \in [Bearers ->
          [at : {"idle", "lookup", "refresh", "flying", "parse", "accepted", "refused"},
           token : Tokens, leads : BOOLEAN]]

(* No background refresh is left by a start that failed, nor by a window that  *)
(* ended before, during or after the start, once the function registered on    *)
(* its end has run; a verifier that refreshes had a first fetch that succeeded; *)
(* and whatever is accepted is genuine and under a key its issuer did publish   *)
(* (Verifier.Start, Stop and Verify).                                           *)
TokensAreVouched ==
    /\ JwksTypeOK
    /\ \A b \in Bearers : bearer[b].at = "accepted" => bearer[b].token.genuine /\ bearer[b].token.kid \in ever
    /\ lifetime = "live" => window # "over" /\ (startup = "fetching" \/ (startup = "done" /\ known # {}))

(* "Ready 表示首次 JWKS 已获取成功且当前生命周期仍在运行" (verifier.go): a     *)
(* verifier that says it is ready still refreshes its keys.                    *)
ReadyMeansRefreshing == ready => lifetime = "live"
=============================================================================
