-------------------------------- MODULE Reveal --------------------------------
(***************************************************************************)
(* Who is shown a row (internal/mirror/reveal.go, the grants and denials   *)
(* of store.go, and the renewal in engine.go's serve): the ladder of       *)
(* public, grant, cached denial and probe, and what its answers leave      *)
(* behind.                                                                 *)
(*                                                                         *)
(* The requests are for one key.  Those with a principal have the same     *)
(* one, the others come from callers the engine cannot name.  One action   *)
(* is one store statement or one call.  Expiries are kept as time left.    *)
(* The fetch is one step here: module Freshness takes it apart.  A         *)
(* resource keyed by the caller's own credential climbs no ladder.         *)
(***************************************************************************)
EXTENDS Naturals

CONSTANTS
  Requests,     \* the requests under way
  Casts,        \* which of them may be nameless: a set of sets of requests
  GrantTtl,     \* how long a proof lasts
  DenyTtl,      \* how long a refusal is replayed
  MaxChanges,   \* bound: how often the upstream changes its mind
  StoreMayFail  \* may a statement fail?

ASSUME RevealAssumption ==
  /\ Casts \subseteq SUBSET Requests
  /\ GrantTtl \in Nat \ {0}
  /\ DenyTtl \in Nat \ {0}
  /\ MaxChanges \in Nat
  /\ StoreMayFail \in BOOLEAN

VARIABLES
  nameless, \* the requests whose principal is "", for good
  probes,   \* does the rule declare a probe? for good
  access,   \* what the upstream answers the principal: 2xx, 403 or 404
  changes,  \* how often that has changed
  public,   \* what the rule's predicate says of the stored row
  grant,    \* time left of the principal's grant, 0 for none
  deny,     \* time left of its cached denial, 0 for none
  verdict,  \* the status of that denial
  refused,  \* does the key's freshness row remember an absorbed 404?
  pc,       \* where a request stands
  said,     \* what the upstream answered its last call
  torn      \* history: a 403 was written down, its revocation was lost

proof == <<grant, deny, verdict>>
rule  == <<nameless, probes>>
world == <<rule, access, changes, public>>
vars  == <<world, proof, refused, pc, said, torn>>

Answers == {"yes", "forbidden", "missing"}
Final   == {"shown", "hidden", "error"}
Places  == {"idle", "public", "grant", "denial", "probe", "probed", "revoke",
            "allowed", "hit", "miss", "renew"} \cup Final

\* Type invariant: a proof and a refusal last no longer than their lifetimes,
\* however often they are renewed.
RevealTypeOK ==
  /\ nameless \subseteq Requests
  /\ probes \in BOOLEAN
  /\ access \in Answers
  /\ changes \in 0 .. MaxChanges
  /\ public \in BOOLEAN
  /\ grant \in 0 .. GrantTtl
  /\ deny \in 0 .. DenyTtl
  /\ verdict \in {"forbidden", "missing"}
  /\ refused \in BOOLEAN
  /\ pc \in [Requests -> Places]
  /\ said \in [Requests -> Answers \cup {"unclear"}]
  /\ torn \in BOOLEAN

Init ==
  /\ nameless \in Casts
  /\ probes \in BOOLEAN
  /\ access \in Answers
  /\ changes = 0
  /\ public \in BOOLEAN
  /\ grant = 0
  /\ deny = 0
  /\ verdict = "missing"
  /\ refused = FALSE
  /\ pc = [r \in Requests |-> "idle"]
  /\ said = [r \in Requests |-> "unclear"]
  /\ torn = FALSE

Go(r, place) == pc' = [pc EXCEPT ![r] = place]

------------------------------------------------------------------------------
(* Allow: the ladder.                                                       *)

Come(r) ==
  /\ pc[r] = "idle"
  /\ Go(r, "public")
  /\ UNCHANGED <<world, proof, refused, said, torn>>

\* The predicate on the stored row, if it can be read.  A request without a
\* principal has no proof to look up.
LookPublic(r) ==
  /\ pc[r] = "public"
  /\ \/ public /\ Go(r, "allowed")
     \/ ~public /\ Go(r, IF r \in nameless THEN "probe" ELSE "grant")
     \/ StoreMayFail /\ Go(r, "error")
  /\ UNCHANGED <<world, proof, refused, said, torn>>

MutantSlidingGrant(r) ==
  /\ pc[r] = "grant"
  /\ \/ grant > 0 /\ Go(r, "allowed") /\ grant' = GrantTtl
     \/ grant = 0 /\ Go(r, "denial") /\ UNCHANGED grant
  /\ UNCHANGED <<world, deny, verdict, refused, said, torn>>

LookGrant(r) ==
  /\ pc[r] = "grant"
  /\ \/ grant > 0 /\ Go(r, "allowed")
     \/ grant = 0 /\ Go(r, "denial")
     \/ StoreMayFail /\ Go(r, "error")
  /\ UNCHANGED <<world, proof, refused, said, torn>>

MutantSlidingDenial(r) ==
  /\ pc[r] = "denial"
  /\ \/ deny > 0 /\ Go(r, "hidden") /\ deny' = DenyTtl
     \/ deny = 0 /\ Go(r, "probe") /\ UNCHANGED deny
  /\ UNCHANGED <<world, grant, verdict, refused, said, torn>>

LookDenial(r) ==
  /\ pc[r] = "denial"
  /\ \/ deny > 0 /\ Go(r, "hidden")
     \/ deny = 0 /\ Go(r, "probe")
     \/ StoreMayFail /\ Go(r, "error")
  /\ UNCHANGED <<world, proof, refused, said, torn>>

\* What a call with a request's own credential may be told.  "unclear" is a
\* failure, a rate limit, or a status that states nothing about access.
Told(r) == IF r \in nameless THEN Answers \cup {"unclear"} ELSE {access, "unclear"}

\* The probe.  A rule without one refuses.
Probe(r) ==
  /\ pc[r] = "probe"
  /\ \/ ~probes /\ Go(r, "hidden") /\ UNCHANGED said
     \/ /\ probes
        /\ \E answer \in Told(r) : said' = [said EXCEPT ![r] = answer]
        /\ Go(r, "probed")
  /\ UNCHANGED <<world, proof, refused, torn>>

MutantLifetimesAdd ==
  /\ grant' = grant + GrantTtl
  /\ deny' = 0
  /\ torn' = FALSE
  /\ UNCHANGED verdict

MutantKeepsDenial ==
  /\ grant' = GrantTtl
  /\ torn' = FALSE
  /\ UNCHANGED <<deny, verdict>>

\* RecordGrant: the grant, and in the same transaction the denial goes.
RecordGrant ==
  /\ grant' = GrantTtl
  /\ deny' = 0
  /\ torn' = FALSE
  /\ UNCHANGED verdict

RecordDenial(status) ==
  /\ deny' = DenyTtl
  /\ verdict' = status
  /\ UNCHANGED <<grant, torn>>

\* A yes is recorded before it counts; a refusal counts whether or not it can
\* be recorded, and a 403 goes on to the revocation; nothing else is
\* remembered, and nothing at all of a caller without a name.
Heed(r) ==
  /\ pc[r] = "probed"
  /\ \/ said[r] = "unclear" /\ Go(r, "error") /\ UNCHANGED <<proof, torn>>
     \/ /\ r \in nameless
        /\ said[r] # "unclear"
        /\ Go(r, IF said[r] = "yes" THEN "allowed" ELSE "hidden")
        /\ UNCHANGED <<proof, torn>>
     \/ /\ r \notin nameless
        /\ said[r] = "yes"
        /\ \/ RecordGrant /\ Go(r, "allowed")
           \/ StoreMayFail /\ Go(r, "error") /\ UNCHANGED <<proof, torn>>
     \/ /\ r \notin nameless
        /\ said[r] \in {"forbidden", "missing"}
        /\ Go(r, IF said[r] = "forbidden" THEN "revoke" ELSE "hidden")
        /\ \/ RecordDenial(said[r])
           \/ StoreMayFail /\ UNCHANGED <<proof, torn>>
  /\ UNCHANGED <<world, refused, said>>

\* The second statement of remember.
Revoke(r) ==
  /\ pc[r] = "revoke"
  /\ Go(r, "hidden")
  /\ \/ grant' = 0 /\ torn' = FALSE
     \/ StoreMayFail /\ torn' = TRUE /\ UNCHANGED grant
  /\ UNCHANGED <<world, deny, verdict, refused, said>>

------------------------------------------------------------------------------
(* serve, past the gate.                                                    *)

\* Ensure: a hit, a failure, or a fetch with the request's own credential, of
\* which an absorbed 404 is remembered in the freshness row.
Ensure(r) ==
  /\ pc[r] = "allowed"
  /\ \/ Go(r, "hit") /\ UNCHANGED <<refused, said>>
     \/ Go(r, "error") /\ UNCHANGED <<refused, said>>
     \/ \E answer \in Told(r) \cap {"yes", "missing"} :
          /\ Go(r, "miss")
          /\ said' = [said EXCEPT ![r] = answer]
          /\ refused' = (answer = "missing")
  /\ UNCHANGED <<world, proof, torn>>

\* rememberedRefusal reads that row again; one it cannot read tells of none.
\* Only a fetch of one's own goes on to renew.
ReadRefusal(r) ==
  /\ pc[r] \in {"hit", "miss"}
  /\ \/ refused /\ Go(r, "hidden")
     \/ /\ ~refused \/ StoreMayFail
        /\ Go(r, IF pc[r] = "miss" /\ r \notin nameless THEN "renew" ELSE "shown")
  /\ UNCHANGED <<world, proof, refused, said, torn>>

\* RenewOn2xx.  A failure is logged.
Renew(r) ==
  /\ pc[r] = "renew"
  /\ Go(r, "shown")
  /\ \/ RecordGrant
     \/ StoreMayFail /\ UNCHANGED <<proof, torn>>
  /\ UNCHANGED <<world, refused, said>>

Return(r) ==
  /\ pc[r] \in Final
  /\ Go(r, "idle")
  /\ said' = [said EXCEPT ![r] = "unclear"]
  /\ UNCHANGED <<world, proof, refused, torn>>

------------------------------------------------------------------------------
(* Everybody else.                                                          *)

ChangeAccess ==
  /\ changes < MaxChanges
  /\ changes' = changes + 1
  /\ access' \in Answers \ {access}
  /\ UNCHANGED <<rule, public, proof, refused, pc, said, torn>>

\* Another principal's fetch, or a delivery, replaces what is stored.
Elsewhere ==
  /\ public' \in BOOLEAN
  /\ refused' \in BOOLEAN
  /\ UNCHANGED <<rule, access, changes, proof, pc, said, torn>>

Tick ==
  /\ grant' = IF grant > 0 THEN grant - 1 ELSE 0
  /\ deny' = IF deny > 0 THEN deny - 1 ELSE 0
  /\ UNCHANGED <<world, verdict, refused, pc, said, torn>>

\* The process ends and starts again: the tables stay.
Restart ==
  /\ pc' = [r \in Requests |-> "idle"]
  /\ said' = [r \in Requests |-> "unclear"]
  /\ torn' = (torn \/ \E r \in Requests : pc[r] = "revoke")
  /\ UNCHANGED <<world, proof, refused>>

Climb(r) ==
  \/ LookPublic(r) \/ LookGrant(r) \/ LookDenial(r)
  \/ Probe(r) \/ Heed(r) \/ Revoke(r)
  \/ Ensure(r) \/ ReadRefusal(r) \/ Renew(r)
  \/ Return(r)

Next ==
  \/ \E r \in Requests : Come(r) \/ Climb(r)
  \/ ChangeAccess
  \/ Elsewhere
  \/ Tick
  \/ Restart

Spec == Init /\ [][Next]_vars

\* The store turns a request away.
Unreadable(r) ==
  /\ pc[r] \in {"public", "grant", "denial", "probed"}
  /\ said[r] # "unclear" \/ pc[r] # "probed"
  /\ pc'[r] = "error"

\* Requests go on and the clock does; crashes and failing statements come to an
\* end.  A principal keeps asking, and not every probe of its is answered by a
\* failure.
Fairness ==
  /\ <>[][~Restart /\ ~\E r \in Requests : Unreadable(r)]_vars
  /\ WF_vars(Tick)
  /\ \A r \in Requests :
       /\ WF_vars(Come(r))
       /\ WF_vars(Climb(r))
       /\ SF_vars(Probe(r) /\ said'[r] # "unclear")

FairSpec == Spec /\ Fairness

------------------------------------------------------------------------------
(* Properties. *)

\* A proof and a 403 stand side by side only while somebody is about to revoke
\* the proof, or where a crash or a failing statement came in between: probes
\* that race record a yes with the older no gone, and a no before the older yes
\* goes.
OneAnswer ==
  grant > 0 /\ deny > 0 /\ verdict = "forbidden" =>
    torn \/ \E r \in Requests : pc[r] = "revoke"

\* Once the upstream forbids a principal for good, and the row is not public, a
\* time comes after which it is shown nothing more, however steadily it asks:
\* no grant it still has outlives its lifetime, whoever looks at it.
RevocationHolds ==
  <>[](access = "forbidden" /\ ~public) =>
    <>[](\A r \in Requests \ nameless : pc[r] # "shown")

\* Once the upstream admits a principal for good, and can be asked, no refusal
\* cached before keeps it out for ever: it passes the gate again and again.
NotLockedOut ==
  <>[](access = "yes" /\ probes) => []<>
    (\E r \in Requests \ nameless : pc[r] = "allowed")
===============================================================================
