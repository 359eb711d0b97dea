--------------------------- MODULE StartupOnboarding ---------------------------
(***************************************************************************)
(* Registering startups (apps/startup/workers: routes/admin.ts,            *)
(* lib/slug.ts; infra/startup-api): the row, the agent's mail address, the *)
(* link that routes mail to it, and the welcome mail that names it.        *)
(*                                                                         *)
(* The operator, the voice agent and the tool register_startup all POST to *)
(* one handler.  The handler looks for a free address and takes it in two  *)
(* calls to startup-api; the column startups.agent_email is UNIQUE.  A     *)
(* call may fail, be lost before or after it took effect, and the handler  *)
(* may be stopped between any two of them.                                 *)
(*                                                                         *)
(* All companies have one name, so that they compete for the addresses     *)
(* 0 .. MaxAttempts - 1: the bare name, and the name with a number.        *)
(***************************************************************************)
EXTENDS Naturals

CONSTANTS Calls,        \* POST /admin/startups/new, and the startups they make
          Emails,       \* of founders
          EmailOf,
          MaxAttempts,  \* MAX_RESERVE_ATTEMPTS
          NoAddress

ASSUME EmailOfAssumption == EmailOf \in [Calls -> Emails]
ASSUME AddressAssumption == MaxAttempts \in Nat /\ NoAddress \notin Nat

VARIABLES call,       \* how far each handler is
          candidate,  \* the address it asks for, or has chosen
          startups,   \* rows of startups, each with its founder
          address,    \* startups.agent_email
          links,      \* active startup_channel_links of type email:
                      \* <<startup, address>>
          welcomed    \* startups whose welcome mail went out

onboardVars == <<call, candidate, startups, address, links, welcomed>>

Holders(n) == {s \in startups : address[s] = n}

OnboardInit == /\ call = [c \in Calls |-> "new"]
               /\ candidate = [c \in Calls |-> 0]
               /\ startups = {}
               /\ address = [c \in Calls |-> NoAddress]
               /\ links = {}
               /\ welcomed = {}

(* An answer that is not ok, or no answer, ends the provisioning; what was asked
   for may have been done all the same. *)
Proceed(c, from, to) == /\ call[c] = from
                        /\ call' = [call EXCEPT ![c] = to]

-----------------------------------------------------------------------------
(* POST /v1/startups: the founder's mail address is looked for, and the rows are
   inserted in a transaction of their own.  A lookup that fails lets the insert
   go on. *)
LookForFounder(c) ==
    /\ \/ /\ \E s \in startups : EmailOf[s] = EmailOf[c]
          /\ Proceed(c, "new", "refused")
       \/ /\ \A s \in startups : EmailOf[s] # EmailOf[c]
          /\ Proceed(c, "new", "insert")
    /\ UNCHANGED <<candidate, startups, address, links, welcomed>>

LookupFails(c) ==
    /\ Proceed(c, "new", "insert")
    /\ UNCHANGED <<candidate, startups, address, links, welcomed>>

InsertStartup(c) ==
    /\ \/ Proceed(c, "insert", "probe")
       \/ Proceed(c, "insert", "failed")          \* the answer is lost
    /\ startups' = startups \union {c}
    /\ UNCHANGED <<candidate, address, links, welcomed>>

(* reserveUniqueSlug: GET check-slug, one address after the other. *)
CheckSlug(c) ==
    /\ IF Holders(candidate[c]) = {}
       THEN Proceed(c, "probe", "patch") /\ UNCHANGED candidate
       ELSE IF candidate[c] + 1 < MaxAttempts
            THEN /\ Proceed(c, "probe", "probe")
                 /\ candidate' = [candidate EXCEPT ![c] = @ + 1]
            ELSE Proceed(c, "probe", "failed") /\ UNCHANGED candidate
    /\ UNCHANGED <<startups, address, links, welcomed>>

(* Mutant: the column is not UNIQUE. *)
MayHoldAny(c) == TRUE

MayHold(c) == Holders(candidate[c]) \subseteq {c}

PatchAgentEmail(c) ==
    /\ MayHold(c)
    /\ \/ Proceed(c, "patch", "link")
       \/ Proceed(c, "patch", "failed")           \* the answer is lost
    /\ address' = [address EXCEPT ![c] = candidate[c]]
    /\ UNCHANGED <<candidate, startups, links, welcomed>>

InsertLink(c) ==
    /\ \/ Proceed(c, "link", "ready")
       \/ Proceed(c, "link", "failed")            \* the answer is lost
    /\ links' = links \union {<<c, candidate[c]>>}
    /\ UNCHANGED <<candidate, startups, address, welcomed>>

(* Refused (a conflict, a failure of the database) or never delivered; or the
   handler is stopped. *)
CallFails(c) ==
    /\ call[c] \in {"new", "insert", "probe", "patch", "link", "ready"}
    /\ call' = [call EXCEPT ![c] = "failed"]
    /\ UNCHANGED <<candidate, startups, address, links, welcomed>>

SendWelcomeStartupEmail(c) ==
    /\ Proceed(c, "ready", "done")
    /\ welcomed' = welcomed \union {c}
    /\ UNCHANGED <<candidate, startups, address, links>>

OnboardNext == \E c \in Calls :
    \/ LookForFounder(c) \/ LookupFails(c) \/ InsertStartup(c)
    \/ CheckSlug(c) \/ PatchAgentEmail(c) \/ InsertLink(c) \/ CallFails(c)
    \/ SendWelcomeStartupEmail(c)

OnboardSpec == OnboardInit /\ [][OnboardNext]_onboardVars

-----------------------------------------------------------------------------
OnboardTypeOK ==
    /\ call \in [Calls -> {"new", "insert", "probe", "patch", "link", "ready",
                           "done", "refused", "failed"}]
    /\ candidate \in [Calls -> Nat]
    /\ startups \subseteq Calls
    /\ address \in [Calls -> Nat \union {NoAddress}]
    /\ links \subseteq Calls \X Nat
    /\ welcomed \subseteq Calls

(* GET /v1/channels/resolve takes any active link of the address (LIMIT 1). *)
Resolves(n, s) == <<s, n>> \in links

(* The mail a founder is welcomed with names an address whose mail reaches that
   startup and no other, however the registrations raced for the address and
   whatever failed: the free address was looked up in one call and taken in
   another. *)
WelcomedMeansReachable ==
    \A s \in welcomed : /\ Resolves(candidate[s], s)
                        /\ \A other \in Calls \ {s} : ~Resolves(candidate[s], other)

=============================================================================
