------------------------------ MODULE Posture --------------------------------
(***************************************************************************)
(* Which deployments start, and whom a started one lets through.           *)
(*                                                                         *)
(* config.py resolves the profile and refuses unusable settings, the       *)
(* container's command runs managed_preflight before the API module, and   *)
(* api/app.py and api/security.py choose, once and from the same two       *)
(* facts (was a profile chosen? does the bound identity adapter verify?),  *)
(* the exposure guard, the service check and the relaxations.              *)
(*                                                                         *)
(* A deployment is a record of the values an operator may leave unset,     *)
(* empty, right or wrong; a request, of what a peer may present.           *)
(***************************************************************************)
EXTENDS FiniteSets

Laptop == {"local", "live"}
Managed == {"gcp", "platform"}
Profiles == Laptop \cup Managed \cup {"onprem"}

(***************************************************************************)
(* Slips: one mistake each.                                                *)
(***************************************************************************)
VerifiedByCredential(d) == d.token
ByNameAlone(d) ==
    LET named == IF d.env = "unset" THEN d.written ELSE d.env
    IN  IF named \in {"none"} \cup Laptop THEN "local" ELSE named
DomainBeforeMapping(claims, mapping) ==
    IF claims.hd # "" THEN claims.hd
    ELSE IF claims.email.name \in DOMAIN mapping THEN mapping[claims.email.name]
    ELSE claims.email.domain
-----------------------------------------------------------------------------
(***************************************************************************)
(* Settings.                                                               *)
(***************************************************************************)
\* resolve_profile: the environment, else what settings.yaml spells out.
Choice(d) ==
    LET named == IF d.env = "unset" THEN d.written ELSE d.env
    IN  [profile |-> IF named = "none" THEN "local" ELSE named, explicit |-> named # "none"]

ProfileUsable(d) == d.env # "empty" /\ Choice(d).profile \in Profiles

\* boolean_setting: a set value is true or false, or refused.
Usable(switch) == switch \in {"unset", "on", "off"}
IsOn(switch) == switch # "off"

\* _strict_bool, _validate_residency.
GroundingUsable(d) == d.grounding \in {"unset", "true", "false"}
RegionAllowed(d) == d.regionAllowed

\* A Model Armor guardrail that is on needs its template; the platform binds a
\* remote one.
ControlsConfigured(d) == Choice(d).profile = "gcp" /\ IsOn(d.guardrail) => d.template

\* Settings.load
Loads(d) ==
    /\ ProfileUsable(d)
    /\ Usable(d.guardrail) /\ Usable(d.redaction)
    /\ GroundingUsable(d) /\ RegionAllowed(d) /\ ControlsConfigured(d)

\* Port -> adapter: a switched-off control is bound to its disabled stand-in.
BoundGuardrail(d) == IF IsOn(d.guardrail) THEN "screens" ELSE "allowsAll"

(***************************************************************************)
(* The identity adapter the active binding names.                          *)
(***************************************************************************)
Adapter(d) ==
    CASE d.identity # "shipped" -> d.identity       \* the adopter's own, or none
      [] d.identity = "shipped" /\ Choice(d).profile \in Managed -> "iap"
      [] d.identity = "shipped" /\ Choice(d).profile \in Laptop -> "persona"
      [] OTHER -> "placeholder"

\* What it declares; silence and a failed lookup are "client-asserted".
EndUserAuth(d) ==
    IF Adapter(d) \in {"iap", "verifier"} THEN "verified"
    ELSE IF Adapter(d) = "placeholder" THEN "unimplemented" ELSE "client-asserted"

EndUserAuthenticated(d) == Choice(d).explicit /\ EndUserAuth(d) = "verified"

(***************************************************************************)
(* The two views of the profile, and what reads them.                      *)
(***************************************************************************)
Exposure(d) ==
    IF ~Choice(d).explicit THEN "unconfigured"
    ELSE IF Choice(d).profile \in Laptop THEN "local" ELSE Choice(d).profile

Bind(d) ==
    IF ~Choice(d).explicit \/ Choice(d).profile \in Laptop \/ ~EndUserAuthenticated(d)
    THEN "local" ELSE Choice(d).profile

\* No wildcard in either allowlist; an emptied frame-ancestors refuses too.
OriginsUsable(d) == d.frame \in {"unset", "named"} /\ d.cors \in {"unset", "empty", "named"}

DevOrigins(d) == Exposure(d) = "local" /\ d.cors = "unset"
PersonaHeaderOffered(d) == Exposure(d) = "local"
WriteSurface(d) == Exposure(d) = "local"

\* The container's command: the preflight resolves the profile from the
\* environment alone, then the API module is imported.
PreflightProfile(d) == IF d.env = "unset" THEN "local" ELSE d.env
Preflight(d) == Loads(d) /\ (PreflightProfile(d) \in Managed => d.database)
Starts(d) == Preflight(d) /\ OriginsUsable(d)

\* The refresh job's own check names every resource, with the loaded profile.
PipelineReady(d) == Choice(d).profile \in Managed => d.database /\ d.template

(***************************************************************************)
(* A request.                                                              *)
(***************************************************************************)
GuardPasses(d, q) == q.loopback \/ EndUserAuthenticated(d) \/ d.demo

\* An IAP browser session has no bearer; a bearer that is there is verified.
ServiceCaller(d, q) ==
    \/ Choice(d).profile = "gcp" /\ q.bearer = "none" /\ q.assertion # "none"
    \/ /\ Choice(d).explicit
       /\ \/ Exposure(d) = "local" /\ ~d.token
          \/ q.bearer = "good" /\ (Exposure(d) \in Managed \/ d.token)

\* IapIdentityAdapter.resolve, LocalPersonaIdentityAdapter.
IapVerifies(d, q) == d.audience = "named" /\ q.assertion = "signed"
PersonaResolves(d, q) == Choice(d).explicit /\ q.persona # "unknown"

\* Who resolve() says the caller is.
Principal(d, q) ==
    CASE Adapter(d) = "iap" /\ IapVerifies(d, q) -> "verified"
      [] Adapter(d) = "verifier" /\ q.assertion = "signed" -> "verified"
      [] Adapter(d) = "undeclared" -> "asserted"
      [] Adapter(d) = "persona" /\ PersonaResolves(d, q) -> "asserted"
      [] OTHER -> "nobody"

Reaches(d, q) == GuardPasses(d, q) /\ ServiceCaller(d, q) /\ Principal(d, q) # "nobody"

\* IapIdentityAdapter.resolve: the partition of a verified assertion.
Mapped(claims, mapping) ==
    IF claims.email.name \in DOMAIN mapping THEN mapping[claims.email.name] ELSE ""

TenantOf(claims, mapping) ==
    IF claims.email.service THEN Mapped(claims, mapping)        \* "" is a refusal
    ELSE IF claims.hd # "" THEN claims.hd
    ELSE IF claims.email.domain # "" THEN claims.email.domain
    ELSE claims.sub
-----------------------------------------------------------------------------
(***************************************************************************)
(* What a peer may present, and what an operator may configure.            *)
(***************************************************************************)
Peers ==
    [loopback : BOOLEAN, bearer : {"none", "good", "bad"},
     assertion : {"none", "signed", "forged"}, persona : {"none", "known", "unknown"}]

\* The bank's own partition, a service's mapping, and a hosted domain of a
\* service's project.
Emails ==
    {[name |-> "ana", service |-> FALSE, domain |-> "bank.example"],
     [name |-> "bob", service |-> FALSE, domain |-> ""],
     [name |-> "job", service |-> TRUE, domain |-> "p.iam.gserviceaccount.com"],
     [name |-> "new", service |-> TRUE, domain |-> "p.iam.gserviceaccount.com"]}
Claims == [sub : {"s1"}, hd : {"", "bank.example"}, email : Emails]
ReviewedServices == [j \in {"job"} |-> "batch"]

(***************************************************************************)
(* Properties, of every deployment d.                                      *)
(***************************************************************************)
\* A deployment that starts lets a peer from elsewhere reach a governed route
\* only with an assertion the bound adapter verified, unless an operator chose
\* the insecure demo, and never when nobody chose a profile.
\* (add_loopback_exposure_guard, require_service_caller, get_principal)
RemoteCallersAreVerified(d) ==
    Starts(d) => \A q \in Peers :
        Reaches(d, q) /\ ~q.loopback =>
            /\ Choice(d).explicit
            /\ Principal(d, q) = "verified" \/ d.demo

\* Whatever is relaxed for a laptop is relaxed only for a chosen laptop
\* profile, and such a deployment binds loopback and serves personas: no
\* deployment is open by one view of the profile and fronted by the other.  A
\* guardrail that screens under gcp can, where the refresh job would run the
\* container starts, and a managed one starts without its database only if the
\* profile stands in settings.yaml alone.  (ProfileChoice.exposure_profile,
\* bind_profile, _refuse_unconfigured_controls, assert_managed_pipeline_ready,
\* managed_preflight.main)
ViewsAgree(d) ==
    /\ Loads(d) /\ PipelineReady(d) => Preflight(d)
    /\ Starts(d) =>
        /\ Choice(d).profile = "gcp" /\ BoundGuardrail(d) = "screens" => d.template
        /\ Choice(d).profile \in Managed => d.database \/ d.env = "unset"
        /\ (DevOrigins(d) \/ WriteSurface(d) \/ PersonaHeaderOffered(d)) =>
              /\ Choice(d).explicit
              /\ Bind(d) = "local"
              /\ Choice(d).profile \notin Managed
        /\ Bind(d) # "local" => EndUserAuthenticated(d)

\* A service account belongs to the tenant its reviewed mapping names and is
\* refused without one, whatever its token says of a hosted domain; a person
\* always has a tenant.  (IapIdentityAdapter.resolve)
TenantIsReviewed(claims) ==
    LET t == TenantOf(claims, ReviewedServices)
    IN  IF claims.email.service
        THEN t = (IF claims.email.name = "job" THEN "batch" ELSE "")
        ELSE t # "" /\ t # "batch"
=============================================================================
