--------------------------- MODULE PlanCatalogue ---------------------------
(***************************************************************************)
(* The catalogue of the showroom: immutable configuration versions, the    *)
(* plans drawn from them, their audited revisions, publication and the     *)
(* one-way closure of both (plan_configuration.py, plan_governance.py,     *)
(* plan_publication.py, catalogue_lifecycle.py).  Every service is one     *)
(* transaction on the locked item; what interleaves is the page an owner's *)
(* session loaded earlier, whose digest the submission carries.            *)
(***************************************************************************)
EXTENDS Integers, SequencesExt, FiniteSetsExt

CONSTANTS
  Desks,             \* sessions of the owner
  Terms,             \* what an edit can change: [text, grades] records
  FirstPlans,        \* the plans of the initial states
  MaxConfigurations,
  MaxPlans,
  MaxSaves           \* saves of one plan

\* The catalogue starts empty or with plans older than configurations and revisions.
ASSUME FirstPlansAssumption ==
  \A first \in FirstPlans :
    first \in Seq([configuration : {0}, terms : Terms, active : BOOLEAN, listed : BOOLEAN, stamp : Nat,
                  published : {0}, revisions : {<<>>}, closed : {FALSE}])

VARIABLES
  gate,              \* settings.CONFIGURED_PLANS_ENABLED
  configurations,    \* SchemePlanConfiguration rows: schema, previous, closed
  plans,             \* SchemePlan rows with their offerings and revisions
  desk               \* what each session of the owner last loaded

catalogueVars == <<gate, configurations, plans, desk>>

Nothing == [kind |-> "NONE"]

CatalogueInit ==
  /\ gate \in BOOLEAN
  /\ configurations = <<>>
  /\ plans \in FirstPlans
  /\ desk = [d \in Desks |-> Nothing]

\* plan_terms: an edit, a listing and the configuration all show in it.
PlanTerms(p) ==
  [terms |-> p.terms, active |-> p.active, listed |-> p.listed, configuration |-> p.configuration]

\* updated_at is stamped by every save.
PlanEditDigest(p) ==
  [terms |-> PlanTerms(p), stamp |-> p.stamp,
   published |-> IF p.configuration = 0 THEN 0 ELSE p.published]

Schema(p) == IF p.configuration = 0 THEN 0 ELSE configurations[p.configuration].schema
Independent(p) == Schema(p) = 2

\* Under the plan's lock; the same terms again are the same revision.
EnsurePlanRevision(p) ==
  IF p.revisions # <<>> /\ Last(p.revisions) = PlanTerms(p) THEN p
  ELSE [p EXCEPT !.revisions = Append(@, PlanTerms(p))]

Saved(p) == [p EXCEPT !.stamp = @ + 1]

Save(n, p) == plans' = [plans EXCEPT ![n] = p]
------------------------------------------------------------------------------
(* Configuration versions.                                                  *)

OpenConfiguration(c) == ~configurations[c].closed
Successors(c) == {k \in DOMAIN configurations : configurations[k].previous = c}
OpenPlansOf(c) == {n \in DOMAIN plans : plans[n].configuration = c /\ ~plans[n].closed}

\* A schema is never downgraded along a family.
CreateConfigurationVersion ==
  /\ Len(configurations) < MaxConfigurations
  /\ \E schema \in {1, 2}, previous \in 0..Len(configurations) :
       /\ previous # 0 => /\ OpenConfiguration(previous) /\ Successors(previous) = {}
                          /\ schema >= configurations[previous].schema
       /\ configurations' = Append(configurations,
            [schema |-> schema, previous |-> previous, closed |-> FALSE])
  /\ UNCHANGED <<gate, plans, desk>>
------------------------------------------------------------------------------
(* Plans.                                                                   *)

NewPlan(c, terms, active) ==
  EnsurePlanRevision([configuration |-> c, terms |-> terms, active |-> active, listed |-> FALSE,
    stamp |-> 1, published |-> 0, revisions |-> <<>>, closed |-> FALSE])

\* A new plan is never listed; a configured draft is not active either.
CreatePlan ==
  /\ Len(plans) < MaxPlans
  /\ \E c \in 0..Len(configurations), terms \in Terms, active \in BOOLEAN :
       /\ c # 0 => OpenConfiguration(c) /\ ~active
       /\ plans' = Append(plans, NewPlan(c, terms, active))
  /\ UNCHANGED <<gate, configurations, desk>>

LoadPlan(d) ==
  /\ \E n \in DOMAIN plans :
       desk' = [desk EXCEPT ![d] = [kind |-> "PLAN", item |-> n, digest |-> PlanEditDigest(plans[n])]]
  /\ UNCHANGED <<gate, configurations, plans>>

\* The page of the session shows the plan as it is now.
PageIsCurrent(d) ==
  desk[d].kind = "PLAN" /\ desk[d].digest = PlanEditDigest(plans[desk[d].item])

\* A slip: a closed draft can be corrected.
EditableAnyway(p, active, listed) ==
  p.configuration # 0 => ~p.active /\ ~p.listed /\ ~active /\ ~listed

\* The legacy form sets the listing itself; a configured offer is withdrawn first.
Editable(p, active, listed) ==
  /\ ~p.closed
  /\ p.configuration # 0 => ~p.active /\ ~p.listed /\ ~active /\ ~listed

EditPlan(d) ==
  /\ PageIsCurrent(d)
  /\ LET n == desk[d].item
         p == plans[n]
     IN  \E terms \in Terms, active, listed \in BOOLEAN :
           LET observed == IF p.revisions = <<>> THEN EnsurePlanRevision(p) ELSE p
               edited == [observed EXCEPT !.terms = terms, !.active = active, !.listed = listed]
           IN  /\ Editable(p, active, listed)
               /\ PlanTerms(edited) # PlanTerms(p)
               /\ p.stamp < MaxSaves
               /\ Save(n, EnsurePlanRevision(Saved(edited)))
  /\ UNCHANGED <<gate, configurations, desk>>

PublicationEvidence(p) ==
  p.published # 0 /\ p.revisions[p.published] = PlanTerms(p) /\ p.active

RequireConfiguredOffer(p) ==
  ~p.closed /\ (p.configuration # 0 => gate /\ p.active /\ PublicationEvidence(p))

\* Withdrawal needs no gate.  A plan already in the state asked for is left alone.
SetConfiguredPlanPublication(d) ==
  /\ PageIsCurrent(d)
  /\ LET n == desk[d].item
         p == plans[n]
     IN  \E publish \in BOOLEAN :
           LET moved == EnsurePlanRevision([p EXCEPT !.active = publish, !.listed = publish])
           IN  /\ ~p.closed /\ p.configuration # 0
               /\ publish => gate
               /\ ~(p.active = publish /\ p.listed = publish)
               /\ p.stamp < MaxSaves
               /\ Save(n, Saved(IF publish THEN [moved EXCEPT !.published = Len(moved.revisions)]
                                ELSE moved))
  /\ UNCHANGED <<gate, configurations, desk>>
------------------------------------------------------------------------------
(* Closure of the catalogue.  `usage` counts what was made from a plan.     *)

PlanPreview(n, usage) ==
  [kind |-> "CLOSE_PLAN", item |-> n, digest |-> PlanEditDigest(plans[n]), usage |-> usage]

ConfigurationPreview(c) ==
  [kind |-> "CLOSE_CONFIGURATION", item |-> c, usage |-> Cardinality(OpenPlansOf(c))]

PreviewPlanClosure(d, n, usage) ==
  /\ ~plans[n].closed
  /\ desk' = [desk EXCEPT ![d] = PlanPreview(n, usage)]
  /\ UNCHANGED <<gate, configurations, plans>>

ClosePlan(d, usage) ==
  /\ desk[d].kind = "CLOSE_PLAN"
  /\ LET n == desk[d].item
         p == EnsurePlanRevision(plans[n])
     IN  /\ ~p.closed /\ desk[d] = PlanPreview(n, usage)
         /\ Save(n, [EnsurePlanRevision(Saved([p EXCEPT !.active = FALSE, !.listed = FALSE]))
                     EXCEPT !.closed = TRUE])
  /\ UNCHANGED <<gate, configurations, desk>>

PreviewConfigurationClosure(d) ==
  /\ \E c \in DOMAIN configurations :
       OpenConfiguration(c) /\ desk' = [desk EXCEPT ![d] = ConfigurationPreview(c)]
  /\ UNCHANGED <<gate, configurations, plans>>

\* A slip: the count in the preview is trusted.
ClosureAllowedOnPreview(d, c) == desk[d].usage = 0

ClosureAllowed(d, c) == desk[d] = ConfigurationPreview(c) /\ OpenPlansOf(c) = {}

CloseConfiguration(d) ==
  /\ desk[d].kind = "CLOSE_CONFIGURATION"
  /\ LET c == desk[d].item
     IN  /\ OpenConfiguration(c) /\ ClosureAllowed(d, c)
         /\ configurations' = [configurations EXCEPT ![c].closed = TRUE]
  /\ UNCHANGED <<gate, plans, desk>>

\* The release gate changes with a deployment.
ToggleGate == gate' = ~gate /\ UNCHANGED <<configurations, plans, desk>>
==============================================================================
