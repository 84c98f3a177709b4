---------------------------- MODULE EnvTemplates ----------------------------
(***************************************************************************)
(* What env_service says of a project's keys from the templates it is      *)
(* assigned: which are missing, which nobody knows, which are sensitive.   *)
(* A catalog maps a template's key to the sequence of its vars.            *)
(***************************************************************************)
EXTENDS Naturals, Sequences

EnvVarSpec(name, required, sensitive) ==
  [name |-> name, required |-> required, sensitive |-> sensitive]

VarSpec == [name : STRING, required : BOOLEAN, sensitive : BOOLEAN]

Catalog(catalog) == catalog \in [DOMAIN catalog -> Seq(VarSpec)]

\* A key without a template has no vars.
VarsOf(catalog, key) == IF key \in DOMAIN catalog THEN catalog[key] ELSE <<>>

\* The vars of the templates by their places: the one of the template and the
\* one in it, which come in this order.
Vars(catalog, templates) ==
  LET places == UNION {{i} \X DOMAIN VarsOf(catalog, templates[i]) :
                         i \in DOMAIN templates} IN
  [p \in places |-> VarsOf(catalog, templates[p[1]])[p[2]]]

NotAfter(p, q) == p[1] < q[1] \/ (p[1] = q[1] /\ p[2] <= q[2])

\* A dict by name: where vars share a name the last one stays.
ByName(vars) ==
  [name \in {vars[p].name : p \in DOMAIN vars} |->
     vars[CHOOSE p \in DOMAIN vars :
            /\ vars[p].name = name
            /\ \A q \in DOMAIN vars : vars[q].name = name => NotAfter(q, p)]]

RequiredVarsFor(catalog, templates) ==
  LET vars == Vars(catalog, templates) IN
  ByName([p \in {q \in DOMAIN vars : vars[q].required} |-> vars[p]])

AllKnownVarsFor(catalog, templates) == ByName(Vars(catalog, templates))

\* A key that no template knows is sensitive.
IsSensitive(catalog, templates, name) ==
  LET known == AllKnownVarsFor(catalog, templates) IN
  name \in DOMAIN known => known[name].sensitive

ValidateSecrets(catalog, templates, present) ==
  [missing |-> DOMAIN RequiredVarsFor(catalog, templates) \ present,
   present |-> present,
   unrecognized |-> present \ DOMAIN AllKnownVarsFor(catalog, templates)]

ListSecretKeys(catalog, templates, present) ==
  [name \in present |-> IsSensitive(catalog, templates, name)]

(***************************************************************************)
(* The reference: the order in which templates are assigned, and their     *)
(* repetition, change no validation, and a key's mark neither if the       *)
(* templates that name it agree.  What is missing is what some template    *)
(* requires; it is known, so setting all of it settles the validation.  No *)
(* key is marked plain that no template has as plain.                      *)
(***************************************************************************)

\* Reversed and doubled: every two templates meet in the other order.
Reversed(templates) ==
  [i \in DOMAIN templates |-> templates[(Len(templates) - i) + 1]]
Otherwise(templates) == Reversed(templates) \o Reversed(templates)

MarksAgree(vars, name) ==
  \A i, j \in DOMAIN vars :
    vars[i].name = name /\ vars[j].name = name =>
      vars[i].sensitive = vars[j].sensitive

TemplatesAgree(catalog, templates, present) ==
  LET result == ValidateSecrets(catalog, templates, present)
      settled == ValidateSecrets(catalog, templates, present \cup result.missing)
      vars == Vars(catalog, templates)
      marks == ListSecretKeys(catalog, templates, present)
      others == ListSecretKeys(catalog, Otherwise(templates), present) IN
  /\ result.missing =
       {vars[i].name : i \in {j \in DOMAIN vars : vars[j].required}} \ present
  /\ result = ValidateSecrets(catalog, Otherwise(templates), present)
  /\ settled.missing = {} /\ settled.unrecognized = result.unrecognized
  /\ \A name \in present :
       /\ name \in result.unrecognized => marks[name]
       /\ MarksAgree(vars, name) => marks[name] = others[name]
       /\ ~marks[name] =>
            \E i \in DOMAIN vars : vars[i].name = name /\ ~vars[i].sensitive
=============================================================================
