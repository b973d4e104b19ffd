----------------------------- MODULE GraphRules -----------------------------
(***************************************************************************)
(* What the graph compiler refuses (internal/graph/compile), as operators  *)
(* over a graph, a proposal and the documents the plan is related to.      *)
(*                                                                         *)
(* On top of the fields of GraphStates a node has                          *)
(*   lanes      the lanes of a gate that is not full                       *)
(*   command    whether the gate names a command                           *)
(*   tests      the gate's tests, a sequence of [id, file, satisfies]      *)
(*   hazards    None while untriaged, else a set of hazards                *)
(*   written    whether the contract is written (no conversion sentinel)   *)
(*   cites      citations [by, id]; by is None in a bare one               *)
(*   phase, artifacts, inputs, and claim: None or who holds it             *)
(* role is EffectiveRole, and full says that lanes is nil.                 *)
(*                                                                         *)
(* A proposal is a sequence of [id, node].  A document is [kind, related,  *)
(* of, ids]: what it relates to, the plan or reviewed document of a phase  *)
(* or review, and the identifiers it defines; a record src is the index    *)
(* that identifierSources builds from the documents for one plan.          *)
(***************************************************************************)
EXTENDS GraphContracts, SequencesExt

CONSTANTS Vocabulary,    \* the known hazards
          ReviewLanes    \* the known review lanes

-----------------------------------------------------------------------------
(***************************************************************************)
(* rules/citations.go, graphapi.go: which documents a plan can cite.       *)
(***************************************************************************)
\* The documents whose own related list counts as a's: a, and its plan or
\* the document it reviews.
CitingDocuments(docs, a) ==
  {a} \cup (IF docs[a].kind \in {"phase", "review"} /\ docs[a].of \in DOMAIN docs
            THEN {docs[a].of} ELSE {})

DirectRelatedSources(docs, a) ==
  DOMAIN docs \cap UNION {docs[d].related : d \in CitingDocuments(docs, a)}

\* Designs, plans and reviews are followed further, specs are not.
RelatedSources(docs, a) ==
  LET followed == {d \in DOMAIN docs : docs[d].kind \in {"design", "plan", "review"}}
      walked   == Least(DOMAIN docs, [S \in SUBSET DOMAIN docs |->
                    CitingDocuments(docs, a) \cup
                    (followed \cap UNION {docs[d].related : d \in S})])
  IN  {e \in DOMAIN docs : /\ docs[e].kind \in {"spec", "design"}
                           /\ \E d \in walked : e \in docs[d].related}

IdentifierSources(docs, plan, inputs) ==
  LET reached == RelatedSources(docs, plan)
      direct  == DirectRelatedSources(docs, plan) \cap reached
  IN  [defines |-> [d \in reached |-> docs[d].ids],
       direct  |-> direct,
       demands |-> UNION {{<<d, i>> : i \in {j \in docs[d].ids : j.family = "AC"}} :
                            d \in {e \in direct : docs[e].kind = "spec"}},
       inputs  |-> inputs]

Definers(src, id) == {d \in DOMAIN src.defines : id \in src.defines[d]}

\* The sources a citation may resolve to: none when no source defines it or
\* two do and nothing tells them apart.  One direct definer wins over any
\* number of others.  (Three and more direct definers: see Citations.)
ResolveItem(src, c) ==
  LET all    == Definers(src, c.id)
      direct == all \cap src.direct
  IN  IF c.by # None THEN all \cap {c.by}
      ELSE IF Cardinality(direct) = 1 THEN direct
      ELSE IF direct = {} /\ Cardinality(all) = 1 THEN all ELSE {}

Ambiguous(src, c) == c.by = None /\ Cardinality(Definers(src, c.id)) > 1 /\ ResolveItem(src, c) = {}

-----------------------------------------------------------------------------
(***************************************************************************)
(* What is wrong with one node: <<where, <<what, ...>>>>.                  *)
(***************************************************************************)
When(condition, where, what) == IF condition THEN {<<where, <<what>>>>} ELSE {}

\* model/evidence.go: what a gate of each type may carry.
ValidateEvidenceGate(n, v) ==
  LET tests == v.gate = "tests"
  IN  When(~tests /\ v.tests # <<>>, n, "tests on another gate") \cup
      When(v.gate # "command" /\ v.command, n, "command on another gate") \cup
      When(v.gate # "review" /\ ~v.full, n, "lanes on another gate")

GateFindings(n, v) ==
  ValidateEvidenceGate(n, v) \cup
  When(v.gate = "tests" /\ v.tests = <<>>, n, "declares no tests") \cup
  When(v.gate = "unspecified", n, "gate is unspecified") \cup
  When(~v.written, n, "contract is the conversion sentinel") \cup
  When(\E i, j \in DOMAIN v.tests : i # j /\ v.tests[i].id = v.tests[j].id
                                        /\ v.tests[i].file = v.tests[j].file,
       n, "declares a test twice") \cup
  (IF v.gate = "review" /\ ~v.full
   THEN {<<n, <<"unknown lane", l>>>> : l \in v.lanes \ ReviewLanes} ELSE {})

Satisfied(v) == UNION {v.tests[i].satisfies : i \in DOMAIN v.tests}

HazardFindings(n, v) ==
  IF v.hazards = None THEN {<<n, <<"hazards are untriaged">>>>}
  ELSE {<<n, <<"unknown hazard", h>>>>         : h \in v.hazards \ Vocabulary} \cup
       {<<n, <<"satisfies undeclared", h>>>>   : h \in Satisfied(v) \ v.hazards} \cup
       {<<n, <<"hazard not discharged", h>>>>  : h \in (v.hazards \cap Vocabulary) \ Satisfied(v)}

RoleFindings(g, n) ==
  LET v == g[n]
  IN  When(v.role = "review" /\ v.gate # "review", n, "review role, other gate") \cup
      When(v.role # "review" /\ v.gate = "review", n, "review gate, other role") \cup
      When(v.role = "review" /\ v.gate = "review" /\ v.deps = {}, n, "reviews nothing") \cup
      (IF v.role = "integration_acceptance" /\ v.gate # "review"
       THEN {<<n, <<"accepts raw work", d>>>> :
               d \in {e \in PresentDeps(g, n) : g[e].role = "implementation"}}
       ELSE {})

CitationFindings(n, v, src) ==
  When(v.cites = {}, n, "cites nothing") \cup
  {<<n, <<IF Ambiguous(src, c) THEN "ambiguous" ELSE "unresolved", c>>>> :
     c \in {d \in v.cites : ResolveItem(src, d) = {}}}

NodeFindings(g, n, src) ==
  GateFindings(n, g[n]) \cup HazardFindings(n, g[n]) \cup RoleFindings(g, n) \cup
  CitationFindings(n, g[n], src) \cup
  {<<n, <<"no such dep", d>>>>         : d \in g[n].deps \ DOMAIN g} \cup
  {<<n, <<"input unresolved", i>>>>    : i \in g[n].inputs \ src.inputs}

-----------------------------------------------------------------------------
(***************************************************************************)
(* What is wrong with the graph as a whole.                                *)
(***************************************************************************)
Cycles(g) ==
  {{m \in DOMAIN g : n \in DependencyClosure(g, m) /\ m \in DependencyClosure(g, n)} :
     n \in {m \in DOMAIN g : m \in DependencyClosure(g, m)}}

\* What the full review gates of S cover: themselves and their closures.
CoveredBy(g, S) ==
  UNION {{r} \cup DependencyClosure(g, r) : r \in {m \in S : g[m].gate = "review" /\ g[m].full}}

\* An acceptance node closes only over work with a full review upstream.
AcceptanceFindings(g) ==
  LET accepts      == {n \in DOMAIN g : g[n].role = "integration_acceptance"}
      uncovered(n) == DependencyClosure(g, n) \
                        (accepts \cup CoveredBy(g, DependencyClosure(g, n)))
  IN  {<<n, <<"cannot confer closure", uncovered(n)>>>> : n \in {m \in accepts : uncovered(m) # {}}}

\* Every AC of every directly related spec, per spec, is cited by a node.
UncoveredACs(g, src) ==
  {p \in src.demands : \A n \in DOMAIN g : \A c \in g[n].cites :
                         c.id = p[2] => p[1] \notin ResolveItem(src, c)}

Claimants(g, a) == {n \in DOMAIN g : g[n].claim # None /\ a \in g[n].artifacts}

GraphFindings(g, src) ==
  {<<"graph", <<"cycle", c>>>>       : c \in Cycles(g)} \cup
  {<<"graph", <<"no node for", p>>>> : p \in UncoveredACs(g, src)} \cup
  {<<"graph", <<"overlap", a, Claimants(g, a)>>>> :
     a \in {b \in UNION {g[n].artifacts : n \in DOMAIN g} : Cardinality(Claimants(g, b)) > 1}} \cup
  {<<n, <<"covered by no full review gate">>>> : n \in DOMAIN g \ CoveredBy(g, DOMAIN g)} \cup
  AcceptanceFindings(g)

-----------------------------------------------------------------------------
(***************************************************************************)
(* A proposal against a graph and its retired register.                    *)
(***************************************************************************)
Declared(p) == {p[i].id : i \in DOMAIN p}

IdFindings(g, retired, p) ==
  LET again(i) == \E j \in 1 .. i - 1 : p[j].id = p[i].id
  IN  {<<p[i].id, <<IF again(i) THEN "declared more than once"
                    ELSE IF p[i].id \in retired THEN "was retired"
                    ELSE "already exists">>>> :
         i \in {k \in DOMAIN p : again(k) \/ p[k].id \in retired \cup DOMAIN g}}

\* The graph with the proposal's nodes that are new to it, the first of a name.
Merged(g, retired, p) ==
  LET new      == Declared(p) \ (retired \cup DOMAIN g)
      first(n) == p[CHOOSE i \in DOMAIN p : p[i].id = n /\ \A j \in 1 .. i - 1 : p[j].id # n].node
  IN  [n \in DOMAIN g \cup new |-> IF n \in DOMAIN g THEN g[n] ELSE first(n)]

\* rules/retirement.go: what is wrong with the provenance of retired ids.
RetirementProblems(g, retired, records) ==
  LET valid(id, r) == r # id /\ r \in retired \cup DOMAIN g
      below        == [id \in DOMAIN records |-> records[id].replacedBy]
      chain(id)    == Least(DOMAIN records, [S \in SUBSET DOMAIN records |->
                        below[id] \cup UNION {below[i] : i \in S}])
  IN  {<<"graph", <<"not retired", id>>>> :
         id \in {i \in DOMAIN records : i \notin retired \/ i \in DOMAIN g}} \cup
      {<<"graph", <<"source unverified", id>>>> :
         id \in {i \in DOMAIN records : ~records[i].verified}} \cup
      {<<"graph", <<"invalid replacement", id>>>> :
         id \in {i \in DOMAIN records : \E r \in below[i] : ~valid(i, r)}} \cup
      When(\E id \in DOMAIN records : id \in chain(id), "graph", "replacement cycle")

Findings(g, retired, records, p, src) ==
  LET m == Merged(g, retired, p)
  IN  RetirementProblems(g, retired, records) \cup IdFindings(g, retired, p) \cup
      GraphFindings(m, src) \cup UNION {NodeFindings(m, n, src) : n \in DOMAIN m}

\* Compile's second opinion, of a graph as it stands.
Validate(g, retired, records, src) == Findings(g, retired, records, <<>>, src)

Introduced(before, after) == after \ before
=============================================================================
