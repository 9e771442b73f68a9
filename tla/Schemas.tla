------------------------------ MODULE Schemas -------------------------------
(***************************************************************************)
(* What the generated code of each subgraph makes of its schema, in two    *)
(* tables per type.  The fields come from the field functions: what a      *)
(* field is of, and how it answers.  The other table comes from the        *)
(* executor of the type: the fields whose null voids the whole object.     *)
(* That a required field is one that voids its object is agreed upon by    *)
(* the two, not written in one place.                                      *)
(*                                                                         *)
(* Introspection and _service, which are the library's, are left out, and  *)
(* so is what the generator makes of types no operation reaches.           *)
(***************************************************************************)

Leaf == "a leaf"
AnyEntity == "_Entity"

\* Fields of one type.  "required": null is an error; "list": of objects;
\* "resolver": a resolver is called, which may fail; "pointer": may be nil.
Fields(names, of, is) == [n \in names |-> [of |-> of, is |-> is]]

\* Both tables in one: TLC's @@, which the prover does not know.
f ++ g == [n \in DOMAIN f \cup DOMAIN g |-> IF n \in DOMAIN f THEN f[n] ELSE g[n]]

Required == {"required"}
Optional == {"pointer"}
Resolved == {"pointer", "resolver"}
Listed == {"required", "list"}
Related == {"required", "list", "resolver"}

-----------------------------------------------------------------------------
(* The adapter. *)

AdapterQuery ==
  Fields({"model"}, "Model", {"required", "resolver"})
  ++ Fields({"part"}, "Part", Resolved)
  ++ Fields({"requirement"}, "Requirement", Resolved)
  ++ Fields({"_entities"}, AnyEntity, Listed)
AdapterQueryVoids == {"model", "_entities"}

AdapterMutation ==
  Fields({"setAttribute"}, "Part", {"required", "resolver"})
  ++ Fields({"setLimit"}, "Requirement", {"required", "resolver"})
  ++ Fields({"resetModel"}, "Model", {"required", "resolver"})
AdapterMutationVoids == {"setAttribute", "setLimit", "resetModel"}

AdapterModel ==
  Fields({"version", "text"}, Leaf, Required)
  ++ Fields({"roots", "parts"}, "Part", Listed)
  ++ Fields({"requirements"}, "Requirement", Listed)
  ++ Fields({"verificationCases"}, "VerificationCase", Listed)
AdapterModelVoids ==
  {"version", "text", "roots", "parts", "requirements", "verificationCases"}

AdapterPartTexts ==
  Fields({"id", "name"}, Leaf, Required)
  ++ Fields({"shortName", "definition", "doc"}, Leaf, Resolved)
AdapterPartRelations ==
  Fields({"attributes"}, "Attribute", Listed)
  ++ Fields({"ports"}, "Port", Listed)
  ++ Fields({"parts"}, "Part", Listed)
  ++ Fields({"connections"}, "Connection", Listed)
  ++ Fields({"satisfies"}, "Requirement", Related)
AdapterPart == AdapterPartTexts ++ AdapterPartRelations
AdapterPartVoids ==
  {"id", "name", "attributes", "ports", "parts", "connections", "satisfies"}

AdapterAttribute ==
  Fields({"name", "editable"}, Leaf, Required)
  ++ Fields({"value"}, Leaf, Optional)
  ++ Fields({"unit", "expression"}, Leaf, Resolved)
AdapterAttributeVoids == {"name", "editable"}

AdapterPort ==
  Fields({"name"}, Leaf, Required)
  ++ Fields({"direction"}, Leaf, {"required", "resolver"})
AdapterPortVoids == {"name", "direction"}

AdapterConnection == Fields({"id", "from", "fromPort", "to", "toPort"}, Leaf, Required)
AdapterConnectionVoids == {"id", "from", "fromPort", "to", "toPort"}

AdapterRequirementTexts ==
  Fields({"id", "name", "limitEditable"}, Leaf, Required)
  ++ Fields({"quantity", "limit"}, Leaf, {})
  ++ Fields({"shortName", "text", "comparison", "limitUnit"}, Leaf, Resolved)
  ++ Fields({"subject"}, "Part", Resolved)
AdapterRequirementRelations ==
  Fields({"derivedFrom", "derives"}, "Requirement", Related)
  ++ Fields({"satisfiedBy"}, "Part", Related)
  ++ Fields({"verifiedBy"}, "VerificationCase", Related)
AdapterRequirement == AdapterRequirementTexts ++ AdapterRequirementRelations

\* Seeded fault: two relations are left null when they cannot be answered.
AdapterRelationsVoidPlain == {"derivedFrom", "derives"}

AdapterRelationsVoid == {"derivedFrom", "derives", "satisfiedBy", "verifiedBy"}
AdapterRequirementVoids == {"id", "name", "limitEditable"} \cup AdapterRelationsVoid

AdapterVerificationCase ==
  Fields({"id", "name"}, Leaf, Required)
  ++ Fields({"shortName"}, Leaf, Resolved)
  ++ Fields({"verifies"}, "Requirement", Related)
AdapterVerificationCaseVoids == {"id", "name", "verifies"}

\* Lists that are null once an element is.
AdapterLists == {"Attribute", "Connection", "Part", "Port", "Requirement", "VerificationCase"}
AdapterEntities == {"Part", "Requirement", "VerificationCase"}

-----------------------------------------------------------------------------
(* The capacity service. *)

CapacityQuery == Fields({"_entities"}, AnyEntity, Listed)
CapacityQueryVoids == {"_entities"}

CapacityPart ==
  Fields({"id", "name"}, Leaf, Required)
  ++ Fields({"attributes"}, "Attribute", Listed)
  ++ Fields({"parts"}, "Part", Listed)
  ++ Fields({"connections"}, "Connection", Listed)
  ++ Fields({"capacity"}, Leaf, Resolved)
  ++ Fields({"bottleneck"}, "Part", Related)
CapacityPartVoids == {"id", "name", "attributes", "parts", "connections", "bottleneck"}

CapacityAttribute ==
  Fields({"name"}, Leaf, Required) ++ Fields({"value"}, Leaf, Optional)
CapacityAttributeVoids == {"name"}

CapacityConnection == Fields({"from", "to"}, Leaf, Required)
CapacityConnectionVoids == {"from", "to"}

CapacityRequirement ==
  Fields({"id"}, Leaf, Required)
  ++ Fields({"quantity", "comparison", "limit"}, Leaf, Optional)
  ++ Fields({"subject"}, "Part", Optional)
  ++ Fields({"verifiedBy"}, "VerificationCase", Listed)
  ++ Fields({"verdict", "verdictReason"}, Leaf, {"required", "resolver"})
CapacityRequirementVoids == {"id", "verifiedBy", "verdict", "verdictReason"}

CapacityVerificationCase ==
  Fields({"id"}, Leaf, Required) ++ Fields({"shortName"}, Leaf, Optional)
CapacityVerificationCaseVoids == {"id"}

CapacityLists == {"Attribute", "Connection", "Part", "VerificationCase"}
CapacityEntities == {"Part", "Requirement"}

-----------------------------------------------------------------------------
(* The document service. *)

DocumentQuery ==
  Fields({"document"}, "Document", {"required", "resolver"})
  ++ Fields({"_entities"}, AnyEntity, Listed)
DocumentQueryVoids == {"document", "_entities"}

TreeMutations == {"moveNode", "insertHeading", "addProse", "editText"}
ListMutations == {"excludeRequirement", "includeRequirement", "resetDocument"}
DocumentMutation ==
  Fields(TreeMutations \cup ListMutations, "Document", {"required", "resolver"})
DocumentMutationVoids ==
  {"moveNode", "insertHeading", "addProse", "editText", "excludeRequirement",
   "includeRequirement", "resetDocument"}

DocumentDocument ==
  Fields({"version"}, Leaf, Required) ++ Fields({"nodes"}, "Node", Listed)
DocumentDocumentVoids == {"version", "nodes"}

DocumentNode ==
  Fields({"id", "kind"}, Leaf, Required)
  ++ Fields({"number", "text"}, Leaf, Optional)
  ++ Fields({"requirement"}, "Requirement", Optional)
  ++ Fields({"children"}, "Node", Listed)
DocumentNodeVoids == {"id", "kind", "children"}

DocumentRequirement ==
  Fields({"id", "included"}, Leaf, Required)
  ++ Fields({"documentNumber"}, Leaf, Optional)
DocumentRequirementVoids == {"id", "included"}

DocumentLists == {"Node"}
DocumentEntities == {"Requirement"}

-----------------------------------------------------------------------------
(* Each subgraph as a whole. *)

Adapter ==
  [fields |-> [Query |-> AdapterQuery, Mutation |-> AdapterMutation, Model |-> AdapterModel,
               Part |-> AdapterPart, Attribute |-> AdapterAttribute, Port |-> AdapterPort,
               Connection |-> AdapterConnection, Requirement |-> AdapterRequirement,
               VerificationCase |-> AdapterVerificationCase],
   voids |-> [Query |-> AdapterQueryVoids, Mutation |-> AdapterMutationVoids,
              Model |-> AdapterModelVoids, Part |-> AdapterPartVoids,
              Attribute |-> AdapterAttributeVoids, Port |-> AdapterPortVoids,
              Connection |-> AdapterConnectionVoids, Requirement |-> AdapterRequirementVoids,
              VerificationCase |-> AdapterVerificationCaseVoids],
   lists |-> AdapterLists,
   entities |-> AdapterEntities]

Capacity ==
  [fields |-> [Query |-> CapacityQuery, Part |-> CapacityPart, Attribute |-> CapacityAttribute,
               Connection |-> CapacityConnection, Requirement |-> CapacityRequirement,
               VerificationCase |-> CapacityVerificationCase],
   voids |-> [Query |-> CapacityQueryVoids, Part |-> CapacityPartVoids,
              Attribute |-> CapacityAttributeVoids, Connection |-> CapacityConnectionVoids,
              Requirement |-> CapacityRequirementVoids,
              VerificationCase |-> CapacityVerificationCaseVoids],
   lists |-> CapacityLists,
   entities |-> CapacityEntities]

Document ==
  [fields |-> [Query |-> DocumentQuery, Mutation |-> DocumentMutation,
               Document |-> DocumentDocument, Node |-> DocumentNode,
               Requirement |-> DocumentRequirement],
   voids |-> [Query |-> DocumentQueryVoids, Mutation |-> DocumentMutationVoids,
              Document |-> DocumentDocumentVoids, Node |-> DocumentNodeVoids,
              Requirement |-> DocumentRequirementVoids],
   lists |-> DocumentLists,
   entities |-> DocumentEntities]
=============================================================================
