---------------------------- MODULE MCBlueprints ----------------------------
(***************************************************************************)
(* A plugin p that turns one type into another, and whose second version   *)
(* has other types on both sides; a plugin q with a standard interface,    *)
(* one that was never seeded, and a capability that declares nothing.      *)
(***************************************************************************)
EXTENDS Blueprints, TLC

CONSTANTS p, q, v1, v2, u1, u2

Schema(required, outputs) == [required |-> required, outputs |-> outputs]
Inline(schema) == [ref |-> NoRef, inline |-> schema]
Standard(ref) == [ref |-> ref, inline |-> NoSchema]

SomeManifests ==
    (p :> ((v1 :> ("make" :> Inline(Schema({}, {"audio"})) @@
                   "take" :> Inline(Schema({"text"}, {"int"})))) @@
           (v2 :> ("make" :> Inline(Schema({}, {"int"})) @@
                   "take" :> Inline(Schema({"audio"}, {"int"})))))) @@
    (q :> ((v1 :> ("take" :> Standard("asr") @@ "speak" :> Standard("unseeded"))) @@
           (v2 :> ("take" :> Inline(NoSchema)))))

OneInterface == "asr" :> Schema({"audio", "any"}, {"text"})

N(plugin, capability, next) == [plugin |-> plugin, capability |-> capability, next |-> next]

\* Two nodes of one plugin; one of each, with a built-in node; a plugin's only capability.
ThreeDrafts ==
    { <<N(p, "make", {2}), N(p, "take", {})>>,
      <<N(p, "make", {2, 3}), N(q, "take", {}), N(Builtin, "OUTPUT", {})>>,
      <<N(q, "speak", {2}), N(q, "take", {})>> }

Permute == Permutations(Worker) \cup Permutations(User)
=============================================================================
