---------------------------- MODULE Configuration ----------------------------
(***************************************************************************)
(* What a configuration lets come up: load_config, and the decision        *)
(* backends that the API and the worker build from it, each by its own     *)
(* code.  Pure operators on a configuration                                *)
(*   mode, transport          the fields of AppConfig                      *)
(*   openrouterKey, typesafeKey   is that API key set?                     *)
(*   fixtureModel             is a model's provider "fixture"?             *)
(*   found                    contracts_dir and profiles_path exist        *)
(*   validated                the profile file's validated_for_active      *)
(*   bound                    its profiles name contracts and models that  *)
(*                            are configured                               *)
(***************************************************************************)
EXTENDS Integers

Modes      == {"fixture", "shadow", "active"}
Transports == {"openrouter_decisions", "typesafe_direct", "local"}
Configs ==
  [mode : Modes, transport : Transports, openrouterKey : BOOLEAN, typesafeKey : BOOLEAN,
   fixtureModel : BOOLEAN, found : BOOLEAN, validated : BOOLEAN, bound : BOOLEAN]

\* Mutant: the key of TypeSafe is not asked for.
CredentialsOpenRouter(c) ==
  c.mode = "active" =>
    /\ c.transport = "openrouter_decisions" => c.openrouterKey
    /\ ~c.fixtureModel

\* validate_credentials.
Credentials(c) ==
  c.mode = "active" =>
    /\ c.transport = "openrouter_decisions" => c.openrouterKey
    /\ c.transport = "typesafe_direct"      => c.typesafeKey
    /\ ~c.fixtureModel

\* load_config does not raise: the worker comes up.
Accepted(c) == Credentials(c) /\ c.found /\ (c.mode = "active" => c.validated)

\* get_service and load_profiles do not raise either: the API comes up.
Serves(c) == Accepted(c) /\ c.bound /\ (c.mode # "fixture" => c.openrouterKey)

Backend(kind, keyed) == [kind |-> kind, keyed |-> keyed]

\* The decision backend with which get_service verifies; without a key
\* TypeSafe is called with an empty one.
Verifying(c) ==
  CASE c.mode = "fixture" -> Backend("fixture", TRUE)
    [] c.mode # "fixture" /\ c.transport = "openrouter_decisions" -> Backend("openrouter", c.openrouterKey)
    [] c.mode # "fixture" /\ c.transport # "openrouter_decisions" -> Backend("typesafe", c.typesafeKey)

\* build_judge_backend of the worker; without a backend every check that
\* needs one is an error.
Judging(c) ==
  CASE c.mode = "fixture" -> Backend("fixture", TRUE)
    [] c.mode # "fixture" /\ c.transport = "openrouter_decisions" /\ c.openrouterKey -> Backend("openrouter", TRUE)
    [] c.mode # "fixture" /\ c.transport = "typesafe_direct" /\ c.typesafeKey -> Backend("typesafe", TRUE)
    [] OTHER -> Backend("none", FALSE)
=============================================================================
