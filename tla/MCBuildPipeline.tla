-------------------------- MODULE MCBuildPipeline ---------------------------
EXTENDS BuildPipeline

(* Aliases of one target, of 64 and of 32 bits; a list that grows; an arch   *)
(* that is not in the configuration.                                         *)
MCSystemArches == {{"intel64", "x86_64"}, {"armel", "x86_64"}, {"mipseb", "pdp11"}}
MCKvmTargets == {{}, {"x86_64"}}
=============================================================================
