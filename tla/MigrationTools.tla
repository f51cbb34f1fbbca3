--------------------------- MODULE MigrationTools ---------------------------
(***************************************************************************)
(* A project that uses one of the two command lines, over and over, while  *)
(* its developer adds and edits migrations.                                *)
(***************************************************************************)
EXTENDS DrizzleCli, PrismaCli

vars == <<world, files, invocations, faults, command, pc, exitCode, source, target, code,
          parts, reported, text, failed, drizzleVars, prismaVars>>

\* Drizzle's chunks hold no transactions, so the linter's split rule is all one.
Init ==
  /\ \/ CliInit("drizzle", Contents) /\ release = "splits"
     \/ CliInit("prisma", {<<s>> : s \in Scripts}) /\ release \in Releases
  /\ DrizzleInit /\ PrismaInit

DrizzleStep(A) == tool = "drizzle" /\ A /\ UNCHANGED prismaVars
PrismaStep(A)  == tool = "prisma" /\ A /\ UNCHANGED drizzleVars

Next ==
  \/ DrizzleStep(DrizzleStart) \/ DrizzleStep(DrizzleProcess)
  \/ DrizzleStep(Died) \/ DrizzleStep(DrizzleDeveloper)
  \/ PrismaStep(PrismaStart) \/ PrismaStep(PrismaProcess)
  \/ PrismaStep(PrismaDied) \/ PrismaStep(PrismaDeveloper)

\* A process that was started runs on; nobody has to start one.
Spec ==
  /\ Init /\ [][Next]_vars
  /\ WF_vars(DrizzleStep(DrizzleProcess)) /\ WF_vars(PrismaStep(PrismaProcess))

\* Types of the variables.
TypeOK ==
  /\ tool \in {"drizzle", "prisma"} /\ install \in Installs /\ release \in Releases
  /\ \A f \in Files \cup {Out} : disk[f] \in Seq(Seq(Kinds)) /\ given[f] \in Seq(Seq(Kinds))
  /\ invocations \in 0..MaxInvocations /\ faults \in 0..MaxFaults
  /\ command \in {"none", "help", "usage", "generate", "transform", "lint", "migrate", "validate"}
  /\ pc \in {"idle"} \cup Running \cup Ended
  /\ exitCode \in Codes /\ code \in Codes /\ worst \in Codes /\ seen \subseteq Codes
  /\ source \in Files \cup {Out, Stdin} /\ target \in Files \cup {Out}
  /\ parts \in Seq(Seq(Kinds)) /\ todo \in Seq(Seq(Kinds)) /\ text \in Seq(Seq(Kinds))
  /\ reported \cup shown \subseteq {"ERROR", "WARNING", "FIXED", "INFO", "SKIPPED"}
  /\ torn \subseteq Files \cup {Out} /\ tainted \subseteq Files \cup {Out}
  /\ failed \in BOOLEAN /\ queue \subseteq Files
  /\ wrappedDiags \subseteq [rule : Kinds \cup {SplitRule(r) : r \in Releases}, line : Nat,
                             status : {"fixed", "fixed_with_warning", "unfixable"}]
  /\ validated \subseteq Seq(Seq(Kinds))
=============================================================================
