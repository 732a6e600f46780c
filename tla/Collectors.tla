------------------------------ MODULE Collectors -------------------------------
(***************************************************************************)
(* The handlers that collect by themselves, behind the one interface of    *)
(* core/base.py: verify() accepts a config or raises, execute() turns the  *)
(* config and what is outside the program into results or raises.          *)
(*                                                                         *)
(* scrape_once() gathers them, and in execute() they share nothing but the *)
(* event loop: no variable of one is read or written by another. A         *)
(* behaviour therefore follows one of them, chosen in Init, and what it    *)
(* meets of the others is that any time may pass at an await.              *)
(***************************************************************************)
EXTENDS Integers, Sequences

CONSTANTS BuiltinConfigs, Active, Users, Numbers, MaxLines,
          AmdConfigs, NA, MaxCards,
          Paths, VpnConfigs, Statuses, VpnCommands,
          None

VARIABLES handler, phase, input, readings, results

vars == <<handler, phase, input, readings, results>>

B == INSTANCE Builtin WITH Configs <- BuiltinConfigs
A == INSTANCE AmdGpu WITH Configs <- AmdConfigs
O == INSTANCE OpenVpn WITH Configs <- VpnConfigs, Commands <- VpnCommands

\* None stands for what is no number.
ASSUME NumbersAssumption == Numbers \subseteq Int /\ None \notin Int

\* A command of the memory is about one of its three numbers.
ASSUME ItemsAssumption ==
  \A ms \in BuiltinConfigs : \A n \in DOMAIN ms :
    ms[n].source = "memory" => ms[n].item \in {"total", "available", "used"}

\* Paths are listed in sequences.
ASSUME PathsAssumption ==
  \A env \in Paths : /\ env.configs \in Seq({env.configs[i] : i \in DOMAIN env.configs})
                     /\ env.statuses \in Seq({env.statuses[i] : i \in DOMAIN env.statuses})

\* A status that is written to its end: whole lines, and a header before each row.
ASSUME StatusesAssumption ==
  \A text \in Statuses :
    /\ text \in Seq({text[i] : i \in DOMAIN text})
    /\ \A i \in DOMAIN text :
         /\ text[i] = [key |-> text[i].key, table |-> text[i].table, name |-> text[i].name,
                       value |-> text[i].value, whole |-> TRUE]
         /\ O!Row(text[i]) => O!Mapped(text, i)

Init ==
  \/ handler = "builtin" /\ B!Init
  \/ handler = "amdgpu"  /\ A!Init
  \/ handler = "openvpn" /\ O!Init

Next ==
  \/ handler = "builtin" /\ B!Next /\ UNCHANGED handler
  \/ handler = "amdgpu"  /\ A!Next /\ UNCHANGED handler
  \/ handler = "openvpn" /\ O!Next /\ UNCHANGED handler

Spec == Init /\ [][Next]_vars

-----------------------------------------------------------------------------
\* Each handler's state has its types.
TypeOK ==
  /\ handler \in {"builtin", "amdgpu", "openvpn"}
  /\ handler = "builtin" => B!TypeOK
  /\ handler = "amdgpu" => A!TypeOK
  /\ handler = "openvpn" => O!TypeOK

\* The properties of the handlers, stated and explained in their modules.
SourcesReadOnce    == handler = "builtin" => B!SourcesReadOnce
CycleSurvives      == handler = "builtin" => B!CycleSurvives
FamiliesAgree      == handler = "builtin" => B!FamiliesAgree
FailedReadsZero    == handler = "builtin" => B!FailedReadsZero
UpgradesCounted    == handler = "builtin" => B!UpgradesCounted
GpuDownIsSilent    == handler = "amdgpu" => A!DownIsSilent
CardsKeepTheirRows == handler = "amdgpu" => A!CardsKeepTheirRows
VpnDownIsSilent    == handler = "openvpn" => O!DownIsSilent
PairedByPosition   == handler = "openvpn" => O!PairedByPosition
OnlyRowsFail       == handler = "openvpn" => O!OnlyRowsFail

\* docs/handler-openvpn.md:33-35: a missing or malformed status file "reports
\* sms_openvpn_up 0.0 ...; the cycle still succeeds".
StatusFaultTolerated == handler = "openvpn" => O!StatusFaultTolerated

===============================================================================
