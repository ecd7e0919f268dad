------------------------------ MODULE RunGrant ------------------------------
(***************************************************************************)
(* What the rest of the system relies on of a run's controller authority:  *)
(* generations only grow, at most the newest one is in force, and it is    *)
(* connected or not.  SessionStore runs on top of this specification;      *)
(* ControllerLease models the rows and credentials that implement it.      *)
(***************************************************************************)
EXTENDS Naturals

CONSTANT MaxGen   \* bound on the generations a behaviour installs

ASSUME MaxGenAssumption == MaxGen \in Nat

VARIABLES
  gen,        \* the newest generation ever installed; 0 before the first
  active,     \* that generation is in force
  connected,  \* its controller is connected
  legacy      \* the run's bootstrap credential still administers it

grantVars == <<gen, active, connected, legacy>>

\* The grant is a generation and three flags.
GrantTypeOK ==
  /\ gen \in Nat
  /\ active \in BOOLEAN
  /\ connected \in BOOLEAN
  /\ legacy \in BOOLEAN

GrantInit ==
  /\ gen = 0
  /\ active = FALSE
  /\ connected = FALSE
  /\ legacy = TRUE

Install ==
  /\ gen < MaxGen
  /\ gen' = gen + 1
  /\ active' = TRUE
  /\ connected' = FALSE
  /\ legacy' = FALSE

Adopt == ~active /\ Install

Handoff == active /\ Install

\* Takes the controller in force out of force.
Revoke ==
  /\ active
  /\ active' = FALSE
  /\ connected' = FALSE
  /\ UNCHANGED <<gen, legacy>>

\* Takes the bootstrap credential of a run nobody adopted out of force.
RevokeLegacy ==
  /\ legacy
  /\ legacy' = FALSE
  /\ UNCHANGED <<gen, active, connected>>

Connect ==
  /\ active
  /\ connected' = TRUE
  /\ UNCHANGED <<gen, active, legacy>>

Disconnect ==
  /\ connected
  /\ connected' = FALSE
  /\ UNCHANGED <<gen, active, legacy>>

GrantNext ==
  \/ Adopt \/ Handoff \/ Revoke \/ RevokeLegacy \/ Connect \/ Disconnect

GrantSpec == GrantInit /\ [][GrantNext]_grantVars
=============================================================================
