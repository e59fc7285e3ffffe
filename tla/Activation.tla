----------------------------- MODULE Activation -----------------------------
(***************************************************************************)
(* xdg-activation: request_activation and set_activation_token             *)
(* (src/toplevel.rs) and the dispatcher of xdg_activation_token_v1         *)
(* (src/connection.rs), over the serial that touch, pointer and keyboard   *)
(* share.  Touch is there in full; a button or a key of the others is      *)
(* OtherInput, what else they do being in Pointer and Keyboard.            *)
(*                                                                         *)
(* A token is a proxy: its name may come again once it was destroyed.      *)
(***************************************************************************)
EXTENDS Touch

\* A definition Name_Slip is Name as a slip of the programmer would make it;
\* nothing here uses it: put in the place of Name, it must break the property
\* the README lists it under.

CONSTANTS
  Toplevels,           \* the surfaces that are toplevels
  Tokens               \* token proxies

Handed == "handed"     \* a token string handed in from outside

ASSUME ActivationAssumption ==
  /\ Toplevels \subseteq Surfaces
  /\ Handed \notin Tokens

VARIABLES
  xdg_activation,      \* did the compositor advertise the manager?
  pending_activation_tokens,  \* surface by token
  outcome,             \* what the last step did about activation
  granted              \* the compositor: tokens committed and not answered,
                       \* with what was set on them

activation == <<xdg_activation, pending_activation_tokens, granted>>
allVars == <<vars, activation, outcome>>

Quiet == [did |-> "nothing"]
Err(why) == [did |-> why]
Requested(t) == [did |-> "requested", token |-> t]
Activate(t, s) == [did |-> "activated", token |-> t, surface |-> s]

InitAll ==
  /\ Init
  /\ xdg_activation \in BOOLEAN
  /\ pending_activation_tokens = Empty /\ granted = Empty
  /\ outcome = Quiet

\* The device of a contact and the handles keep out of activation.
TouchStep == Next /\ outcome' = Quiet /\ UNCHANGED activation

\* A pointer button goes down or up, or a key goes down: the serial is kept
\* before the focus is looked up, be it a surface of ours or not.
OtherInput(ours) ==
  /\ ours => live # {}
  /\ Press(ours) /\ last_input_serial' = serial'
  /\ Push({}) /\ outcome' = Quiet
  /\ UNCHANGED <<wl_touch, positions, surfaces, capable, contacts, live, activation>>
-----------------------------------------------------------------------------
\* The consumer's calls and the answers to them leave the devices alone.
NoInput == Push({}) /\ UNCHANGED <<state, capable, contacts, live, serial, since>>

Keep_Newest(t, s) == pending_activation_tokens' = Insert(Empty, t, s)

Keep(t, s) ==
  pending_activation_tokens' = Insert(pending_activation_tokens, t, s)

\* With no input so far, with no manager, or with a token for s.
RequestActivation(s) ==
  /\ s \in live \cap Toplevels
  /\ NoInput /\ UNCHANGED xdg_activation
  /\ \/ /\ last_input_serial = 0
        /\ outcome' = Err("NoInputSerial")
        /\ UNCHANGED <<pending_activation_tokens, granted>>
     \/ /\ last_input_serial # 0 /\ ~xdg_activation
        /\ outcome' = Err("Unsupported")
        /\ UNCHANGED <<pending_activation_tokens, granted>>
     \/ /\ last_input_serial # 0 /\ xdg_activation
        /\ \E t \in Tokens \ DOMAIN granted :
             /\ Keep(t, s)
             /\ granted' = Insert(granted, t, [surface |-> s, serial |-> last_input_serial])
             /\ outcome' = Requested(t)

\* A request about a surface that was destroyed is not sent.
Sent(t, s) == IF s \in live THEN Activate(t, s) ELSE Quiet

Forgotten_Never(t) == pending_activation_tokens

Forgotten(t) == Without(pending_activation_tokens, {t})

\* The compositor answers in any order, or never.
Done(t) ==
  /\ t \in DOMAIN granted
  /\ granted' = Without(granted, {t})
  /\ pending_activation_tokens' = Forgotten(t)
  /\ outcome' = IF t \in DOMAIN pending_activation_tokens
                THEN Sent(t, pending_activation_tokens[t]) ELSE Quiet
  /\ NoInput /\ UNCHANGED xdg_activation

SetActivationToken(s) ==
  /\ s \in live \cap Toplevels
  /\ outcome' = IF xdg_activation THEN Activate(Handed, s) ELSE Err("Unsupported")
  /\ NoInput /\ UNCHANGED activation

NextAll ==
  \/ TouchStep
  \/ \E ours \in BOOLEAN : OtherInput(ours)
  \/ \E s \in Toplevels : RequestActivation(s) \/ SetActivationToken(s)
  \/ \E t \in Tokens : Done(t)

SpecAll == InitAll /\ [][NextAll]_allVars
-----------------------------------------------------------------------------
(* Properties.                                                             *)

\* The map holds exactly the tokens the compositor still owes an answer, with
\* the surface each was asked for, whatever order they are answered in: it
\* grows by what is never answered and by nothing else.
TokensAccounted ==
  /\ DOMAIN pending_activation_tokens = DOMAIN granted
  /\ \A t \in DOMAIN granted :
       /\ pending_activation_tokens[t] = granted[t].surface
       /\ granted[t].serial \in 1..MaxSerial
  /\ ~xdg_activation => granted = Empty

\* The answer to a token activates the surface it was asked for, unless that
\* was dropped meanwhile, and never another; nothing else activates a surface,
\* but a token handed in ("the stored WlSurface is the surface to activate",
\* State::pending_activation_tokens).
ActivatesRequester ==
  [][LET answered == DOMAIN granted \ DOMAIN granted'
     IN /\ \A t \in answered :
             outcome' = IF granted[t].surface \in live
                        THEN Activate(t, granted[t].surface) ELSE Quiet
        /\ outcome'.did = "activated" =>
             outcome'.token \in answered \cup {Handed}]_allVars

\* Once the user pressed a button, a key or a finger on a surface of ours, no
\* request is refused for want of a serial, and none carries an older serial
\* than that of the newest such press ("Most recent input-event serial",
\* State::last_input_serial).  It may carry a newer one: a press on a surface
\* an embedder made on our connection counts in the code, though the docs of
\* the field and of NoInputSerial speak of "our surfaces" only; the property
\* asks for neither.
NewestInputServes ==
  [][/\ outcome'.did = "requested" =>
          granted'[outcome'.token].serial \in since \ {0}
     /\ outcome'.did = "NoInputSerial" => 0 \in since]_allVars
=============================================================================
