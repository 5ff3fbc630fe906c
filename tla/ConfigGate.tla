----------------------------- MODULE ConfigGate -----------------------------
(* What the two command channels promise, without messages, lengths, clocks *)
(* or replies: the configuration is behind a gate that opens for a channel  *)
(* that answered an outstanding challenge, or for the first write to a      *)
(* fresh device.  Every step names the party that takes it, so a channel    *)
(* cannot pass for the console, which needs no session, or for a restart.   *)
CONSTANTS Channel, NoChallenge, FactoryConfig, FactorySecret, FactoryPower,
          Operator,     \* the party at the board's console
          Board         \* the party that restarts the device

VARIABLES actor,        \* the party that took the last step
          config,       \* the configuration
          power,        \* the device state
          fresh,        \* no write and no power command since the factory
          secret,       \* what an answer must prove
          challenge,    \* the outstanding challenge of each channel
          session       \* the channels whose gate is open

Begin(ch) ==
    /\ actor' = ch
    /\ challenge' # challenge
    /\ challenge'[ch] # NoChallenge
    /\ \A c \in Channel \ {ch} : challenge'[c] = challenge[c]
    /\ UNCHANGED <<config, power, fresh, secret, session>>

\* Right or wrong, an answer uses the challenge up and decides the session.
Answer(ch) ==
    /\ actor' = ch
    /\ challenge[ch] # NoChallenge
    /\ challenge' = [challenge EXCEPT ![ch] = NoChallenge]
    /\ session' \in {session \cup {ch}, session \ {ch}}
    /\ UNCHANGED <<config, power, fresh, secret>>

\* Lock and disconnect drop the challenge too.
End(ch) ==
    /\ actor' = ch
    /\ session' = session \ {ch}
    /\ challenge' = [challenge EXCEPT ![ch] = NoChallenge]
    /\ UNCHANGED <<config, power, fresh, secret>>

\* A session ends by itself at any time, and its challenge stays.
Expire(ch) ==
    /\ session' = session \ {ch}
    /\ UNCHANGED <<config, power, fresh, secret, challenge>>

Configure(ch) ==
    /\ actor' = ch
    /\ ch \in session \/ fresh
    /\ power' = IF fresh THEN "POWER_ON" ELSE power
    /\ fresh' = FALSE
    /\ UNCHANGED <<secret, challenge, session>>

ChangeSecret(ch) ==
    /\ actor' = ch
    /\ ch \in session
    /\ UNCHANGED <<config, power, fresh, challenge, session>>

\* Anyone may switch the device on; only a session switches it off.
Switch(ch) ==
    /\ actor' = ch
    /\ power' = "POWER_ON" \/ (ch \in session /\ power' = "POWER_OFF")
    /\ fresh' = FALSE
    /\ UNCHANGED <<config, secret, challenge, session>>

FactoryState ==
    config = FactoryConfig /\ power = FactoryPower /\ fresh = TRUE /\ secret = FactorySecret

Reset(ch) ==
    /\ actor' = ch
    /\ ch \in session
    /\ FactoryState'
    /\ UNCHANGED <<challenge, session>>

\* The operator configures what he likes, and opens nothing.
Override ==
    /\ actor' = Operator
    /\ UNCHANGED <<power, fresh, secret, challenge, session>>

\* Whatever is refused, or only looks.
Look == UNCHANGED <<config, power, fresh, secret, challenge, session>>

Start ==
    /\ actor = Board
    /\ FactoryState
    /\ challenge = [ch \in Channel |-> NoChallenge]
    /\ session = {}

Restart == Start'

Init == Start

Next ==
    \/ \E ch \in Channel : \/ Begin(ch) \/ Answer(ch) \/ End(ch) \/ Expire(ch)
                           \/ Configure(ch) \/ ChangeSecret(ch) \/ Switch(ch) \/ Reset(ch)
    \/ Override
    \/ Look
    \/ Restart

Spec == Init /\ [][Next]_<<actor, config, power, fresh, secret, challenge, session>>
=============================================================================
