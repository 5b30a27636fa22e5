---------------------------- MODULE MCStoreParts ----------------------------
(***************************************************************************)
(* The tables in two kinds of behaviours: up to four messages of a call,   *)
(* stamped too early or too late, between two ticks of the clock and of the*)
(* writer's timers; or up to MaxOther messages of any kind, on time or a   *)
(* day late, over several days.                                            *)
(***************************************************************************)
EXTENDS MCStore

CONSTANT MaxOther

VARIABLE part

PartsInit == /\ Init
             /\ part \in {"calls", "days"}
             /\ part = "calls" => failed = {}

\* The message that a step of the writer takes.
Fits(rec) == IF part = "calls"
             THEN /\ rec.call # NoCall
                  /\ rec.base \in {"INVITE", "BYE"}
                  /\ rec.ts - now \in EarlyOrLate
             ELSE /\ taken < MaxOther
                  /\ rec.base \notin {"INVITE", "BYE"}
                  /\ rec.call = NoCall => rec.base = "OPTIONS"
                  /\ rec.ts - now \in LateOrOnTime

PartsNext == /\ Next
             /\ taken' > taken => Fits(batch'[Len(batch')])
             /\ part = "calls" => now' = now /\ (up' => timers' = Timers)
             /\ part' = part

PartsSpec == PartsInit /\ [][PartsNext]_<<vars, part>> /\ WF_vars(RetentionTick)
=============================================================================
