------------------------------- MODULE MCCamera -------------------------------
(* A camera on two people, the shortest cooldowns that tell each other     *)
(* apart, and scenes for every detector; a service of two workers.         *)
EXTENDS Camera

MCWait ==
  [weapon |-> 1, critical |-> 1, default |-> 1, face |-> 1, speed |-> 2, group |-> 3,
   fall |-> 1, tamper |-> 3, tripwire |-> 1, night |-> 3, traffic |-> 2,
   loitering |-> 2, abandoned |-> 3, stale |-> 5]

MCScenes ==
  {[Scene EXCEPT !.people = [t \in {1, 2} |-> Person("Restricted", "left", "Standing")]],
   [Scene EXCEPT !.people = 2 :> [Person("Restricted", "right", "Running") EXCEPT
      !.fallen = TRUE, !.face = TRUE]],
   [Scene EXCEPT !.light = "dark", !.broken = TRUE],
   [Scene EXCEPT !.bag = "alone", !.fire = TRUE, !.smoke = TRUE,
      !.objects = {"weapon_knife"}]}
===============================================================================
