--------------------------- MODULE MCCspProfiles ---------------------------
(***************************************************************************)
(* Three invocations on one profile, any mix of the commands.              *)
(***************************************************************************)
EXTENDS CspProfiles

cmd(k, target, password, pem, active) ==
  [kind |-> k, target |-> target, password |-> password, pem |-> pem, active |-> active]

MCCommands ==
  {cmd("update", "t2", None, None, TRUE), cmd("update", None, "w2", None, TRUE),
   cmd("update", None, None, "c2", TRUE),
   cmd("status", None, None, None, FALSE), cmd("remove", None, None, None, TRUE),
   cmd("delete", None, None, None, TRUE), cmd("acquire", None, None, None, TRUE)}

MCCreated ==
  {[profile |-> [target |-> "t1", active |-> TRUE],
    credentials |-> [pem |-> "c1", password |-> "w1", has_password |-> TRUE, cert |-> "c1"]]}
=============================================================================
