--------------------------- MODULE MCVoteService ---------------------------
(* Small instances of VoteService for TLC.                                  *)
EXTENDS VoteService, TLC

CONSTANTS r1, r2

Poll2 == <<"a", "b">>

Settings(protections, changes, multiple) ==
  [protection : protections, allowChanges : changes, multiple : multiple]

AllSettings    == Settings(Protections, BOOLEAN, BOOLEAN)
FixedVotes     == Settings(Protections, {FALSE}, {FALSE})
AccountVotes   == Settings({"require_account"}, {FALSE}, {FALSE})

(* A voter hash, an address, an account and the options asked for.          *)
Voter(voter, ip, user, options) ==
  [voter |-> voter, ip |-> ip, user |-> user, options |-> options]

(* Devices that share an address (the first two), a hash (the first, third  *)
(* and fourth) or an account (the second and third); the last has neither   *)
(* an address nor an account.                                               *)
Devices(selections) ==
  UNION {{Voter("h1", "ip1", "u1", s), Voter("h2", "ip1", "u2", s),
          Voter("h1", "ip2", "u2", s), Voter("h1", None, None, s)} :
           s \in selections}

AllSelections == {<<>>, <<None>>, <<"a">>, <<"a", "a">>, <<"a", "b">>}

BroadInputs == Devices(AllSelections)
OneDevice   == {Voter("h1", "ip1", "u1", <<"a">>)}

RequestSymmetry == Permutations(Requests)
=============================================================================
