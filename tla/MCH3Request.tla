---------------------------- MODULE MCH3Request ----------------------------
(* Requests of a few pieces, for model checking.                           *)
EXTENDS H3Request

Request(methods, paths, pieces) ==
  [method : methods, camera : paths, pieces : pieces]

SomeRequests ==
  Request({"post"}, BOOLEAN,
          {<<"header">>, <<"header", "data", "other", "data">>})
  \cup Request({"get", "connect"}, BOOLEAN, {<<"header">>, <<"header", "data", "data">>})
  \cup Request({"unknown"}, {FALSE}, {<<"header">>, <<"webtransport", "data">>, <<>>})
  \cup Request({"post"}, {TRUE}, {<<"header", "data", "error", "data">>})
  \cup Request({"post", "connect"}, BOOLEAN, {<<"broken", "other">>})
  \cup Request({"get", "unknown"}, {FALSE}, {<<"other", "broken">>})
=============================================================================
