--------------------------- MODULE MCConversation ---------------------------
(* Conversation with two requests and a death, or one request and two deaths.                     *)
EXTENDS Conversation

Case(code, stock, ids, commands, trainers, catches, gamecard_deaths, the_brokers_deaths) ==
    [code |-> code, stock |-> stock, ids |-> ids, commands |-> commands, trainers |-> trainers,
     catches |-> catches, deaths |-> gamecard_deaths, broker_deaths |-> the_brokers_deaths]

Small == {Case("GET_POKEMON", 0, {1}, 2, 0, 0, 1, 0), Case("GET_POKEMON", 1, {}, 1, 0, 0, 1, 0),
          Case("NEW_POKEMON", 0, {}, 1, 0, 0, 2, 0), Case("NEW_POKEMON", 0, {1}, 2, 0, 0, 0, 1),
          Case("CATCH_POKEMON", 1, {1}, 1, 1, 1, 0, 0), Case("CATCH_POKEMON", 1, {}, 0, 2, 2, 0, 1),
          Case("CATCH_POKEMON", 1, {}, 0, 1, 1, 1, 1), Case("CATCH_POKEMON", 1, {}, 0, 1, 1, 2, 0)}
=============================================================================
