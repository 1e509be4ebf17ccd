------------------------------- MODULE MCBoot -------------------------------
(* The sizes, limits and scripts of the source, with the heap at a low      *)
(* address; any of the user programs in the source.                         *)
EXTENDS Boot

MCSizes == {64, 100, 128, 256, 4096}
MCNumbers == {0, 1, 7, 8, 9, 10, 11}
MCSleeps == {50, 100}
MCJunkWords == {0, 5}

MCPrograms == {user_payload, simple_user_loop, user_init_main}
=============================================================================
