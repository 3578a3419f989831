------------------------------ MODULE MCEmission ------------------------------
(* Five volatile registers, those the emitter names, and one preserved one.  *)
EXTENDS Emission

MCVolatiles == <<"rax", "rcx", "rdx", "r10", "r11">>
===============================================================================
