----------------------------- MODULE MCUartLink -----------------------------
(* Ten clocks per bit: like the board's 125, not a power of two, so that the *)
(* receiver's count has values that it never reaches.                        *)
EXTENDS UartLink

MCBytes == {<<0, 0, 0, 0, 0, 0, 0, 0>>, <<1, 1, 1, 1, 1, 1, 1, 1>>,
            <<1, 0, 1, 0, 0, 1, 0, 1>>}
=============================================================================
