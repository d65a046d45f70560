------------------------------ MODULE MCCodec -------------------------------
(* The packets of the three phases, and values for their fields.            *)
EXTENDS Codec

\* server_info and disconnect, pong, encryption_request, success, compress,
\* login_plugin_request.
MCToClient ==
  {<<"string">>, <<"be">>, <<"string", "buffer", "buffer">>, <<"raw", "string">>, <<"varint">>,
   <<"varint", "string", "rest">>}

\* set_protocol, ping_start, ping, login_start, login_plugin_response,
\* encryption_response.
MCToServer ==
  {<<"varint", "string", "be", "varint">>, <<>>, <<"be">>, <<"string">>, <<"varint", "option">>,
   <<"buffer", "buffer">>}

\* Contents of which the longest has a length of two bytes.
MCValues(kind) ==
  CASE kind = "varint" -> Int32
    [] kind = "be" -> {0, 1, 10, Power(Base)[FixedLength] - 1}
    [] kind = "raw" -> {[i \in 1 .. FixedLength |-> i]}
    [] kind \in {"string", "buffer", "rest"} -> {<<>>, <<1>>, <<7, 1>>, <<0, 1, 0, 1, 7>>}
    [] kind = "option" -> {<<0>>, <<1>>, <<1, 1>>}
=============================================================================
