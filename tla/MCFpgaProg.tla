----------------------------- MODULE MCFpgaProg -----------------------------
(* FpgaProg with one frame for each way in which data is taken and the mode of   *)
(* the port changes; the longest fill buffer_.                                   *)
EXTENDS FpgaProg

MCFrames ==
  {<<SERIAL_DOWNLOAD_DATA, 2, SERIAL_USART_DATA, 1>>,
   <<SERIAL_SPI_SELECT, 1, SERIAL_END_COMMANDS>>,
   <<SERIAL_USE_USART, 0>>, <<SERIAL_USE_SPI, 0>>,
   <<0, 2, SERIAL_FPGA_RESET, 0>>}
=============================================================================
