CONSTANTS
  ratio_mclk_fs = 26
  preamble = 1
  word_length = 2
SPECIFICATION I2sSpec
INVARIANTS BitsFit FallsWithLrclk WordSent
PROPERTIES WordReceived
