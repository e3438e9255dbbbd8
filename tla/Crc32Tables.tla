---------------------------- MODULE Crc32Tables ----------------------------
(***************************************************************************)
(* The sixteen tables of CRC32_TABLE, src/util/crc32.rs, as the source has *)
(* them: the two halves of each word, one after the other, since a word of *)
(* 32 bits is more than a number of TLC holds.  Crc32 computes its tables  *)
(* from the polynomial; these are checked against that.                    *)
(***************************************************************************)
EXTENDS Crc32

Table0 ==
  <<
    \h0000,\h0000, \h7707,\h3096, \hEE0E,\h612C, \h9909,\h51BA, \h076D,\hC419, \h706A,\hF48F, \hE963,\hA535, \h9E64,\h95A3,
    \h0EDB,\h8832, \h79DC,\hB8A4, \hE0D5,\hE91E, \h97D2,\hD988, \h09B6,\h4C2B, \h7EB1,\h7CBD, \hE7B8,\h2D07, \h90BF,\h1D91,
    \h1DB7,\h1064, \h6AB0,\h20F2, \hF3B9,\h7148, \h84BE,\h41DE, \h1ADA,\hD47D, \h6DDD,\hE4EB, \hF4D4,\hB551, \h83D3,\h85C7,
    \h136C,\h9856, \h646B,\hA8C0, \hFD62,\hF97A, \h8A65,\hC9EC, \h1401,\h5C4F, \h6306,\h6CD9, \hFA0F,\h3D63, \h8D08,\h0DF5,
    \h3B6E,\h20C8, \h4C69,\h105E, \hD560,\h41E4, \hA267,\h7172, \h3C03,\hE4D1, \h4B04,\hD447, \hD20D,\h85FD, \hA50A,\hB56B,
    \h35B5,\hA8FA, \h42B2,\h986C, \hDBBB,\hC9D6, \hACBC,\hF940, \h32D8,\h6CE3, \h45DF,\h5C75, \hDCD6,\h0DCF, \hABD1,\h3D59,
    \h26D9,\h30AC, \h51DE,\h003A, \hC8D7,\h5180, \hBFD0,\h6116, \h21B4,\hF4B5, \h56B3,\hC423, \hCFBA,\h9599, \hB8BD,\hA50F,
    \h2802,\hB89E, \h5F05,\h8808, \hC60C,\hD9B2, \hB10B,\hE924, \h2F6F,\h7C87, \h5868,\h4C11, \hC161,\h1DAB, \hB666,\h2D3D,
    \h76DC,\h4190, \h01DB,\h7106, \h98D2,\h20BC, \hEFD5,\h102A, \h71B1,\h8589, \h06B6,\hB51F, \h9FBF,\hE4A5, \hE8B8,\hD433,
    \h7807,\hC9A2, \h0F00,\hF934, \h9609,\hA88E, \hE10E,\h9818, \h7F6A,\h0DBB, \h086D,\h3D2D, \h9164,\h6C97, \hE663,\h5C01,
    \h6B6B,\h51F4, \h1C6C,\h6162, \h8565,\h30D8, \hF262,\h004E, \h6C06,\h95ED, \h1B01,\hA57B, \h8208,\hF4C1, \hF50F,\hC457,
    \h65B0,\hD9C6, \h12B7,\hE950, \h8BBE,\hB8EA, \hFCB9,\h887C, \h62DD,\h1DDF, \h15DA,\h2D49, \h8CD3,\h7CF3, \hFBD4,\h4C65,
    \h4DB2,\h6158, \h3AB5,\h51CE, \hA3BC,\h0074, \hD4BB,\h30E2, \h4ADF,\hA541, \h3DD8,\h95D7, \hA4D1,\hC46D, \hD3D6,\hF4FB,
    \h4369,\hE96A, \h346E,\hD9FC, \hAD67,\h8846, \hDA60,\hB8D0, \h4404,\h2D73, \h3303,\h1DE5, \hAA0A,\h4C5F, \hDD0D,\h7CC9,
    \h5005,\h713C, \h2702,\h41AA, \hBE0B,\h1010, \hC90C,\h2086, \h5768,\hB525, \h206F,\h85B3, \hB966,\hD409, \hCE61,\hE49F,
    \h5EDE,\hF90E, \h29D9,\hC998, \hB0D0,\h9822, \hC7D7,\hA8B4, \h59B3,\h3D17, \h2EB4,\h0D81, \hB7BD,\h5C3B, \hC0BA,\h6CAD,
    \hEDB8,\h8320, \h9ABF,\hB3B6, \h03B6,\hE20C, \h74B1,\hD29A, \hEAD5,\h4739, \h9DD2,\h77AF, \h04DB,\h2615, \h73DC,\h1683,
    \hE363,\h0B12, \h9464,\h3B84, \h0D6D,\h6A3E, \h7A6A,\h5AA8, \hE40E,\hCF0B, \h9309,\hFF9D, \h0A00,\hAE27, \h7D07,\h9EB1,
    \hF00F,\h9344, \h8708,\hA3D2, \h1E01,\hF268, \h6906,\hC2FE, \hF762,\h575D, \h8065,\h67CB, \h196C,\h3671, \h6E6B,\h06E7,
    \hFED4,\h1B76, \h89D3,\h2BE0, \h10DA,\h7A5A, \h67DD,\h4ACC, \hF9B9,\hDF6F, \h8EBE,\hEFF9, \h17B7,\hBE43, \h60B0,\h8ED5,
    \hD6D6,\hA3E8, \hA1D1,\h937E, \h38D8,\hC2C4, \h4FDF,\hF252, \hD1BB,\h67F1, \hA6BC,\h5767, \h3FB5,\h06DD, \h48B2,\h364B,
    \hD80D,\h2BDA, \hAF0A,\h1B4C, \h3603,\h4AF6, \h4104,\h7A60, \hDF60,\hEFC3, \hA867,\hDF55, \h316E,\h8EEF, \h4669,\hBE79,
    \hCB61,\hB38C, \hBC66,\h831A, \h256F,\hD2A0, \h5268,\hE236, \hCC0C,\h7795, \hBB0B,\h4703, \h2202,\h16B9, \h5505,\h262F,
    \hC5BA,\h3BBE, \hB2BD,\h0B28, \h2BB4,\h5A92, \h5CB3,\h6A04, \hC2D7,\hFFA7, \hB5D0,\hCF31, \h2CD9,\h9E8B, \h5BDE,\hAE1D,
    \h9B64,\hC2B0, \hEC63,\hF226, \h756A,\hA39C, \h026D,\h930A, \h9C09,\h06A9, \hEB0E,\h363F, \h7207,\h6785, \h0500,\h5713,
    \h95BF,\h4A82, \hE2B8,\h7A14, \h7BB1,\h2BAE, \h0CB6,\h1B38, \h92D2,\h8E9B, \hE5D5,\hBE0D, \h7CDC,\hEFB7, \h0BDB,\hDF21,
    \h86D3,\hD2D4, \hF1D4,\hE242, \h68DD,\hB3F8, \h1FDA,\h836E, \h81BE,\h16CD, \hF6B9,\h265B, \h6FB0,\h77E1, \h18B7,\h4777,
    \h8808,\h5AE6, \hFF0F,\h6A70, \h6606,\h3BCA, \h1101,\h0B5C, \h8F65,\h9EFF, \hF862,\hAE69, \h616B,\hFFD3, \h166C,\hCF45,
    \hA00A,\hE278, \hD70D,\hD2EE, \h4E04,\h8354, \h3903,\hB3C2, \hA767,\h2661, \hD060,\h16F7, \h4969,\h474D, \h3E6E,\h77DB,
    \hAED1,\h6A4A, \hD9D6,\h5ADC, \h40DF,\h0B66, \h37D8,\h3BF0, \hA9BC,\hAE53, \hDEBB,\h9EC5, \h47B2,\hCF7F, \h30B5,\hFFE9,
    \hBDBD,\hF21C, \hCABA,\hC28A, \h53B3,\h9330, \h24B4,\hA3A6, \hBAD0,\h3605, \hCDD7,\h0693, \h54DE,\h5729, \h23D9,\h67BF,
    \hB366,\h7A2E, \hC461,\h4AB8, \h5D68,\h1B02, \h2A6F,\h2B94, \hB40B,\hBE37, \hC30C,\h8EA1, \h5A05,\hDF1B, \h2D02,\hEF8D
  >>

Table1 ==
  <<
    \h0000,\h0000, \h191B,\h3141, \h3236,\h6282, \h2B2D,\h53C3, \h646C,\hC504, \h7D77,\hF445, \h565A,\hA786, \h4F41,\h96C7,
    \hC8D9,\h8A08, \hD1C2,\hBB49, \hFAEF,\hE88A, \hE3F4,\hD9CB, \hACB5,\h4F0C, \hB5AE,\h7E4D, \h9E83,\h2D8E, \h8798,\h1CCF,
    \h4AC2,\h1251, \h53D9,\h2310, \h78F4,\h70D3, \h61EF,\h4192, \h2EAE,\hD755, \h37B5,\hE614, \h1C98,\hB5D7, \h0583,\h8496,
    \h821B,\h9859, \h9B00,\hA918, \hB02D,\hFADB, \hA936,\hCB9A, \hE677,\h5D5D, \hFF6C,\h6C1C, \hD441,\h3FDF, \hCD5A,\h0E9E,
    \h9584,\h24A2, \h8C9F,\h15E3, \hA7B2,\h4620, \hBEA9,\h7761, \hF1E8,\hE1A6, \hE8F3,\hD0E7, \hC3DE,\h8324, \hDAC5,\hB265,
    \h5D5D,\hAEAA, \h4446,\h9FEB, \h6F6B,\hCC28, \h7670,\hFD69, \h3931,\h6BAE, \h202A,\h5AEF, \h0B07,\h092C, \h121C,\h386D,
    \hDF46,\h36F3, \hC65D,\h07B2, \hED70,\h5471, \hF46B,\h6530, \hBB2A,\hF3F7, \hA231,\hC2B6, \h891C,\h9175, \h9007,\hA034,
    \h179F,\hBCFB, \h0E84,\h8DBA, \h25A9,\hDE79, \h3CB2,\hEF38, \h73F3,\h79FF, \h6AE8,\h48BE, \h41C5,\h1B7D, \h58DE,\h2A3C,
    \hF079,\h4F05, \hE962,\h7E44, \hC24F,\h2D87, \hDB54,\h1CC6, \h9415,\h8A01, \h8D0E,\hBB40, \hA623,\hE883, \hBF38,\hD9C2,
    \h38A0,\hC50D, \h21BB,\hF44C, \h0A96,\hA78F, \h138D,\h96CE, \h5CCC,\h0009, \h45D7,\h3148, \h6EFA,\h628B, \h77E1,\h53CA,
    \hBABB,\h5D54, \hA3A0,\h6C15, \h888D,\h3FD6, \h9196,\h0E97, \hDED7,\h9850, \hC7CC,\hA911, \hECE1,\hFAD2, \hF5FA,\hCB93,
    \h7262,\hD75C, \h6B79,\hE61D, \h4054,\hB5DE, \h594F,\h849F, \h160E,\h1258, \h0F15,\h2319, \h2438,\h70DA, \h3D23,\h419B,
    \h65FD,\h6BA7, \h7CE6,\h5AE6, \h57CB,\h0925, \h4ED0,\h3864, \h0191,\hAEA3, \h188A,\h9FE2, \h33A7,\hCC21, \h2ABC,\hFD60,
    \hAD24,\hE1AF, \hB43F,\hD0EE, \h9F12,\h832D, \h8609,\hB26C, \hC948,\h24AB, \hD053,\h15EA, \hFB7E,\h4629, \hE265,\h7768,
    \h2F3F,\h79F6, \h3624,\h48B7, \h1D09,\h1B74, \h0412,\h2A35, \h4B53,\hBCF2, \h5248,\h8DB3, \h7965,\hDE70, \h607E,\hEF31,
    \hE7E6,\hF3FE, \hFEFD,\hC2BF, \hD5D0,\h917C, \hCCCB,\hA03D, \h838A,\h36FA, \h9A91,\h07BB, \hB1BC,\h5478, \hA8A7,\h6539,
    \h3B83,\h984B, \h2298,\hA90A, \h09B5,\hFAC9, \h10AE,\hCB88, \h5FEF,\h5D4F, \h46F4,\h6C0E, \h6DD9,\h3FCD, \h74C2,\h0E8C,
    \hF35A,\h1243, \hEA41,\h2302, \hC16C,\h70C1, \hD877,\h4180, \h9736,\hD747, \h8E2D,\hE606, \hA500,\hB5C5, \hBC1B,\h8484,
    \h7141,\h8A1A, \h685A,\hBB5B, \h4377,\hE898, \h5A6C,\hD9D9, \h152D,\h4F1E, \h0C36,\h7E5F, \h271B,\h2D9C, \h3E00,\h1CDD,
    \hB998,\h0012, \hA083,\h3153, \h8BAE,\h6290, \h92B5,\h53D1, \hDDF4,\hC516, \hC4EF,\hF457, \hEFC2,\hA794, \hF6D9,\h96D5,
    \hAE07,\hBCE9, \hB71C,\h8DA8, \h9C31,\hDE6B, \h852A,\hEF2A, \hCA6B,\h79ED, \hD370,\h48AC, \hF85D,\h1B6F, \hE146,\h2A2E,
    \h66DE,\h36E1, \h7FC5,\h07A0, \h54E8,\h5463, \h4DF3,\h6522, \h02B2,\hF3E5, \h1BA9,\hC2A4, \h3084,\h9167, \h299F,\hA026,
    \hE4C5,\hAEB8, \hFDDE,\h9FF9, \hD6F3,\hCC3A, \hCFE8,\hFD7B, \h80A9,\h6BBC, \h99B2,\h5AFD, \hB29F,\h093E, \hAB84,\h387F,
    \h2C1C,\h24B0, \h3507,\h15F1, \h1E2A,\h4632, \h0731,\h7773, \h4870,\hE1B4, \h516B,\hD0F5, \h7A46,\h8336, \h635D,\hB277,
    \hCBFA,\hD74E, \hD2E1,\hE60F, \hF9CC,\hB5CC, \hE0D7,\h848D, \hAF96,\h124A, \hB68D,\h230B, \h9DA0,\h70C8, \h84BB,\h4189,
    \h0323,\h5D46, \h1A38,\h6C07, \h3115,\h3FC4, \h280E,\h0E85, \h674F,\h9842, \h7E54,\hA903, \h5579,\hFAC0, \h4C62,\hCB81,
    \h8138,\hC51F, \h9823,\hF45E, \hB30E,\hA79D, \hAA15,\h96DC, \hE554,\h001B, \hFC4F,\h315A, \hD762,\h6299, \hCE79,\h53D8,
    \h49E1,\h4F17, \h50FA,\h7E56, \h7BD7,\h2D95, \h62CC,\h1CD4, \h2D8D,\h8A13, \h3496,\hBB52, \h1FBB,\hE891, \h06A0,\hD9D0,
    \h5E7E,\hF3EC, \h4765,\hC2AD, \h6C48,\h916E, \h7553,\hA02F, \h3A12,\h36E8, \h2309,\h07A9, \h0824,\h546A, \h113F,\h652B,
    \h96A7,\h79E4, \h8FBC,\h48A5, \hA491,\h1B66, \hBD8A,\h2A27, \hF2CB,\hBCE0, \hEBD0,\h8DA1, \hC0FD,\hDE62, \hD9E6,\hEF23,
    \h14BC,\hE1BD, \h0DA7,\hD0FC, \h268A,\h833F, \h3F91,\hB27E, \h70D0,\h24B9, \h69CB,\h15F8, \h42E6,\h463B, \h5BFD,\h777A,
    \hDC65,\h6BB5, \hC57E,\h5AF4, \hEE53,\h0937, \hF748,\h3876, \hB809,\hAEB1, \hA112,\h9FF0, \h8A3F,\hCC33, \h9324,\hFD72
  >>

Table2 ==
  <<
    \h0000,\h0000, \h01C2,\h6A37, \h0384,\hD46E, \h0246,\hBE59, \h0709,\hA8DC, \h06CB,\hC2EB, \h048D,\h7CB2, \h054F,\h1685,
    \h0E13,\h51B8, \h0FD1,\h3B8F, \h0D97,\h85D6, \h0C55,\hEFE1, \h091A,\hF964, \h08D8,\h9353, \h0A9E,\h2D0A, \h0B5C,\h473D,
    \h1C26,\hA370, \h1DE4,\hC947, \h1FA2,\h771E, \h1E60,\h1D29, \h1B2F,\h0BAC, \h1AED,\h619B, \h18AB,\hDFC2, \h1969,\hB5F5,
    \h1235,\hF2C8, \h13F7,\h98FF, \h11B1,\h26A6, \h1073,\h4C91, \h153C,\h5A14, \h14FE,\h3023, \h16B8,\h8E7A, \h177A,\hE44D,
    \h384D,\h46E0, \h398F,\h2CD7, \h3BC9,\h928E, \h3A0B,\hF8B9, \h3F44,\hEE3C, \h3E86,\h840B, \h3CC0,\h3A52, \h3D02,\h5065,
    \h365E,\h1758, \h379C,\h7D6F, \h35DA,\hC336, \h3418,\hA901, \h3157,\hBF84, \h3095,\hD5B3, \h32D3,\h6BEA, \h3311,\h01DD,
    \h246B,\hE590, \h25A9,\h8FA7, \h27EF,\h31FE, \h262D,\h5BC9, \h2362,\h4D4C, \h22A0,\h277B, \h20E6,\h9922, \h2124,\hF315,
    \h2A78,\hB428, \h2BBA,\hDE1F, \h29FC,\h6046, \h283E,\h0A71, \h2D71,\h1CF4, \h2CB3,\h76C3, \h2EF5,\hC89A, \h2F37,\hA2AD,
    \h709A,\h8DC0, \h7158,\hE7F7, \h731E,\h59AE, \h72DC,\h3399, \h7793,\h251C, \h7651,\h4F2B, \h7417,\hF172, \h75D5,\h9B45,
    \h7E89,\hDC78, \h7F4B,\hB64F, \h7D0D,\h0816, \h7CCF,\h6221, \h7980,\h74A4, \h7842,\h1E93, \h7A04,\hA0CA, \h7BC6,\hCAFD,
    \h6CBC,\h2EB0, \h6D7E,\h4487, \h6F38,\hFADE, \h6EFA,\h90E9, \h6BB5,\h866C, \h6A77,\hEC5B, \h6831,\h5202, \h69F3,\h3835,
    \h62AF,\h7F08, \h636D,\h153F, \h612B,\hAB66, \h60E9,\hC151, \h65A6,\hD7D4, \h6464,\hBDE3, \h6622,\h03BA, \h67E0,\h698D,
    \h48D7,\hCB20, \h4915,\hA117, \h4B53,\h1F4E, \h4A91,\h7579, \h4FDE,\h63FC, \h4E1C,\h09CB, \h4C5A,\hB792, \h4D98,\hDDA5,
    \h46C4,\h9A98, \h4706,\hF0AF, \h4540,\h4EF6, \h4482,\h24C1, \h41CD,\h3244, \h400F,\h5873, \h4249,\hE62A, \h438B,\h8C1D,
    \h54F1,\h6850, \h5533,\h0267, \h5775,\hBC3E, \h56B7,\hD609, \h53F8,\hC08C, \h523A,\hAABB, \h507C,\h14E2, \h51BE,\h7ED5,
    \h5AE2,\h39E8, \h5B20,\h53DF, \h5966,\hED86, \h58A4,\h87B1, \h5DEB,\h9134, \h5C29,\hFB03, \h5E6F,\h455A, \h5FAD,\h2F6D,
    \hE135,\h1B80, \hE0F7,\h71B7, \hE2B1,\hCFEE, \hE373,\hA5D9, \hE63C,\hB35C, \hE7FE,\hD96B, \hE5B8,\h6732, \hE47A,\h0D05,
    \hEF26,\h4A38, \hEEE4,\h200F, \hECA2,\h9E56, \hED60,\hF461, \hE82F,\hE2E4, \hE9ED,\h88D3, \hEBAB,\h368A, \hEA69,\h5CBD,
    \hFD13,\hB8F0, \hFCD1,\hD2C7, \hFE97,\h6C9E, \hFF55,\h06A9, \hFA1A,\h102C, \hFBD8,\h7A1B, \hF99E,\hC442, \hF85C,\hAE75,
    \hF300,\hE948, \hF2C2,\h837F, \hF084,\h3D26, \hF146,\h5711, \hF409,\h4194, \hF5CB,\h2BA3, \hF78D,\h95FA, \hF64F,\hFFCD,
    \hD978,\h5D60, \hD8BA,\h3757, \hDAFC,\h890E, \hDB3E,\hE339, \hDE71,\hF5BC, \hDFB3,\h9F8B, \hDDF5,\h21D2, \hDC37,\h4BE5,
    \hD76B,\h0CD8, \hD6A9,\h66EF, \hD4EF,\hD8B6, \hD52D,\hB281, \hD062,\hA404, \hD1A0,\hCE33, \hD3E6,\h706A, \hD224,\h1A5D,
    \hC55E,\hFE10, \hC49C,\h9427, \hC6DA,\h2A7E, \hC718,\h4049, \hC257,\h56CC, \hC395,\h3CFB, \hC1D3,\h82A2, \hC011,\hE895,
    \hCB4D,\hAFA8, \hCA8F,\hC59F, \hC8C9,\h7BC6, \hC90B,\h11F1, \hCC44,\h0774, \hCD86,\h6D43, \hCFC0,\hD31A, \hCE02,\hB92D,
    \h91AF,\h9640, \h906D,\hFC77, \h922B,\h422E, \h93E9,\h2819, \h96A6,\h3E9C, \h9764,\h54AB, \h9522,\hEAF2, \h94E0,\h80C5,
    \h9FBC,\hC7F8, \h9E7E,\hADCF, \h9C38,\h1396, \h9DFA,\h79A1, \h98B5,\h6F24, \h9977,\h0513, \h9B31,\hBB4A, \h9AF3,\hD17D,
    \h8D89,\h3530, \h8C4B,\h5F07, \h8E0D,\hE15E, \h8FCF,\h8B69, \h8A80,\h9DEC, \h8B42,\hF7DB, \h8904,\h4982, \h88C6,\h23B5,
    \h839A,\h6488, \h8258,\h0EBF, \h801E,\hB0E6, \h81DC,\hDAD1, \h8493,\hCC54, \h8551,\hA663, \h8717,\h183A, \h86D5,\h720D,
    \hA9E2,\hD0A0, \hA820,\hBA97, \hAA66,\h04CE, \hABA4,\h6EF9, \hAEEB,\h787C, \hAF29,\h124B, \hAD6F,\hAC12, \hACAD,\hC625,
    \hA7F1,\h8118, \hA633,\hEB2F, \hA475,\h5576, \hA5B7,\h3F41, \hA0F8,\h29C4, \hA13A,\h43F3, \hA37C,\hFDAA, \hA2BE,\h979D,
    \hB5C4,\h73D0, \hB406,\h19E7, \hB640,\hA7BE, \hB782,\hCD89, \hB2CD,\hDB0C, \hB30F,\hB13B, \hB149,\h0F62, \hB08B,\h6555,
    \hBBD7,\h2268, \hBA15,\h485F, \hB853,\hF606, \hB991,\h9C31, \hBCDE,\h8AB4, \hBD1C,\hE083, \hBF5A,\h5EDA, \hBE98,\h34ED
  >>

Table3 ==
  <<
    \h0000,\h0000, \hB8BC,\h6765, \hAA09,\hC88B, \h12B5,\hAFEE, \h8F62,\h9757, \h37DE,\hF032, \h256B,\h5FDC, \h9DD7,\h38B9,
    \hC5B4,\h28EF, \h7D08,\h4F8A, \h6FBD,\hE064, \hD701,\h8701, \h4AD6,\hBFB8, \hF26A,\hD8DD, \hE0DF,\h7733, \h5863,\h1056,
    \h5019,\h579F, \hE8A5,\h30FA, \hFA10,\h9F14, \h42AC,\hF871, \hDF7B,\hC0C8, \h67C7,\hA7AD, \h7572,\h0843, \hCDCE,\h6F26,
    \h95AD,\h7F70, \h2D11,\h1815, \h3FA4,\hB7FB, \h8718,\hD09E, \h1ACF,\hE827, \hA273,\h8F42, \hB0C6,\h20AC, \h087A,\h47C9,
    \hA032,\hAF3E, \h188E,\hC85B, \h0A3B,\h67B5, \hB287,\h00D0, \h2F50,\h3869, \h97EC,\h5F0C, \h8559,\hF0E2, \h3DE5,\h9787,
    \h6586,\h87D1, \hDD3A,\hE0B4, \hCF8F,\h4F5A, \h7733,\h283F, \hEAE4,\h1086, \h5258,\h77E3, \h40ED,\hD80D, \hF851,\hBF68,
    \hF02B,\hF8A1, \h4897,\h9FC4, \h5A22,\h302A, \hE29E,\h574F, \h7F49,\h6FF6, \hC7F5,\h0893, \hD540,\hA77D, \h6DFC,\hC018,
    \h359F,\hD04E, \h8D23,\hB72B, \h9F96,\h18C5, \h272A,\h7FA0, \hBAFD,\h4719, \h0241,\h207C, \h10F4,\h8F92, \hA848,\hE8F7,
    \h9B14,\h583D, \h23A8,\h3F58, \h311D,\h90B6, \h89A1,\hF7D3, \h1476,\hCF6A, \hACCA,\hA80F, \hBE7F,\h07E1, \h06C3,\h6084,
    \h5EA0,\h70D2, \hE61C,\h17B7, \hF4A9,\hB859, \h4C15,\hDF3C, \hD1C2,\hE785, \h697E,\h80E0, \h7BCB,\h2F0E, \hC377,\h486B,
    \hCB0D,\h0FA2, \h73B1,\h68C7, \h6104,\hC729, \hD9B8,\hA04C, \h446F,\h98F5, \hFCD3,\hFF90, \hEE66,\h507E, \h56DA,\h371B,
    \h0EB9,\h274D, \hB605,\h4028, \hA4B0,\hEFC6, \h1C0C,\h88A3, \h81DB,\hB01A, \h3967,\hD77F, \h2BD2,\h7891, \h936E,\h1FF4,
    \h3B26,\hF703, \h839A,\h9066, \h912F,\h3F88, \h2993,\h58ED, \hB444,\h6054, \h0CF8,\h0731, \h1E4D,\hA8DF, \hA6F1,\hCFBA,
    \hFE92,\hDFEC, \h462E,\hB889, \h549B,\h1767, \hEC27,\h7002, \h71F0,\h48BB, \hC94C,\h2FDE, \hDBF9,\h8030, \h6345,\hE755,
    \h6B3F,\hA09C, \hD383,\hC7F9, \hC136,\h6817, \h798A,\h0F72, \hE45D,\h37CB, \h5CE1,\h50AE, \h4E54,\hFF40, \hF6E8,\h9825,
    \hAE8B,\h8873, \h1637,\hEF16, \h0482,\h40F8, \hBC3E,\h279D, \h21E9,\h1F24, \h9955,\h7841, \h8BE0,\hD7AF, \h335C,\hB0CA,
    \hED59,\hB63B, \h55E5,\hD15E, \h4750,\h7EB0, \hFFEC,\h19D5, \h623B,\h216C, \hDA87,\h4609, \hC832,\hE9E7, \h708E,\h8E82,
    \h28ED,\h9ED4, \h9051,\hF9B1, \h82E4,\h565F, \h3A58,\h313A, \hA78F,\h0983, \h1F33,\h6EE6, \h0D86,\hC108, \hB53A,\hA66D,
    \hBD40,\hE1A4, \h05FC,\h86C1, \h1749,\h292F, \hAFF5,\h4E4A, \h3222,\h76F3, \h8A9E,\h1196, \h982B,\hBE78, \h2097,\hD91D,
    \h78F4,\hC94B, \hC048,\hAE2E, \hD2FD,\h01C0, \h6A41,\h66A5, \hF796,\h5E1C, \h4F2A,\h3979, \h5D9F,\h9697, \hE523,\hF1F2,
    \h4D6B,\h1905, \hF5D7,\h7E60, \hE762,\hD18E, \h5FDE,\hB6EB, \hC209,\h8E52, \h7AB5,\hE937, \h6800,\h46D9, \hD0BC,\h21BC,
    \h88DF,\h31EA, \h3063,\h568F, \h22D6,\hF961, \h9A6A,\h9E04, \h07BD,\hA6BD, \hBF01,\hC1D8, \hADB4,\h6E36, \h1508,\h0953,
    \h1D72,\h4E9A, \hA5CE,\h29FF, \hB77B,\h8611, \h0FC7,\hE174, \h9210,\hD9CD, \h2AAC,\hBEA8, \h3819,\h1146, \h80A5,\h7623,
    \hD8C6,\h6675, \h607A,\h0110, \h72CF,\hAEFE, \hCA73,\hC99B, \h57A4,\hF122, \hEF18,\h9647, \hFDAD,\h39A9, \h4511,\h5ECC,
    \h764D,\hEE06, \hCEF1,\h8963, \hDC44,\h268D, \h64F8,\h41E8, \hF92F,\h7951, \h4193,\h1E34, \h5326,\hB1DA, \hEB9A,\hD6BF,
    \hB3F9,\hC6E9, \h0B45,\hA18C, \h19F0,\h0E62, \hA14C,\h6907, \h3C9B,\h51BE, \h8427,\h36DB, \h9692,\h9935, \h2E2E,\hFE50,
    \h2654,\hB999, \h9EE8,\hDEFC, \h8C5D,\h7112, \h34E1,\h1677, \hA936,\h2ECE, \h118A,\h49AB, \h033F,\hE645, \hBB83,\h8120,
    \hE3E0,\h9176, \h5B5C,\hF613, \h49E9,\h59FD, \hF155,\h3E98, \h6C82,\h0621, \hD43E,\h6144, \hC68B,\hCEAA, \h7E37,\hA9CF,
    \hD67F,\h4138, \h6EC3,\h265D, \h7C76,\h89B3, \hC4CA,\hEED6, \h591D,\hD66F, \hE1A1,\hB10A, \hF314,\h1EE4, \h4BA8,\h7981,
    \h13CB,\h69D7, \hAB77,\h0EB2, \hB9C2,\hA15C, \h017E,\hC639, \h9CA9,\hFE80, \h2415,\h99E5, \h36A0,\h360B, \h8E1C,\h516E,
    \h8666,\h16A7, \h3EDA,\h71C2, \h2C6F,\hDE2C, \h94D3,\hB949, \h0904,\h81F0, \hB1B8,\hE695, \hA30D,\h497B, \h1BB1,\h2E1E,
    \h43D2,\h3E48, \hFB6E,\h592D, \hE9DB,\hF6C3, \h5167,\h91A6, \hCCB0,\hA91F, \h740C,\hCE7A, \h66B9,\h6194, \hDE05,\h06F1
  >>

\* Mutant: the table before it stands here a second time.
Table4_Pasted == Table3

Table4 ==
  <<
    \h0000,\h0000, \h3D60,\h29B0, \h7AC0,\h5360, \h47A0,\h7AD0, \hF580,\hA6C0, \hC8E0,\h8F70, \h8F40,\hF5A0, \hB220,\hDC10,
    \h3070,\h4BC1, \h0D10,\h6271, \h4AB0,\h18A1, \h77D0,\h3111, \hC5F0,\hED01, \hF890,\hC4B1, \hBF30,\hBE61, \h8250,\h97D1,
    \h60E0,\h9782, \h5D80,\hBE32, \h1A20,\hC4E2, \h2740,\hED52, \h9560,\h3142, \hA800,\h18F2, \hEFA0,\h6222, \hD2C0,\h4B92,
    \h5090,\hDC43, \h6DF0,\hF5F3, \h2A50,\h8F23, \h1730,\hA693, \hA510,\h7A83, \h9870,\h5333, \hDFD0,\h29E3, \hE2B0,\h0053,
    \hC1C1,\h2F04, \hFCA1,\h06B4, \hBB01,\h7C64, \h8661,\h55D4, \h3441,\h89C4, \h0921,\hA074, \h4E81,\hDAA4, \h73E1,\hF314,
    \hF1B1,\h64C5, \hCCD1,\h4D75, \h8B71,\h37A5, \hB611,\h1E15, \h0431,\hC205, \h3951,\hEBB5, \h7EF1,\h9165, \h4391,\hB8D5,
    \hA121,\hB886, \h9C41,\h9136, \hDBE1,\hEBE6, \hE681,\hC256, \h54A1,\h1E46, \h69C1,\h37F6, \h2E61,\h4D26, \h1301,\h6496,
    \h9151,\hF347, \hAC31,\hDAF7, \hEB91,\hA027, \hD6F1,\h8997, \h64D1,\h5587, \h59B1,\h7C37, \h1E11,\h06E7, \h2371,\h2F57,
    \h58F3,\h5849, \h6593,\h71F9, \h2233,\h0B29, \h1F53,\h2299, \hAD73,\hFE89, \h9013,\hD739, \hD7B3,\hADE9, \hEAD3,\h8459,
    \h6883,\h1388, \h55E3,\h3A38, \h1243,\h40E8, \h2F23,\h6958, \h9D03,\hB548, \hA063,\h9CF8, \hE7C3,\hE628, \hDAA3,\hCF98,
    \h3813,\hCFCB, \h0573,\hE67B, \h42D3,\h9CAB, \h7FB3,\hB51B, \hCD93,\h690B, \hF0F3,\h40BB, \hB753,\h3A6B, \h8A33,\h13DB,
    \h0863,\h840A, \h3503,\hADBA, \h72A3,\hD76A, \h4FC3,\hFEDA, \hFDE3,\h22CA, \hC083,\h0B7A, \h8723,\h71AA, \hBA43,\h581A,
    \h9932,\h774D, \hA452,\h5EFD, \hE3F2,\h242D, \hDE92,\h0D9D, \h6CB2,\hD18D, \h51D2,\hF83D, \h1672,\h82ED, \h2B12,\hAB5D,
    \hA942,\h3C8C, \h9422,\h153C, \hD382,\h6FEC, \hEEE2,\h465C, \h5CC2,\h9A4C, \h61A2,\hB3FC, \h2602,\hC92C, \h1B62,\hE09C,
    \hF9D2,\hE0CF, \hC4B2,\hC97F, \h8312,\hB3AF, \hBE72,\h9A1F, \h0C52,\h460F, \h3132,\h6FBF, \h7692,\h156F, \h4BF2,\h3CDF,
    \hC9A2,\hAB0E, \hF4C2,\h82BE, \hB362,\hF86E, \h8E02,\hD1DE, \h3C22,\h0DCE, \h0142,\h247E, \h46E2,\h5EAE, \h7B82,\h771E,
    \hB1E6,\hB092, \h8C86,\h9922, \hCB26,\hE3F2, \hF646,\hCA42, \h4466,\h1652, \h7906,\h3FE2, \h3EA6,\h4532, \h03C6,\h6C82,
    \h8196,\hFB53, \hBCF6,\hD2E3, \hFB56,\hA833, \hC636,\h8183, \h7416,\h5D93, \h4976,\h7423, \h0ED6,\h0EF3, \h33B6,\h2743,
    \hD106,\h2710, \hEC66,\h0EA0, \hABC6,\h7470, \h96A6,\h5DC0, \h2486,\h81D0, \h19E6,\hA860, \h5E46,\hD2B0, \h6326,\hFB00,
    \hE176,\h6CD1, \hDC16,\h4561, \h9BB6,\h3FB1, \hA6D6,\h1601, \h14F6,\hCA11, \h2996,\hE3A1, \h6E36,\h9971, \h5356,\hB0C1,
    \h7027,\h9F96, \h4D47,\hB626, \h0AE7,\hCCF6, \h3787,\hE546, \h85A7,\h3956, \hB8C7,\h10E6, \hFF67,\h6A36, \hC207,\h4386,
    \h4057,\hD457, \h7D37,\hFDE7, \h3A97,\h8737, \h07F7,\hAE87, \hB5D7,\h7297, \h88B7,\h5B27, \hCF17,\h21F7, \hF277,\h0847,
    \h10C7,\h0814, \h2DA7,\h21A4, \h6A07,\h5B74, \h5767,\h72C4, \hE547,\hAED4, \hD827,\h8764, \h9F87,\hFDB4, \hA2E7,\hD404,
    \h20B7,\h43D5, \h1DD7,\h6A65, \h5A77,\h10B5, \h6717,\h3905, \hD537,\hE515, \hE857,\hCCA5, \hAFF7,\hB675, \h9297,\h9FC5,
    \hE915,\hE8DB, \hD475,\hC16B, \h93D5,\hBBBB, \hAEB5,\h920B, \h1C95,\h4E1B, \h21F5,\h67AB, \h6655,\h1D7B, \h5B35,\h34CB,
    \hD965,\hA31A, \hE405,\h8AAA, \hA3A5,\hF07A, \h9EC5,\hD9CA, \h2CE5,\h05DA, \h1185,\h2C6A, \h5625,\h56BA, \h6B45,\h7F0A,
    \h89F5,\h7F59, \hB495,\h56E9, \hF335,\h2C39, \hCE55,\h0589, \h7C75,\hD999, \h4115,\hF029, \h06B5,\h8AF9, \h3BD5,\hA349,
    \hB985,\h3498, \h84E5,\h1D28, \hC345,\h67F8, \hFE25,\h4E48, \h4C05,\h9258, \h7165,\hBBE8, \h36C5,\hC138, \h0BA5,\hE888,
    \h28D4,\hC7DF, \h15B4,\hEE6F, \h5214,\h94BF, \h6F74,\hBD0F, \hDD54,\h611F, \hE034,\h48AF, \hA794,\h327F, \h9AF4,\h1BCF,
    \h18A4,\h8C1E, \h25C4,\hA5AE, \h6264,\hDF7E, \h5F04,\hF6CE, \hED24,\h2ADE, \hD044,\h036E, \h97E4,\h79BE, \hAA84,\h500E,
    \h4834,\h505D, \h7554,\h79ED, \h32F4,\h033D, \h0F94,\h2A8D, \hBDB4,\hF69D, \h80D4,\hDF2D, \hC774,\hA5FD, \hFA14,\h8C4D,
    \h7844,\h1B9C, \h4524,\h322C, \h0284,\h48FC, \h3FE4,\h614C, \h8DC4,\hBD5C, \hB0A4,\h94EC, \hF704,\hEE3C, \hCA64,\hC78C
  >>

Table5 ==
  <<
    \h0000,\h0000, \hCB5C,\hD3A5, \h4DC8,\hA10B, \h8694,\h72AE, \h9B91,\h4216, \h50CD,\h91B3, \hD659,\hE31D, \h1D05,\h30B8,
    \hEC53,\h826D, \h270F,\h51C8, \hA19B,\h2366, \h6AC7,\hF0C3, \h77C2,\hC07B, \hBC9E,\h13DE, \h3A0A,\h6170, \hF156,\hB2D5,
    \h03D6,\h029B, \hC88A,\hD13E, \h4E1E,\hA390, \h8542,\h7035, \h9847,\h408D, \h531B,\h9328, \hD58F,\hE186, \h1ED3,\h3223,
    \hEF85,\h80F6, \h24D9,\h5353, \hA24D,\h21FD, \h6911,\hF258, \h7414,\hC2E0, \hBF48,\h1145, \h39DC,\h63EB, \hF280,\hB04E,
    \h07AC,\h0536, \hCCF0,\hD693, \h4A64,\hA43D, \h8138,\h7798, \h9C3D,\h4720, \h5761,\h9485, \hD1F5,\hE62B, \h1AA9,\h358E,
    \hEBFF,\h875B, \h20A3,\h54FE, \hA637,\h2650, \h6D6B,\hF5F5, \h706E,\hC54D, \hBB32,\h16E8, \h3DA6,\h6446, \hF6FA,\hB7E3,
    \h047A,\h07AD, \hCF26,\hD408, \h49B2,\hA6A6, \h82EE,\h7503, \h9FEB,\h45BB, \h54B7,\h961E, \hD223,\hE4B0, \h197F,\h3715,
    \hE829,\h85C0, \h2375,\h5665, \hA5E1,\h24CB, \h6EBD,\hF76E, \h73B8,\hC7D6, \hB8E4,\h1473, \h3E70,\h66DD, \hF52C,\hB578,
    \h0F58,\h0A6C, \hC404,\hD9C9, \h4290,\hAB67, \h89CC,\h78C2, \h94C9,\h487A, \h5F95,\h9BDF, \hD901,\hE971, \h125D,\h3AD4,
    \hE30B,\h8801, \h2857,\h5BA4, \hAEC3,\h290A, \h659F,\hFAAF, \h789A,\hCA17, \hB3C6,\h19B2, \h3552,\h6B1C, \hFE0E,\hB8B9,
    \h0C8E,\h08F7, \hC7D2,\hDB52, \h4146,\hA9FC, \h8A1A,\h7A59, \h971F,\h4AE1, \h5C43,\h9944, \hDAD7,\hEBEA, \h118B,\h384F,
    \hE0DD,\h8A9A, \h2B81,\h593F, \hAD15,\h2B91, \h6649,\hF834, \h7B4C,\hC88C, \hB010,\h1B29, \h3684,\h6987, \hFDD8,\hBA22,
    \h08F4,\h0F5A, \hC3A8,\hDCFF, \h453C,\hAE51, \h8E60,\h7DF4, \h9365,\h4D4C, \h5839,\h9EE9, \hDEAD,\hEC47, \h15F1,\h3FE2,
    \hE4A7,\h8D37, \h2FFB,\h5E92, \hA96F,\h2C3C, \h6233,\hFF99, \h7F36,\hCF21, \hB46A,\h1C84, \h32FE,\h6E2A, \hF9A2,\hBD8F,
    \h0B22,\h0DC1, \hC07E,\hDE64, \h46EA,\hACCA, \h8DB6,\h7F6F, \h90B3,\h4FD7, \h5BEF,\h9C72, \hDD7B,\hEEDC, \h1627,\h3D79,
    \hE771,\h8FAC, \h2C2D,\h5C09, \hAAB9,\h2EA7, \h61E5,\hFD02, \h7CE0,\hCDBA, \hB7BC,\h1E1F, \h3128,\h6CB1, \hFA74,\hBF14,
    \h1EB0,\h14D8, \hD5EC,\hC77D, \h5378,\hB5D3, \h9824,\h6676, \h8521,\h56CE, \h4E7D,\h856B, \hC8E9,\hF7C5, \h03B5,\h2460,
    \hF2E3,\h96B5, \h39BF,\h4510, \hBF2B,\h37BE, \h7477,\hE41B, \h6972,\hD4A3, \hA22E,\h0706, \h24BA,\h75A8, \hEFE6,\hA60D,
    \h1D66,\h1643, \hD63A,\hC5E6, \h50AE,\hB748, \h9BF2,\h64ED, \h86F7,\h5455, \h4DAB,\h87F0, \hCB3F,\hF55E, \h0063,\h26FB,
    \hF135,\h942E, \h3A69,\h478B, \hBCFD,\h3525, \h77A1,\hE680, \h6AA4,\hD638, \hA1F8,\h059D, \h276C,\h7733, \hEC30,\hA496,
    \h191C,\h11EE, \hD240,\hC24B, \h54D4,\hB0E5, \h9F88,\h6340, \h828D,\h53F8, \h49D1,\h805D, \hCF45,\hF2F3, \h0419,\h2156,
    \hF54F,\h9383, \h3E13,\h4026, \hB887,\h3288, \h73DB,\hE12D, \h6EDE,\hD195, \hA582,\h0230, \h2316,\h709E, \hE84A,\hA33B,
    \h1ACA,\h1375, \hD196,\hC0D0, \h5702,\hB27E, \h9C5E,\h61DB, \h815B,\h5163, \h4A07,\h82C6, \hCC93,\hF068, \h07CF,\h23CD,
    \hF699,\h9118, \h3DC5,\h42BD, \hBB51,\h3013, \h700D,\hE3B6, \h6D08,\hD30E, \hA654,\h00AB, \h20C0,\h7205, \hEB9C,\hA1A0,
    \h11E8,\h1EB4, \hDAB4,\hCD11, \h5C20,\hBFBF, \h977C,\h6C1A, \h8A79,\h5CA2, \h4125,\h8F07, \hC7B1,\hFDA9, \h0CED,\h2E0C,
    \hFDBB,\h9CD9, \h36E7,\h4F7C, \hB073,\h3DD2, \h7B2F,\hEE77, \h662A,\hDECF, \hAD76,\h0D6A, \h2BE2,\h7FC4, \hE0BE,\hAC61,
    \h123E,\h1C2F, \hD962,\hCF8A, \h5FF6,\hBD24, \h94AA,\h6E81, \h89AF,\h5E39, \h42F3,\h8D9C, \hC467,\hFF32, \h0F3B,\h2C97,
    \hFE6D,\h9E42, \h3531,\h4DE7, \hB3A5,\h3F49, \h78F9,\hECEC, \h65FC,\hDC54, \hAEA0,\h0FF1, \h2834,\h7D5F, \hE368,\hAEFA,
    \h1644,\h1B82, \hDD18,\hC827, \h5B8C,\hBA89, \h90D0,\h692C, \h8DD5,\h5994, \h4689,\h8A31, \hC01D,\hF89F, \h0B41,\h2B3A,
    \hFA17,\h99EF, \h314B,\h4A4A, \hB7DF,\h38E4, \h7C83,\hEB41, \h6186,\hDBF9, \hAADA,\h085C, \h2C4E,\h7AF2, \hE712,\hA957,
    \h1592,\h1919, \hDECE,\hCABC, \h585A,\hB812, \h9306,\h6BB7, \h8E03,\h5B0F, \h455F,\h88AA, \hC3CB,\hFA04, \h0897,\h29A1,
    \hF9C1,\h9B74, \h329D,\h48D1, \hB409,\h3A7F, \h7F55,\hE9DA, \h6250,\hD962, \hA90C,\h0AC7, \h2F98,\h7869, \hE4C4,\hABCC
  >>

Table6 ==
  <<
    \h0000,\h0000, \hA677,\h0BB4, \h979F,\h1129, \h31E8,\h1A9D, \hF44F,\h2413, \h5238,\h2FA7, \h63D0,\h353A, \hC5A7,\h3E8E,
    \h33EF,\h4E67, \h9598,\h45D3, \hA470,\h5F4E, \h0207,\h54FA, \hC7A0,\h6A74, \h61D7,\h61C0, \h503F,\h7B5D, \hF648,\h70E9,
    \h67DE,\h9CCE, \hC1A9,\h977A, \hF041,\h8DE7, \h5636,\h8653, \h9391,\hB8DD, \h35E6,\hB369, \h040E,\hA9F4, \hA279,\hA240,
    \h5431,\hD2A9, \hF246,\hD91D, \hC3AE,\hC380, \h65D9,\hC834, \hA07E,\hF6BA, \h0609,\hFD0E, \h37E1,\hE793, \h9196,\hEC27,
    \hCFBD,\h399C, \h69CA,\h3228, \h5822,\h28B5, \hFE55,\h2301, \h3BF2,\h1D8F, \h9D85,\h163B, \hAC6D,\h0CA6, \h0A1A,\h0712,
    \hFC52,\h77FB, \h5A25,\h7C4F, \h6BCD,\h66D2, \hCDBA,\h6D66, \h081D,\h53E8, \hAE6A,\h585C, \h9F82,\h42C1, \h39F5,\h4975,
    \hA863,\hA552, \h0E14,\hAEE6, \h3FFC,\hB47B, \h998B,\hBFCF, \h5C2C,\h8141, \hFA5B,\h8AF5, \hCBB3,\h9068, \h6DC4,\h9BDC,
    \h9B8C,\hEB35, \h3DFB,\hE081, \h0C13,\hFA1C, \hAA64,\hF1A8, \h6FC3,\hCF26, \hC9B4,\hC492, \hF85C,\hDE0F, \h5E2B,\hD5BB,
    \h440B,\h7579, \hE27C,\h7ECD, \hD394,\h6450, \h75E3,\h6FE4, \hB044,\h516A, \h1633,\h5ADE, \h27DB,\h4043, \h81AC,\h4BF7,
    \h77E4,\h3B1E, \hD193,\h30AA, \hE07B,\h2A37, \h460C,\h2183, \h83AB,\h1F0D, \h25DC,\h14B9, \h1434,\h0E24, \hB243,\h0590,
    \h23D5,\hE9B7, \h85A2,\hE203, \hB44A,\hF89E, \h123D,\hF32A, \hD79A,\hCDA4, \h71ED,\hC610, \h4005,\hDC8D, \hE672,\hD739,
    \h103A,\hA7D0, \hB64D,\hAC64, \h87A5,\hB6F9, \h21D2,\hBD4D, \hE475,\h83C3, \h4202,\h8877, \h73EA,\h92EA, \hD59D,\h995E,
    \h8BB6,\h4CE5, \h2DC1,\h4751, \h1C29,\h5DCC, \hBA5E,\h5678, \h7FF9,\h68F6, \hD98E,\h6342, \hE866,\h79DF, \h4E11,\h726B,
    \hB859,\h0282, \h1E2E,\h0936, \h2FC6,\h13AB, \h89B1,\h181F, \h4C16,\h2691, \hEA61,\h2D25, \hDB89,\h37B8, \h7DFE,\h3C0C,
    \hEC68,\hD02B, \h4A1F,\hDB9F, \h7BF7,\hC102, \hDD80,\hCAB6, \h1827,\hF438, \hBE50,\hFF8C, \h8FB8,\hE511, \h29CF,\hEEA5,
    \hDF87,\h9E4C, \h79F0,\h95F8, \h4818,\h8F65, \hEE6F,\h84D1, \h2BC8,\hBA5F, \h8DBF,\hB1EB, \hBC57,\hAB76, \h1A20,\hA0C2,
    \h8816,\hEAF2, \h2E61,\hE146, \h1F89,\hFBDB, \hB9FE,\hF06F, \h7C59,\hCEE1, \hDA2E,\hC555, \hEBC6,\hDFC8, \h4DB1,\hD47C,
    \hBBF9,\hA495, \h1D8E,\hAF21, \h2C66,\hB5BC, \h8A11,\hBE08, \h4FB6,\h8086, \hE9C1,\h8B32, \hD829,\h91AF, \h7E5E,\h9A1B,
    \hEFC8,\h763C, \h49BF,\h7D88, \h7857,\h6715, \hDE20,\h6CA1, \h1B87,\h522F, \hBDF0,\h599B, \h8C18,\h4306, \h2A6F,\h48B2,
    \hDC27,\h385B, \h7A50,\h33EF, \h4BB8,\h2972, \hEDCF,\h22C6, \h2868,\h1C48, \h8E1F,\h17FC, \hBFF7,\h0D61, \h1980,\h06D5,
    \h47AB,\hD36E, \hE1DC,\hD8DA, \hD034,\hC247, \h7643,\hC9F3, \hB3E4,\hF77D, \h1593,\hFCC9, \h247B,\hE654, \h820C,\hEDE0,
    \h7444,\h9D09, \hD233,\h96BD, \hE3DB,\h8C20, \h45AC,\h8794, \h800B,\hB91A, \h267C,\hB2AE, \h1794,\hA833, \hB1E3,\hA387,
    \h2075,\h4FA0, \h8602,\h4414, \hB7EA,\h5E89, \h119D,\h553D, \hD43A,\h6BB3, \h724D,\h6007, \h43A5,\h7A9A, \hE5D2,\h712E,
    \h139A,\h01C7, \hB5ED,\h0A73, \h8405,\h10EE, \h2272,\h1B5A, \hE7D5,\h25D4, \h41A2,\h2E60, \h704A,\h34FD, \hD63D,\h3F49,
    \hCC1D,\h9F8B, \h6A6A,\h943F, \h5B82,\h8EA2, \hFDF5,\h8516, \h3852,\hBB98, \h9E25,\hB02C, \hAFCD,\hAAB1, \h09BA,\hA105,
    \hFFF2,\hD1EC, \h5985,\hDA58, \h686D,\hC0C5, \hCE1A,\hCB71, \h0BBD,\hF5FF, \hADCA,\hFE4B, \h9C22,\hE4D6, \h3A55,\hEF62,
    \hABC3,\h0345, \h0DB4,\h08F1, \h3C5C,\h126C, \h9A2B,\h19D8, \h5F8C,\h2756, \hF9FB,\h2CE2, \hC813,\h367F, \h6E64,\h3DCB,
    \h982C,\h4D22, \h3E5B,\h4696, \h0FB3,\h5C0B, \hA9C4,\h57BF, \h6C63,\h6931, \hCA14,\h6285, \hFBFC,\h7818, \h5D8B,\h73AC,
    \h03A0,\hA617, \hA5D7,\hADA3, \h943F,\hB73E, \h3248,\hBC8A, \hF7EF,\h8204, \h5198,\h89B0, \h6070,\h932D, \hC607,\h9899,
    \h304F,\hE870, \h9638,\hE3C4, \hA7D0,\hF959, \h01A7,\hF2ED, \hC400,\hCC63, \h6277,\hC7D7, \h539F,\hDD4A, \hF5E8,\hD6FE,
    \h647E,\h3AD9, \hC209,\h316D, \hF3E1,\h2BF0, \h5596,\h2044, \h9031,\h1ECA, \h3646,\h157E, \h07AE,\h0FE3, \hA1D9,\h0457,
    \h5791,\h74BE, \hF1E6,\h7F0A, \hC00E,\h6597, \h6679,\h6E23, \hA3DE,\h50AD, \h05A9,\h5B19, \h3441,\h4184, \h9236,\h4A30
  >>

Table7 ==
  <<
    \h0000,\h0000, \hCCAA,\h009E, \h4225,\h077D, \h8E8F,\h07E3, \h844A,\h0EFA, \h48E0,\h0E64, \hC66F,\h0987, \h0AC5,\h0919,
    \hD3E5,\h1BB5, \h1F4F,\h1B2B, \h91C0,\h1CC8, \h5D6A,\h1C56, \h57AF,\h154F, \h9B05,\h15D1, \h158A,\h1232, \hD920,\h12AC,
    \h7CBB,\h312B, \hB011,\h31B5, \h3E9E,\h3656, \hF234,\h36C8, \hF8F1,\h3FD1, \h345B,\h3F4F, \hBAD4,\h38AC, \h767E,\h3832,
    \hAF5E,\h2A9E, \h63F4,\h2A00, \hED7B,\h2DE3, \h21D1,\h2D7D, \h2B14,\h2464, \hE7BE,\h24FA, \h6931,\h2319, \hA59B,\h2387,
    \hF976,\h6256, \h35DC,\h62C8, \hBB53,\h652B, \h77F9,\h65B5, \h7D3C,\h6CAC, \hB196,\h6C32, \h3F19,\h6BD1, \hF3B3,\h6B4F,
    \h2A93,\h79E3, \hE639,\h797D, \h68B6,\h7E9E, \hA41C,\h7E00, \hAED9,\h7719, \h6273,\h7787, \hECFC,\h7064, \h2056,\h70FA,
    \h85CD,\h537D, \h4967,\h53E3, \hC7E8,\h5400, \h0B42,\h549E, \h0187,\h5D87, \hCD2D,\h5D19, \h43A2,\h5AFA, \h8F08,\h5A64,
    \h5628,\h48C8, \h9A82,\h4856, \h140D,\h4FB5, \hD8A7,\h4F2B, \hD262,\h4632, \h1EC8,\h46AC, \h9047,\h414F, \h5CED,\h41D1,
    \h299D,\hC2ED, \hE537,\hC273, \h6BB8,\hC590, \hA712,\hC50E, \hADD7,\hCC17, \h617D,\hCC89, \hEFF2,\hCB6A, \h2358,\hCBF4,
    \hFA78,\hD958, \h36D2,\hD9C6, \hB85D,\hDE25, \h74F7,\hDEBB, \h7E32,\hD7A2, \hB298,\hD73C, \h3C17,\hD0DF, \hF0BD,\hD041,
    \h5526,\hF3C6, \h998C,\hF358, \h1703,\hF4BB, \hDBA9,\hF425, \hD16C,\hFD3C, \h1DC6,\hFDA2, \h9349,\hFA41, \h5FE3,\hFADF,
    \h86C3,\hE873, \h4A69,\hE8ED, \hC4E6,\hEF0E, \h084C,\hEF90, \h0289,\hE689, \hCE23,\hE617, \h40AC,\hE1F4, \h8C06,\hE16A,
    \hD0EB,\hA0BB, \h1C41,\hA025, \h92CE,\hA7C6, \h5E64,\hA758, \h54A1,\hAE41, \h980B,\hAEDF, \h1684,\hA93C, \hDA2E,\hA9A2,
    \h030E,\hBB0E, \hCFA4,\hBB90, \h412B,\hBC73, \h8D81,\hBCED, \h8744,\hB5F4, \h4BEE,\hB56A, \hC561,\hB289, \h09CB,\hB217,
    \hAC50,\h9190, \h60FA,\h910E, \hEE75,\h96ED, \h22DF,\h9673, \h281A,\h9F6A, \hE4B0,\h9FF4, \h6A3F,\h9817, \hA695,\h9889,
    \h7FB5,\h8A25, \hB31F,\h8ABB, \h3D90,\h8D58, \hF13A,\h8DC6, \hFBFF,\h84DF, \h3755,\h8441, \hB9DA,\h83A2, \h7570,\h833C,
    \h533B,\h85DA, \h9F91,\h8544, \h111E,\h82A7, \hDDB4,\h8239, \hD771,\h8B20, \h1BDB,\h8BBE, \h9554,\h8C5D, \h59FE,\h8CC3,
    \h80DE,\h9E6F, \h4C74,\h9EF1, \hC2FB,\h9912, \h0E51,\h998C, \h0494,\h9095, \hC83E,\h900B, \h46B1,\h97E8, \h8A1B,\h9776,
    \h2F80,\hB4F1, \hE32A,\hB46F, \h6DA5,\hB38C, \hA10F,\hB312, \hABCA,\hBA0B, \h6760,\hBA95, \hE9EF,\hBD76, \h2545,\hBDE8,
    \hFC65,\hAF44, \h30CF,\hAFDA, \hBE40,\hA839, \h72EA,\hA8A7, \h782F,\hA1BE, \hB485,\hA120, \h3A0A,\hA6C3, \hF6A0,\hA65D,
    \hAA4D,\hE78C, \h66E7,\hE712, \hE868,\hE0F1, \h24C2,\hE06F, \h2E07,\hE976, \hE2AD,\hE9E8, \h6C22,\hEE0B, \hA088,\hEE95,
    \h79A8,\hFC39, \hB502,\hFCA7, \h3B8D,\hFB44, \hF727,\hFBDA, \hFDE2,\hF2C3, \h3148,\hF25D, \hBFC7,\hF5BE, \h736D,\hF520,
    \hD6F6,\hD6A7, \h1A5C,\hD639, \h94D3,\hD1DA, \h5879,\hD144, \h52BC,\hD85D, \h9E16,\hD8C3, \h1099,\hDF20, \hDC33,\hDFBE,
    \h0513,\hCD12, \hC9B9,\hCD8C, \h4736,\hCA6F, \h8B9C,\hCAF1, \h8159,\hC3E8, \h4DF3,\hC376, \hC37C,\hC495, \h0FD6,\hC40B,
    \h7AA6,\h4737, \hB60C,\h47A9, \h3883,\h404A, \hF429,\h40D4, \hFEEC,\h49CD, \h3246,\h4953, \hBCC9,\h4EB0, \h7063,\h4E2E,
    \hA943,\h5C82, \h65E9,\h5C1C, \hEB66,\h5BFF, \h27CC,\h5B61, \h2D09,\h5278, \hE1A3,\h52E6, \h6F2C,\h5505, \hA386,\h559B,
    \h061D,\h761C, \hCAB7,\h7682, \h4438,\h7161, \h8892,\h71FF, \h8257,\h78E6, \h4EFD,\h7878, \hC072,\h7F9B, \h0CD8,\h7F05,
    \hD5F8,\h6DA9, \h1952,\h6D37, \h97DD,\h6AD4, \h5B77,\h6A4A, \h51B2,\h6353, \h9D18,\h63CD, \h1397,\h642E, \hDF3D,\h64B0,
    \h83D0,\h2561, \h4F7A,\h25FF, \hC1F5,\h221C, \h0D5F,\h2282, \h079A,\h2B9B, \hCB30,\h2B05, \h45BF,\h2CE6, \h8915,\h2C78,
    \h5035,\h3ED4, \h9C9F,\h3E4A, \h1210,\h39A9, \hDEBA,\h3937, \hD47F,\h302E, \h18D5,\h30B0, \h965A,\h3753, \h5AF0,\h37CD,
    \hFF6B,\h144A, \h33C1,\h14D4, \hBD4E,\h1337, \h71E4,\h13A9, \h7B21,\h1AB0, \hB78B,\h1A2E, \h3904,\h1DCD, \hF5AE,\h1D53,
    \h2C8E,\h0FFF, \hE024,\h0F61, \h6EAB,\h0882, \hA201,\h081C, \hA8C4,\h0105, \h646E,\h019B, \hEAE1,\h0678, \h264B,\h06E6
  >>

Table8 ==
  <<
    \h0000,\h0000, \h177B,\h1443, \h2EF6,\h2886, \h398D,\h3CC5, \h5DEC,\h510C, \h4A97,\h454F, \h731A,\h798A, \h6461,\h6DC9,
    \hBBD8,\hA218, \hACA3,\hB65B, \h952E,\h8A9E, \h8255,\h9EDD, \hE634,\hF314, \hF14F,\hE757, \hC8C2,\hDB92, \hDFB9,\hCFD1,
    \hACC0,\h4271, \hBBBB,\h5632, \h8236,\h6AF7, \h954D,\h7EB4, \hF12C,\h137D, \hE657,\h073E, \hDFDA,\h3BFB, \hC8A1,\h2FB8,
    \h1718,\hE069, \h0063,\hF42A, \h39EE,\hC8EF, \h2E95,\hDCAC, \h4AF4,\hB165, \h5D8F,\hA526, \h6402,\h99E3, \h7379,\h8DA0,
    \h82F1,\h82A3, \h958A,\h96E0, \hAC07,\hAA25, \hBB7C,\hBE66, \hDF1D,\hD3AF, \hC866,\hC7EC, \hF1EB,\hFB29, \hE690,\hEF6A,
    \h3929,\h20BB, \h2E52,\h34F8, \h17DF,\h083D, \h00A4,\h1C7E, \h64C5,\h71B7, \h73BE,\h65F4, \h4A33,\h5931, \h5D48,\h4D72,
    \h2E31,\hC0D2, \h394A,\hD491, \h00C7,\hE854, \h17BC,\hFC17, \h73DD,\h91DE, \h64A6,\h859D, \h5D2B,\hB958, \h4A50,\hAD1B,
    \h95E9,\h62CA, \h8292,\h7689, \hBB1F,\h4A4C, \hAC64,\h5E0F, \hC805,\h33C6, \hDF7E,\h2785, \hE6F3,\h1B40, \hF188,\h0F03,
    \hDE92,\h0307, \hC9E9,\h1744, \hF064,\h2B81, \hE71F,\h3FC2, \h837E,\h520B, \h9405,\h4648, \hAD88,\h7A8D, \hBAF3,\h6ECE,
    \h654A,\hA11F, \h7231,\hB55C, \h4BBC,\h8999, \h5CC7,\h9DDA, \h38A6,\hF013, \h2FDD,\hE450, \h1650,\hD895, \h012B,\hCCD6,
    \h7252,\h4176, \h6529,\h5535, \h5CA4,\h69F0, \h4BDF,\h7DB3, \h2FBE,\h107A, \h38C5,\h0439, \h0148,\h38FC, \h1633,\h2CBF,
    \hC98A,\hE36E, \hDEF1,\hF72D, \hE77C,\hCBE8, \hF007,\hDFAB, \h9466,\hB262, \h831D,\hA621, \hBA90,\h9AE4, \hADEB,\h8EA7,
    \h5C63,\h81A4, \h4B18,\h95E7, \h7295,\hA922, \h65EE,\hBD61, \h018F,\hD0A8, \h16F4,\hC4EB, \h2F79,\hF82E, \h3802,\hEC6D,
    \hE7BB,\h23BC, \hF0C0,\h37FF, \hC94D,\h0B3A, \hDE36,\h1F79, \hBA57,\h72B0, \hAD2C,\h66F3, \h94A1,\h5A36, \h83DA,\h4E75,
    \hF0A3,\hC3D5, \hE7D8,\hD796, \hDE55,\hEB53, \hC92E,\hFF10, \hAD4F,\h92D9, \hBA34,\h869A, \h83B9,\hBA5F, \h94C2,\hAE1C,
    \h4B7B,\h61CD, \h5C00,\h758E, \h658D,\h494B, \h72F6,\h5D08, \h1697,\h30C1, \h01EC,\h2482, \h3861,\h1847, \h2F1A,\h0C04,
    \h6655,\h004F, \h712E,\h140C, \h48A3,\h28C9, \h5FD8,\h3C8A, \h3BB9,\h5143, \h2CC2,\h4500, \h154F,\h79C5, \h0234,\h6D86,
    \hDD8D,\hA257, \hCAF6,\hB614, \hF37B,\h8AD1, \hE400,\h9E92, \h8061,\hF35B, \h971A,\hE718, \hAE97,\hDBDD, \hB9EC,\hCF9E,
    \hCA95,\h423E, \hDDEE,\h567D, \hE463,\h6AB8, \hF318,\h7EFB, \h9779,\h1332, \h8002,\h0771, \hB98F,\h3BB4, \hAEF4,\h2FF7,
    \h714D,\hE026, \h6636,\hF465, \h5FBB,\hC8A0, \h48C0,\hDCE3, \h2CA1,\hB12A, \h3BDA,\hA569, \h0257,\h99AC, \h152C,\h8DEF,
    \hE4A4,\h82EC, \hF3DF,\h96AF, \hCA52,\hAA6A, \hDD29,\hBE29, \hB948,\hD3E0, \hAE33,\hC7A3, \h97BE,\hFB66, \h80C5,\hEF25,
    \h5F7C,\h20F4, \h4807,\h34B7, \h718A,\h0872, \h66F1,\h1C31, \h0290,\h71F8, \h15EB,\h65BB, \h2C66,\h597E, \h3B1D,\h4D3D,
    \h4864,\hC09D, \h5F1F,\hD4DE, \h6692,\hE81B, \h71E9,\hFC58, \h1588,\h9191, \h02F3,\h85D2, \h3B7E,\hB917, \h2C05,\hAD54,
    \hF3BC,\h6285, \hE4C7,\h76C6, \hDD4A,\h4A03, \hCA31,\h5E40, \hAE50,\h3389, \hB92B,\h27CA, \h80A6,\h1B0F, \h97DD,\h0F4C,
    \hB8C7,\h0348, \hAFBC,\h170B, \h9631,\h2BCE, \h814A,\h3F8D, \hE52B,\h5244, \hF250,\h4607, \hCBDD,\h7AC2, \hDCA6,\h6E81,
    \h031F,\hA150, \h1464,\hB513, \h2DE9,\h89D6, \h3A92,\h9D95, \h5EF3,\hF05C, \h4988,\hE41F, \h7005,\hD8DA, \h677E,\hCC99,
    \h1407,\h4139, \h037C,\h557A, \h3AF1,\h69BF, \h2D8A,\h7DFC, \h49EB,\h1035, \h5E90,\h0476, \h671D,\h38B3, \h7066,\h2CF0,
    \hAFDF,\hE321, \hB8A4,\hF762, \h8129,\hCBA7, \h9652,\hDFE4, \hF233,\hB22D, \hE548,\hA66E, \hDCC5,\h9AAB, \hCBBE,\h8EE8,
    \h3A36,\h81EB, \h2D4D,\h95A8, \h14C0,\hA96D, \h03BB,\hBD2E, \h67DA,\hD0E7, \h70A1,\hC4A4, \h492C,\hF861, \h5E57,\hEC22,
    \h81EE,\h23F3, \h9695,\h37B0, \hAF18,\h0B75, \hB863,\h1F36, \hDC02,\h72FF, \hCB79,\h66BC, \hF2F4,\h5A79, \hE58F,\h4E3A,
    \h96F6,\hC39A, \h818D,\hD7D9, \hB800,\hEB1C, \hAF7B,\hFF5F, \hCB1A,\h9296, \hDC61,\h86D5, \hE5EC,\hBA10, \hF297,\hAE53,
    \h2D2E,\h6182, \h3A55,\h75C1, \h03D8,\h4904, \h14A3,\h5D47, \h70C2,\h308E, \h67B9,\h24CD, \h5E34,\h1808, \h494F,\h0C4B
  >>

Table9 ==
  <<
    \h0000,\h0000, \hEFC2,\h6B3E, \h04F5,\hD03D, \hEB37,\hBB03, \h09EB,\hA07A, \hE629,\hCB44, \h0D1E,\h7047, \hE2DC,\h1B79,
    \h13D7,\h40F4, \hFC15,\h2BCA, \h1722,\h90C9, \hF8E0,\hFBF7, \h1A3C,\hE08E, \hF5FE,\h8BB0, \h1EC9,\h30B3, \hF10B,\h5B8D,
    \h27AE,\h81E8, \hC86C,\hEAD6, \h235B,\h51D5, \hCC99,\h3AEB, \h2E45,\h2192, \hC187,\h4AAC, \h2AB0,\hF1AF, \hC572,\h9A91,
    \h3479,\hC11C, \hDBBB,\hAA22, \h308C,\h1121, \hDF4E,\h7A1F, \h3D92,\h6166, \hD250,\h0A58, \h3967,\hB15B, \hD6A5,\hDA65,
    \h4F5D,\h03D0, \hA09F,\h68EE, \h4BA8,\hD3ED, \hA46A,\hB8D3, \h46B6,\hA3AA, \hA974,\hC894, \h4243,\h7397, \hAD81,\h18A9,
    \h5C8A,\h4324, \hB348,\h281A, \h587F,\h9319, \hB7BD,\hF827, \h5561,\hE35E, \hBAA3,\h8860, \h5194,\h3363, \hBE56,\h585D,
    \h68F3,\h8238, \h8731,\hE906, \h6C06,\h5205, \h83C4,\h393B, \h6118,\h2242, \h8EDA,\h497C, \h65ED,\hF27F, \h8A2F,\h9941,
    \h7B24,\hC2CC, \h94E6,\hA9F2, \h7FD1,\h12F1, \h9013,\h79CF, \h72CF,\h62B6, \h9D0D,\h0988, \h763A,\hB28B, \h99F8,\hD9B5,
    \h9EBA,\h07A0, \h7178,\h6C9E, \h9A4F,\hD79D, \h758D,\hBCA3, \h9751,\hA7DA, \h7893,\hCCE4, \h93A4,\h77E7, \h7C66,\h1CD9,
    \h8D6D,\h4754, \h62AF,\h2C6A, \h8998,\h9769, \h665A,\hFC57, \h8486,\hE72E, \h6B44,\h8C10, \h8073,\h3713, \h6FB1,\h5C2D,
    \hB914,\h8648, \h56D6,\hED76, \hBDE1,\h5675, \h5223,\h3D4B, \hB0FF,\h2632, \h5F3D,\h4D0C, \hB40A,\hF60F, \h5BC8,\h9D31,
    \hAAC3,\hC6BC, \h4501,\hAD82, \hAE36,\h1681, \h41F4,\h7DBF, \hA328,\h66C6, \h4CEA,\h0DF8, \hA7DD,\hB6FB, \h481F,\hDDC5,
    \hD1E7,\h0470, \h3E25,\h6F4E, \hD512,\hD44D, \h3AD0,\hBF73, \hD80C,\hA40A, \h37CE,\hCF34, \hDCF9,\h7437, \h333B,\h1F09,
    \hC230,\h4484, \h2DF2,\h2FBA, \hC6C5,\h94B9, \h2907,\hFF87, \hCBDB,\hE4FE, \h2419,\h8FC0, \hCF2E,\h34C3, \h20EC,\h5FFD,
    \hF649,\h8598, \h198B,\hEEA6, \hF2BC,\h55A5, \h1D7E,\h3E9B, \hFFA2,\h25E2, \h1060,\h4EDC, \hFB57,\hF5DF, \h1495,\h9EE1,
    \hE59E,\hC56C, \h0A5C,\hAE52, \hE16B,\h1551, \h0EA9,\h7E6F, \hEC75,\h6516, \h03B7,\h0E28, \hE880,\hB52B, \h0742,\hDE15,
    \hE605,\h0901, \h09C7,\h623F, \hE2F0,\hD93C, \h0D32,\hB202, \hEFEE,\hA97B, \h002C,\hC245, \hEB1B,\h7946, \h04D9,\h1278,
    \hF5D2,\h49F5, \h1A10,\h22CB, \hF127,\h99C8, \h1EE5,\hF2F6, \hFC39,\hE98F, \h13FB,\h82B1, \hF8CC,\h39B2, \h170E,\h528C,
    \hC1AB,\h88E9, \h2E69,\hE3D7, \hC55E,\h58D4, \h2A9C,\h33EA, \hC840,\h2893, \h2782,\h43AD, \hCCB5,\hF8AE, \h2377,\h9390,
    \hD27C,\hC81D, \h3DBE,\hA323, \hD689,\h1820, \h394B,\h731E, \hDB97,\h6867, \h3455,\h0359, \hDF62,\hB85A, \h30A0,\hD364,
    \hA958,\h0AD1, \h469A,\h61EF, \hADAD,\hDAEC, \h426F,\hB1D2, \hA0B3,\hAAAB, \h4F71,\hC195, \hA446,\h7A96, \h4B84,\h11A8,
    \hBA8F,\h4A25, \h554D,\h211B, \hBE7A,\h9A18, \h51B8,\hF126, \hB364,\hEA5F, \h5CA6,\h8161, \hB791,\h3A62, \h5853,\h515C,
    \h8EF6,\h8B39, \h6134,\hE007, \h8A03,\h5B04, \h65C1,\h303A, \h871D,\h2B43, \h68DF,\h407D, \h83E8,\hFB7E, \h6C2A,\h9040,
    \h9D21,\hCBCD, \h72E3,\hA0F3, \h99D4,\h1BF0, \h7616,\h70CE, \h94CA,\h6BB7, \h7B08,\h0089, \h903F,\hBB8A, \h7FFD,\hD0B4,
    \h78BF,\h0EA1, \h977D,\h659F, \h7C4A,\hDE9C, \h9388,\hB5A2, \h7154,\hAEDB, \h9E96,\hC5E5, \h75A1,\h7EE6, \h9A63,\h15D8,
    \h6B68,\h4E55, \h84AA,\h256B, \h6F9D,\h9E68, \h805F,\hF556, \h6283,\hEE2F, \h8D41,\h8511, \h6676,\h3E12, \h89B4,\h552C,
    \h5F11,\h8F49, \hB0D3,\hE477, \h5BE4,\h5F74, \hB426,\h344A, \h56FA,\h2F33, \hB938,\h440D, \h520F,\hFF0E, \hBDCD,\h9430,
    \h4CC6,\hCFBD, \hA304,\hA483, \h4833,\h1F80, \hA7F1,\h74BE, \h452D,\h6FC7, \hAAEF,\h04F9, \h41D8,\hBFFA, \hAE1A,\hD4C4,
    \h37E2,\h0D71, \hD820,\h664F, \h3317,\hDD4C, \hDCD5,\hB672, \h3E09,\hAD0B, \hD1CB,\hC635, \h3AFC,\h7D36, \hD53E,\h1608,
    \h2435,\h4D85, \hCBF7,\h26BB, \h20C0,\h9DB8, \hCF02,\hF686, \h2DDE,\hEDFF, \hC21C,\h86C1, \h292B,\h3DC2, \hC6E9,\h56FC,
    \h104C,\h8C99, \hFF8E,\hE7A7, \h14B9,\h5CA4, \hFB7B,\h379A, \h19A7,\h2CE3, \hF665,\h47DD, \h1D52,\hFCDE, \hF290,\h97E0,
    \h039B,\hCC6D, \hEC59,\hA753, \h076E,\h1C50, \hE8AC,\h776E, \h0A70,\h6C17, \hE5B2,\h0729, \h0E85,\hBC2A, \hE147,\hD714
  >>

Table10 ==
  <<
    \h0000,\h0000, \hC18E,\hDFC0, \h586C,\hB9C1, \h99E2,\h6601, \hB0D9,\h7382, \h7157,\hAC42, \hE8B5,\hCA43, \h293B,\h1583,
    \hBAC3,\hE145, \h7B4D,\h3E85, \hE2AF,\h5884, \h2321,\h8744, \h0A1A,\h92C7, \hCB94,\h4D07, \h5276,\h2B06, \h93F8,\hF4C6,
    \hAEF6,\hC4CB, \h6F78,\h1B0B, \hF69A,\h7D0A, \h3714,\hA2CA, \h1E2F,\hB749, \hDFA1,\h6889, \h4643,\h0E88, \h87CD,\hD148,
    \h1435,\h258E, \hD5BB,\hFA4E, \h4C59,\h9C4F, \h8DD7,\h438F, \hA4EC,\h560C, \h6562,\h89CC, \hFC80,\hEFCD, \h3D0E,\h300D,
    \h869C,\h8FD7, \h4712,\h5017, \hDEF0,\h3616, \h1F7E,\hE9D6, \h3645,\hFC55, \hF7CB,\h2395, \h6E29,\h4594, \hAFA7,\h9A54,
    \h3C5F,\h6E92, \hFDD1,\hB152, \h6433,\hD753, \hA5BD,\h0893, \h8C86,\h1D10, \h4D08,\hC2D0, \hD4EA,\hA4D1, \h1564,\h7B11,
    \h286A,\h4B1C, \hE9E4,\h94DC, \h7006,\hF2DD, \hB188,\h2D1D, \h98B3,\h389E, \h593D,\hE75E, \hC0DF,\h815F, \h0151,\h5E9F,
    \h92A9,\hAA59, \h5327,\h7599, \hCAC5,\h1398, \h0B4B,\hCC58, \h2270,\hD9DB, \hE3FE,\h061B, \h7A1C,\h601A, \hBB92,\hBFDA,
    \hD648,\h19EF, \h17C6,\hC62F, \h8E24,\hA02E, \h4FAA,\h7FEE, \h6691,\h6A6D, \hA71F,\hB5AD, \h3EFD,\hD3AC, \hFF73,\h0C6C,
    \h6C8B,\hF8AA, \hAD05,\h276A, \h34E7,\h416B, \hF569,\h9EAB, \hDC52,\h8B28, \h1DDC,\h54E8, \h843E,\h32E9, \h45B0,\hED29,
    \h78BE,\hDD24, \hB930,\h02E4, \h20D2,\h64E5, \hE15C,\hBB25, \hC867,\hAEA6, \h09E9,\h7166, \h900B,\h1767, \h5185,\hC8A7,
    \hC27D,\h3C61, \h03F3,\hE3A1, \h9A11,\h85A0, \h5B9F,\h5A60, \h72A4,\h4FE3, \hB32A,\h9023, \h2AC8,\hF622, \hEB46,\h29E2,
    \h50D4,\h9638, \h915A,\h49F8, \h08B8,\h2FF9, \hC936,\hF039, \hE00D,\hE5BA, \h2183,\h3A7A, \hB861,\h5C7B, \h79EF,\h83BB,
    \hEA17,\h777D, \h2B99,\hA8BD, \hB27B,\hCEBC, \h73F5,\h117C, \h5ACE,\h04FF, \h9B40,\hDB3F, \h02A2,\hBD3E, \hC32C,\h62FE,
    \hFE22,\h52F3, \h3FAC,\h8D33, \hA64E,\hEB32, \h67C0,\h34F2, \h4EFB,\h2171, \h8F75,\hFEB1, \h1697,\h98B0, \hD719,\h4770,
    \h44E1,\hB3B6, \h856F,\h6C76, \h1C8D,\h0A77, \hDD03,\hD5B7, \hF438,\hC034, \h35B6,\h1FF4, \hAC54,\h79F5, \h6DDA,\hA635,
    \h77E1,\h359F, \hB66F,\hEA5F, \h2F8D,\h8C5E, \hEE03,\h539E, \hC738,\h461D, \h06B6,\h99DD, \h9F54,\hFFDC, \h5EDA,\h201C,
    \hCD22,\hD4DA, \h0CAC,\h0B1A, \h954E,\h6D1B, \h54C0,\hB2DB, \h7DFB,\hA758, \hBC75,\h7898, \h2597,\h1E99, \hE419,\hC159,
    \hD917,\hF154, \h1899,\h2E94, \h817B,\h4895, \h40F5,\h9755, \h69CE,\h82D6, \hA840,\h5D16, \h31A2,\h3B17, \hF02C,\hE4D7,
    \h63D4,\h1011, \hA25A,\hCFD1, \h3BB8,\hA9D0, \hFA36,\h7610, \hD30D,\h6393, \h1283,\hBC53, \h8B61,\hDA52, \h4AEF,\h0592,
    \hF17D,\hBA48, \h30F3,\h6588, \hA911,\h0389, \h689F,\hDC49, \h41A4,\hC9CA, \h802A,\h160A, \h19C8,\h700B, \hD846,\hAFCB,
    \h4BBE,\h5B0D, \h8A30,\h84CD, \h13D2,\hE2CC, \hD25C,\h3D0C, \hFB67,\h288F, \h3AE9,\hF74F, \hA30B,\h914E, \h6285,\h4E8E,
    \h5F8B,\h7E83, \h9E05,\hA143, \h07E7,\hC742, \hC669,\h1882, \hEF52,\h0D01, \h2EDC,\hD2C1, \hB73E,\hB4C0, \h76B0,\h6B00,
    \hE548,\h9FC6, \h24C6,\h4006, \hBD24,\h2607, \h7CAA,\hF9C7, \h5591,\hEC44, \h941F,\h3384, \h0DFD,\h5585, \hCC73,\h8A45,
    \hA1A9,\h2C70, \h6027,\hF3B0, \hF9C5,\h95B1, \h384B,\h4A71, \h1170,\h5FF2, \hD0FE,\h8032, \h491C,\hE633, \h8892,\h39F3,
    \h1B6A,\hCD35, \hDAE4,\h12F5, \h4306,\h74F4, \h8288,\hAB34, \hABB3,\hBEB7, \h6A3D,\h6177, \hF3DF,\h0776, \h3251,\hD8B6,
    \h0F5F,\hE8BB, \hCED1,\h377B, \h5733,\h517A, \h96BD,\h8EBA, \hBF86,\h9B39, \h7E08,\h44F9, \hE7EA,\h22F8, \h2664,\hFD38,
    \hB59C,\h09FE, \h7412,\hD63E, \hEDF0,\hB03F, \h2C7E,\h6FFF, \h0545,\h7A7C, \hC4CB,\hA5BC, \h5D29,\hC3BD, \h9CA7,\h1C7D,
    \h2735,\hA3A7, \hE6BB,\h7C67, \h7F59,\h1A66, \hBED7,\hC5A6, \h97EC,\hD025, \h5662,\h0FE5, \hCF80,\h69E4, \h0E0E,\hB624,
    \h9DF6,\h42E2, \h5C78,\h9D22, \hC59A,\hFB23, \h0414,\h24E3, \h2D2F,\h3160, \hECA1,\hEEA0, \h7543,\h88A1, \hB4CD,\h5761,
    \h89C3,\h676C, \h484D,\hB8AC, \hD1AF,\hDEAD, \h1021,\h016D, \h391A,\h14EE, \hF894,\hCB2E, \h6176,\hAD2F, \hA0F8,\h72EF,
    \h3300,\h8629, \hF28E,\h59E9, \h6B6C,\h3FE8, \hAAE2,\hE028, \h83D9,\hF5AB, \h4257,\h2A6B, \hDBB5,\h4C6A, \h1A3B,\h93AA
  >>

Table11 ==
  <<
    \h0000,\h0000, \h9BA5,\h4C6F, \hEC3B,\h9E9F, \h779E,\hD2F0, \h0306,\h3B7F, \h98A3,\h7710, \hEF3D,\hA5E0, \h7498,\hE98F,
    \h060C,\h76FE, \h9DA9,\h3A91, \hEA37,\hE861, \h7192,\hA40E, \h050A,\h4D81, \h9EAF,\h01EE, \hE931,\hD31E, \h7294,\h9F71,
    \h0C18,\hEDFC, \h97BD,\hA193, \hE023,\h7363, \h7B86,\h3F0C, \h0F1E,\hD683, \h94BB,\h9AEC, \hE325,\h481C, \h7880,\h0473,
    \h0A14,\h9B02, \h91B1,\hD76D, \hE62F,\h059D, \h7D8A,\h49F2, \h0912,\hA07D, \h92B7,\hEC12, \hE529,\h3EE2, \h7E8C,\h728D,
    \h1831,\hDBF8, \h8394,\h9797, \hF40A,\h4567, \h6FAF,\h0908, \h1B37,\hE087, \h8092,\hACE8, \hF70C,\h7E18, \h6CA9,\h3277,
    \h1E3D,\hAD06, \h8598,\hE169, \hF206,\h3399, \h69A3,\h7FF6, \h1D3B,\h9679, \h869E,\hDA16, \hF100,\h08E6, \h6AA5,\h4489,
    \h1429,\h3604, \h8F8C,\h7A6B, \hF812,\hA89B, \h63B7,\hE4F4, \h172F,\h0D7B, \h8C8A,\h4114, \hFB14,\h93E4, \h60B1,\hDF8B,
    \h1225,\h40FA, \h8980,\h0C95, \hFE1E,\hDE65, \h65BB,\h920A, \h1123,\h7B85, \h8A86,\h37EA, \hFD18,\hE51A, \h66BD,\hA975,
    \h3063,\hB7F0, \hABC6,\hFB9F, \hDC58,\h296F, \h47FD,\h6500, \h3365,\h8C8F, \hA8C0,\hC0E0, \hDF5E,\h1210, \h44FB,\h5E7F,
    \h366F,\hC10E, \hADCA,\h8D61, \hDA54,\h5F91, \h41F1,\h13FE, \h3569,\hFA71, \hAECC,\hB61E, \hD952,\h64EE, \h42F7,\h2881,
    \h3C7B,\h5A0C, \hA7DE,\h1663, \hD040,\hC493, \h4BE5,\h88FC, \h3F7D,\h6173, \hA4D8,\h2D1C, \hD346,\hFFEC, \h48E3,\hB383,
    \h3A77,\h2CF2, \hA1D2,\h609D, \hD64C,\hB26D, \h4DE9,\hFE02, \h3971,\h178D, \hA2D4,\h5BE2, \hD54A,\h8912, \h4EEF,\hC57D,
    \h2852,\h6C08, \hB3F7,\h2067, \hC469,\hF297, \h5FCC,\hBEF8, \h2B54,\h5777, \hB0F1,\h1B18, \hC76F,\hC9E8, \h5CCA,\h8587,
    \h2E5E,\h1AF6, \hB5FB,\h5699, \hC265,\h8469, \h59C0,\hC806, \h2D58,\h2189, \hB6FD,\h6DE6, \hC163,\hBF16, \h5AC6,\hF379,
    \h244A,\h81F4, \hBFEF,\hCD9B, \hC871,\h1F6B, \h53D4,\h5304, \h274C,\hBA8B, \hBCE9,\hF6E4, \hCB77,\h2414, \h50D2,\h687B,
    \h2246,\hF70A, \hB9E3,\hBB65, \hCE7D,\h6995, \h55D8,\h25FA, \h2140,\hCC75, \hBAE5,\h801A, \hCD7B,\h52EA, \h56DE,\h1E85,
    \h60C7,\h6FE0, \hFB62,\h238F, \h8CFC,\hF17F, \h1759,\hBD10, \h63C1,\h549F, \hF864,\h18F0, \h8FFA,\hCA00, \h145F,\h866F,
    \h66CB,\h191E, \hFD6E,\h5571, \h8AF0,\h8781, \h1155,\hCBEE, \h65CD,\h2261, \hFE68,\h6E0E, \h89F6,\hBCFE, \h1253,\hF091,
    \h6CDF,\h821C, \hF77A,\hCE73, \h80E4,\h1C83, \h1B41,\h50EC, \h6FD9,\hB963, \hF47C,\hF50C, \h83E2,\h27FC, \h1847,\h6B93,
    \h6AD3,\hF4E2, \hF176,\hB88D, \h86E8,\h6A7D, \h1D4D,\h2612, \h69D5,\hCF9D, \hF270,\h83F2, \h85EE,\h5102, \h1E4B,\h1D6D,
    \h78F6,\hB418, \hE353,\hF877, \h94CD,\h2A87, \h0F68,\h66E8, \h7BF0,\h8F67, \hE055,\hC308, \h97CB,\h11F8, \h0C6E,\h5D97,
    \h7EFA,\hC2E6, \hE55F,\h8E89, \h92C1,\h5C79, \h0964,\h1016, \h7DFC,\hF999, \hE659,\hB5F6, \h91C7,\h6706, \h0A62,\h2B69,
    \h74EE,\h59E4, \hEF4B,\h158B, \h98D5,\hC77B, \h0370,\h8B14, \h77E8,\h629B, \hEC4D,\h2EF4, \h9BD3,\hFC04, \h0076,\hB06B,
    \h72E2,\h2F1A, \hE947,\h6375, \h9ED9,\hB185, \h057C,\hFDEA, \h71E4,\h1465, \hEA41,\h580A, \h9DDF,\h8AFA, \h067A,\hC695,
    \h50A4,\hD810, \hCB01,\h947F, \hBC9F,\h468F, \h273A,\h0AE0, \h53A2,\hE36F, \hC807,\hAF00, \hBF99,\h7DF0, \h243C,\h319F,
    \h56A8,\hAEEE, \hCD0D,\hE281, \hBA93,\h3071, \h2136,\h7C1E, \h55AE,\h9591, \hCE0B,\hD9FE, \hB995,\h0B0E, \h2230,\h4761,
    \h5CBC,\h35EC, \hC719,\h7983, \hB087,\hAB73, \h2B22,\hE71C, \h5FBA,\h0E93, \hC41F,\h42FC, \hB381,\h900C, \h2824,\hDC63,
    \h5AB0,\h4312, \hC115,\h0F7D, \hB68B,\hDD8D, \h2D2E,\h91E2, \h59B6,\h786D, \hC213,\h3402, \hB58D,\hE6F2, \h2E28,\hAA9D,
    \h4895,\h03E8, \hD330,\h4F87, \hA4AE,\h9D77, \h3F0B,\hD118, \h4B93,\h3897, \hD036,\h74F8, \hA7A8,\hA608, \h3C0D,\hEA67,
    \h4E99,\h7516, \hD53C,\h3979, \hA2A2,\hEB89, \h3907,\hA7E6, \h4D9F,\h4E69, \hD63A,\h0206, \hA1A4,\hD0F6, \h3A01,\h9C99,
    \h448D,\hEE14, \hDF28,\hA27B, \hA8B6,\h708B, \h3313,\h3CE4, \h478B,\hD56B, \hDC2E,\h9904, \hABB0,\h4BF4, \h3015,\h079B,
    \h4281,\h98EA, \hD924,\hD485, \hAEBA,\h0675, \h351F,\h4A1A, \h4187,\hA395, \hDA22,\hEFFA, \hADBC,\h3D0A, \h3619,\h7165
  >>

Table12 ==
  <<
    \h0000,\h0000, \hDD96,\hD985, \h605C,\hB54B, \hBDCA,\h6CCE, \hC0B9,\h6A96, \h1D2F,\hB313, \hA0E5,\hDFDD, \h7D73,\h0658,
    \h5A03,\hD36D, \h8795,\h0AE8, \h3A5F,\h6626, \hE7C9,\hBFA3, \h9ABA,\hB9FB, \h472C,\h607E, \hFAE6,\h0CB0, \h2770,\hD535,
    \hB407,\hA6DA, \h6991,\h7F5F, \hD45B,\h1391, \h09CD,\hCA14, \h74BE,\hCC4C, \hA928,\h15C9, \h14E2,\h7907, \hC974,\hA082,
    \hEE04,\h75B7, \h3392,\hAC32, \h8E58,\hC0FC, \h53CE,\h1979, \h2EBD,\h1F21, \hF32B,\hC6A4, \h4EE1,\hAA6A, \h9377,\h73EF,
    \hB37E,\h4BF5, \h6EE8,\h9270, \hD322,\hFEBE, \h0EB4,\h273B, \h73C7,\h2163, \hAE51,\hF8E6, \h139B,\h9428, \hCE0D,\h4DAD,
    \hE97D,\h9898, \h34EB,\h411D, \h8921,\h2DD3, \h54B7,\hF456, \h29C4,\hF20E, \hF452,\h2B8B, \h4998,\h4745, \h940E,\h9EC0,
    \h0779,\hED2F, \hDAEF,\h34AA, \h6725,\h5864, \hBAB3,\h81E1, \hC7C0,\h87B9, \h1A56,\h5E3C, \hA79C,\h32F2, \h7A0A,\hEB77,
    \h5D7A,\h3E42, \h80EC,\hE7C7, \h3D26,\h8B09, \hE0B0,\h528C, \h9DC3,\h54D4, \h4055,\h8D51, \hFD9F,\hE19F, \h2009,\h381A,
    \hBD8D,\h91AB, \h601B,\h482E, \hDDD1,\h24E0, \h0047,\hFD65, \h7D34,\hFB3D, \hA0A2,\h22B8, \h1D68,\h4E76, \hC0FE,\h97F3,
    \hE78E,\h42C6, \h3A18,\h9B43, \h87D2,\hF78D, \h5A44,\h2E08, \h2737,\h2850, \hFAA1,\hF1D5, \h476B,\h9D1B, \h9AFD,\h449E,
    \h098A,\h3771, \hD41C,\hEEF4, \h69D6,\h823A, \hB440,\h5BBF, \hC933,\h5DE7, \h14A5,\h8462, \hA96F,\hE8AC, \h74F9,\h3129,
    \h5389,\hE41C, \h8E1F,\h3D99, \h33D5,\h5157, \hEE43,\h88D2, \h9330,\h8E8A, \h4EA6,\h570F, \hF36C,\h3BC1, \h2EFA,\hE244,
    \h0EF3,\hDA5E, \hD365,\h03DB, \h6EAF,\h6F15, \hB339,\hB690, \hCE4A,\hB0C8, \h13DC,\h694D, \hAE16,\h0583, \h7380,\hDC06,
    \h54F0,\h0933, \h8966,\hD0B6, \h34AC,\hBC78, \hE93A,\h65FD, \h9449,\h63A5, \h49DF,\hBA20, \hF415,\hD6EE, \h2983,\h0F6B,
    \hBAF4,\h7C84, \h6762,\hA501, \hDAA8,\hC9CF, \h073E,\h104A, \h7A4D,\h1612, \hA7DB,\hCF97, \h1A11,\hA359, \hC787,\h7ADC,
    \hE0F7,\hAFE9, \h3D61,\h766C, \h80AB,\h1AA2, \h5D3D,\hC327, \h204E,\hC57F, \hFDD8,\h1CFA, \h4012,\h7034, \h9D84,\hA9B1,
    \hA06A,\h2517, \h7DFC,\hFC92, \hC036,\h905C, \h1DA0,\h49D9, \h60D3,\h4F81, \hBD45,\h9604, \h008F,\hFACA, \hDD19,\h234F,
    \hFA69,\hF67A, \h27FF,\h2FFF, \h9A35,\h4331, \h47A3,\h9AB4, \h3AD0,\h9CEC, \hE746,\h4569, \h5A8C,\h29A7, \h871A,\hF022,
    \h146D,\h83CD, \hC9FB,\h5A48, \h7431,\h3686, \hA9A7,\hEF03, \hD4D4,\hE95B, \h0942,\h30DE, \hB488,\h5C10, \h691E,\h8595,
    \h4E6E,\h50A0, \h93F8,\h8925, \h2E32,\hE5EB, \hF3A4,\h3C6E, \h8ED7,\h3A36, \h5341,\hE3B3, \hEE8B,\h8F7D, \h331D,\h56F8,
    \h1314,\h6EE2, \hCE82,\hB767, \h7348,\hDBA9, \hAEDE,\h022C, \hD3AD,\h0474, \h0E3B,\hDDF1, \hB3F1,\hB13F, \h6E67,\h68BA,
    \h4917,\hBD8F, \h9481,\h640A, \h294B,\h08C4, \hF4DD,\hD141, \h89AE,\hD719, \h5438,\h0E9C, \hE9F2,\h6252, \h3464,\hBBD7,
    \hA713,\hC838, \h7A85,\h11BD, \hC74F,\h7D73, \h1AD9,\hA4F6, \h67AA,\hA2AE, \hBA3C,\h7B2B, \h07F6,\h17E5, \hDA60,\hCE60,
    \hFD10,\h1B55, \h2086,\hC2D0, \h9D4C,\hAE1E, \h40DA,\h779B, \h3DA9,\h71C3, \hE03F,\hA846, \h5DF5,\hC488, \h8063,\h1D0D,
    \h1DE7,\hB4BC, \hC071,\h6D39, \h7DBB,\h01F7, \hA02D,\hD872, \hDD5E,\hDE2A, \h00C8,\h07AF, \hBD02,\h6B61, \h6094,\hB2E4,
    \h47E4,\h67D1, \h9A72,\hBE54, \h27B8,\hD29A, \hFA2E,\h0B1F, \h875D,\h0D47, \h5ACB,\hD4C2, \hE701,\hB80C, \h3A97,\h6189,
    \hA9E0,\h1266, \h7476,\hCBE3, \hC9BC,\hA72D, \h142A,\h7EA8, \h6959,\h78F0, \hB4CF,\hA175, \h0905,\hCDBB, \hD493,\h143E,
    \hF3E3,\hC10B, \h2E75,\h188E, \h93BF,\h7440, \h4E29,\hADC5, \h335A,\hAB9D, \hEECC,\h7218, \h5306,\h1ED6, \h8E90,\hC753,
    \hAE99,\hFF49, \h730F,\h26CC, \hCEC5,\h4A02, \h1353,\h9387, \h6E20,\h95DF, \hB3B6,\h4C5A, \h0E7C,\h2094, \hD3EA,\hF911,
    \hF49A,\h2C24, \h290C,\hF5A1, \h94C6,\h996F, \h4950,\h40EA, \h3423,\h46B2, \hE9B5,\h9F37, \h547F,\hF3F9, \h89E9,\h2A7C,
    \h1A9E,\h5993, \hC708,\h8016, \h7AC2,\hECD8, \hA754,\h355D, \hDA27,\h3305, \h07B1,\hEA80, \hBA7B,\h864E, \h67ED,\h5FCB,
    \h409D,\h8AFE, \h9D0B,\h537B, \h20C1,\h3FB5, \hFD57,\hE630, \h8024,\hE068, \h5DB2,\h39ED, \hE078,\h5523, \h3DEE,\h8CA6
  >>

Table13 ==
  <<
    \h0000,\h0000, \h9D0F,\hE176, \hE16E,\hC4AD, \h7C61,\h25DB, \h19AC,\h8F1B, \h84A3,\h6E6D, \hF8C2,\h4BB6, \h65CD,\hAAC0,
    \h3359,\h1E36, \hAE56,\hFF40, \hD237,\hDA9B, \h4F38,\h3BED, \h2AF5,\h912D, \hB7FA,\h705B, \hCB9B,\h5580, \h5694,\hB4F6,
    \h66B2,\h3C6C, \hFBBD,\hDD1A, \h87DC,\hF8C1, \h1AD3,\h19B7, \h7F1E,\hB377, \hE211,\h5201, \h9E70,\h77DA, \h037F,\h96AC,
    \h55EB,\h225A, \hC8E4,\hC32C, \hB485,\hE6F7, \h298A,\h0781, \h4C47,\hAD41, \hD148,\h4C37, \hAD29,\h69EC, \h3026,\h889A,
    \hCD64,\h78D8, \h506B,\h99AE, \h2C0A,\hBC75, \hB105,\h5D03, \hD4C8,\hF7C3, \h49C7,\h16B5, \h35A6,\h336E, \hA8A9,\hD218,
    \hFE3D,\h66EE, \h6332,\h8798, \h1F53,\hA243, \h825C,\h4335, \hE791,\hE9F5, \h7A9E,\h0883, \h06FF,\h2D58, \h9BF0,\hCC2E,
    \hABD6,\h44B4, \h36D9,\hA5C2, \h4AB8,\h8019, \hD7B7,\h616F, \hB27A,\hCBAF, \h2F75,\h2AD9, \h5314,\h0F02, \hCE1B,\hEE74,
    \h988F,\h5A82, \h0580,\hBBF4, \h79E1,\h9E2F, \hE4EE,\h7F59, \h8123,\hD599, \h1C2C,\h34EF, \h604D,\h1134, \hFD42,\hF042,
    \h41B9,\hF7F1, \hDCB6,\h1687, \hA0D7,\h335C, \h3DD8,\hD22A, \h5815,\h78EA, \hC51A,\h999C, \hB97B,\hBC47, \h2474,\h5D31,
    \h72E0,\hE9C7, \hEFEF,\h08B1, \h938E,\h2D6A, \h0E81,\hCC1C, \h6B4C,\h66DC, \hF643,\h87AA, \h8A22,\hA271, \h172D,\h4307,
    \h270B,\hCB9D, \hBA04,\h2AEB, \hC665,\h0F30, \h5B6A,\hEE46, \h3EA7,\h4486, \hA3A8,\hA5F0, \hDFC9,\h802B, \h42C6,\h615D,
    \h1452,\hD5AB, \h895D,\h34DD, \hF53C,\h1106, \h6833,\hF070, \h0DFE,\h5AB0, \h90F1,\hBBC6, \hEC90,\h9E1D, \h719F,\h7F6B,
    \h8CDD,\h8F29, \h11D2,\h6E5F, \h6DB3,\h4B84, \hF0BC,\hAAF2, \h9571,\h0032, \h087E,\hE144, \h741F,\hC49F, \hE910,\h25E9,
    \hBF84,\h911F, \h228B,\h7069, \h5EEA,\h55B2, \hC3E5,\hB4C4, \hA628,\h1E04, \h3B27,\hFF72, \h4746,\hDAA9, \hDA49,\h3BDF,
    \hEA6F,\hB345, \h7760,\h5233, \h0B01,\h77E8, \h960E,\h969E, \hF3C3,\h3C5E, \h6ECC,\hDD28, \h12AD,\hF8F3, \h8FA2,\h1985,
    \hD936,\hAD73, \h4439,\h4C05, \h3858,\h69DE, \hA557,\h88A8, \hC09A,\h2268, \h5D95,\hC31E, \h21F4,\hE6C5, \hBCFB,\h07B3,
    \h8373,\hEFE2, \h1E7C,\h0E94, \h621D,\h2B4F, \hFF12,\hCA39, \h9ADF,\h60F9, \h07D0,\h818F, \h7BB1,\hA454, \hE6BE,\h4522,
    \hB02A,\hF1D4, \h2D25,\h10A2, \h5144,\h3579, \hCC4B,\hD40F, \hA986,\h7ECF, \h3489,\h9FB9, \h48E8,\hBA62, \hD5E7,\h5B14,
    \hE5C1,\hD38E, \h78CE,\h32F8, \h04AF,\h1723, \h99A0,\hF655, \hFC6D,\h5C95, \h6162,\hBDE3, \h1D03,\h9838, \h800C,\h794E,
    \hD698,\hCDB8, \h4B97,\h2CCE, \h37F6,\h0915, \hAAF9,\hE863, \hCF34,\h42A3, \h523B,\hA3D5, \h2E5A,\h860E, \hB355,\h6778,
    \h4E17,\h973A, \hD318,\h764C, \hAF79,\h5397, \h3276,\hB2E1, \h57BB,\h1821, \hCAB4,\hF957, \hB6D5,\hDC8C, \h2BDA,\h3DFA,
    \h7D4E,\h890C, \hE041,\h687A, \h9C20,\h4DA1, \h012F,\hACD7, \h64E2,\h0617, \hF9ED,\hE761, \h858C,\hC2BA, \h1883,\h23CC,
    \h28A5,\hAB56, \hB5AA,\h4A20, \hC9CB,\h6FFB, \h54C4,\h8E8D, \h3109,\h244D, \hAC06,\hC53B, \hD067,\hE0E0, \h4D68,\h0196,
    \h1BFC,\hB560, \h86F3,\h5416, \hFA92,\h71CD, \h679D,\h90BB, \h0250,\h3A7B, \h9F5F,\hDB0D, \hE33E,\hFED6, \h7E31,\h1FA0,
    \hC2CA,\h1813, \h5FC5,\hF965, \h23A4,\hDCBE, \hBEAB,\h3DC8, \hDB66,\h9708, \h4669,\h767E, \h3A08,\h53A5, \hA707,\hB2D3,
    \hF193,\h0625, \h6C9C,\hE753, \h10FD,\hC288, \h8DF2,\h23FE, \hE83F,\h893E, \h7530,\h6848, \h0951,\h4D93, \h945E,\hACE5,
    \hA478,\h247F, \h3977,\hC509, \h4516,\hE0D2, \hD819,\h01A4, \hBDD4,\hAB64, \h20DB,\h4A12, \h5CBA,\h6FC9, \hC1B5,\h8EBF,
    \h9721,\h3A49, \h0A2E,\hDB3F, \h764F,\hFEE4, \hEB40,\h1F92, \h8E8D,\hB552, \h1382,\h5424, \h6FE3,\h71FF, \hF2EC,\h9089,
    \h0FAE,\h60CB, \h92A1,\h81BD, \hEEC0,\hA466, \h73CF,\h4510, \h1602,\hEFD0, \h8B0D,\h0EA6, \hF76C,\h2B7D, \h6A63,\hCA0B,
    \h3CF7,\h7EFD, \hA1F8,\h9F8B, \hDD99,\hBA50, \h4096,\h5B26, \h255B,\hF1E6, \hB854,\h1090, \hC435,\h354B, \h593A,\hD43D,
    \h691C,\h5CA7, \hF413,\hBDD1, \h8872,\h980A, \h157D,\h797C, \h70B0,\hD3BC, \hEDBF,\h32CA, \h91DE,\h1711, \h0CD1,\hF667,
    \h5A45,\h4291, \hC74A,\hA3E7, \hBB2B,\h863C, \h2624,\h674A, \h43E9,\hCD8A, \hDEE6,\h2CFC, \hA287,\h0927, \h3F88,\hE851
  >>

Table14 ==
  <<
    \h0000,\h0000, \hB9FB,\hDBE8, \hA886,\hB191, \h117D,\h6A79, \h8A7C,\h6563, \h3387,\hBE8B, \h22FA,\hD4F2, \h9B01,\h0F1A,
    \hCF89,\hCC87, \h7672,\h176F, \h670F,\h7D16, \hDEF4,\hA6FE, \h45F5,\hA9E4, \hFC0E,\h720C, \hED73,\h1875, \h5488,\hC39D,
    \h4462,\h9F4F, \hFD99,\h44A7, \hECE4,\h2EDE, \h551F,\hF536, \hCE1E,\hFA2C, \h77E5,\h21C4, \h6698,\h4BBD, \hDF63,\h9055,
    \h8BEB,\h53C8, \h3210,\h8820, \h236D,\hE259, \h9A96,\h39B1, \h0197,\h36AB, \hB86C,\hED43, \hA911,\h873A, \h10EA,\h5CD2,
    \h88C5,\h3E9E, \h313E,\hE576, \h2043,\h8F0F, \h99B8,\h54E7, \h02B9,\h5BFD, \hBB42,\h8015, \hAA3F,\hEA6C, \h13C4,\h3184,
    \h474C,\hF219, \hFEB7,\h29F1, \hEFCA,\h4388, \h5631,\h9860, \hCD30,\h977A, \h74CB,\h4C92, \h65B6,\h26EB, \hDC4D,\hFD03,
    \hCCA7,\hA1D1, \h755C,\h7A39, \h6421,\h1040, \hDDDA,\hCBA8, \h46DB,\hC4B2, \hFF20,\h1F5A, \hEE5D,\h7523, \h57A6,\hAECB,
    \h032E,\h6D56, \hBAD5,\hB6BE, \hABA8,\hDCC7, \h1253,\h072F, \h8952,\h0835, \h30A9,\hD3DD, \h21D4,\hB9A4, \h982F,\h624C,
    \hCAFB,\h7B7D, \h7300,\hA095, \h627D,\hCAEC, \hDB86,\h1104, \h4087,\h1E1E, \hF97C,\hC5F6, \hE801,\hAF8F, \h51FA,\h7467,
    \h0572,\hB7FA, \hBC89,\h6C12, \hADF4,\h066B, \h140F,\hDD83, \h8F0E,\hD299, \h36F5,\h0971, \h2788,\h6308, \h9E73,\hB8E0,
    \h8E99,\hE432, \h3762,\h3FDA, \h261F,\h55A3, \h9FE4,\h8E4B, \h04E5,\h8151, \hBD1E,\h5AB9, \hAC63,\h30C0, \h1598,\hEB28,
    \h4110,\h28B5, \hF8EB,\hF35D, \hE996,\h9924, \h506D,\h42CC, \hCB6C,\h4DD6, \h7297,\h963E, \h63EA,\hFC47, \hDA11,\h27AF,
    \h423E,\h45E3, \hFBC5,\h9E0B, \hEAB8,\hF472, \h5343,\h2F9A, \hC842,\h2080, \h71B9,\hFB68, \h60C4,\h9111, \hD93F,\h4AF9,
    \h8DB7,\h8964, \h344C,\h528C, \h2531,\h38F5, \h9CCA,\hE31D, \h07CB,\hEC07, \hBE30,\h37EF, \hAF4D,\h5D96, \h16B6,\h867E,
    \h065C,\hDAAC, \hBFA7,\h0144, \hAEDA,\h6B3D, \h1721,\hB0D5, \h8C20,\hBFCF, \h35DB,\h6427, \h24A6,\h0E5E, \h9D5D,\hD5B6,
    \hC9D5,\h162B, \h702E,\hCDC3, \h6153,\hA7BA, \hD8A8,\h7C52, \h43A9,\h7348, \hFA52,\hA8A0, \hEB2F,\hC2D9, \h52D4,\h1931,
    \h4E87,\hF0BB, \hF77C,\h2B53, \hE601,\h412A, \h5FFA,\h9AC2, \hC4FB,\h95D8, \h7D00,\h4E30, \h6C7D,\h2449, \hD586,\hFFA1,
    \h810E,\h3C3C, \h38F5,\hE7D4, \h2988,\h8DAD, \h9073,\h5645, \h0B72,\h595F, \hB289,\h82B7, \hA3F4,\hE8CE, \h1A0F,\h3326,
    \h0AE5,\h6FF4, \hB31E,\hB41C, \hA263,\hDE65, \h1B98,\h058D, \h8099,\h0A97, \h3962,\hD17F, \h281F,\hBB06, \h91E4,\h60EE,
    \hC56C,\hA373, \h7C97,\h789B, \h6DEA,\h12E2, \hD411,\hC90A, \h4F10,\hC610, \hF6EB,\h1DF8, \hE796,\h7781, \h5E6D,\hAC69,
    \hC642,\hCE25, \h7FB9,\h15CD, \h6EC4,\h7FB4, \hD73F,\hA45C, \h4C3E,\hAB46, \hF5C5,\h70AE, \hE4B8,\h1AD7, \h5D43,\hC13F,
    \h09CB,\h02A2, \hB030,\hD94A, \hA14D,\hB333, \h18B6,\h68DB, \h83B7,\h67C1, \h3A4C,\hBC29, \h2B31,\hD650, \h92CA,\h0DB8,
    \h8220,\h516A, \h3BDB,\h8A82, \h2AA6,\hE0FB, \h935D,\h3B13, \h085C,\h3409, \hB1A7,\hEFE1, \hA0DA,\h8598, \h1921,\h5E70,
    \h4DA9,\h9DED, \hF452,\h4605, \hE52F,\h2C7C, \h5CD4,\hF794, \hC7D5,\hF88E, \h7E2E,\h2366, \h6F53,\h491F, \hD6A8,\h92F7,
    \h847C,\h8BC6, \h3D87,\h502E, \h2CFA,\h3A57, \h9501,\hE1BF, \h0E00,\hEEA5, \hB7FB,\h354D, \hA686,\h5F34, \h1F7D,\h84DC,
    \h4BF5,\h4741, \hF20E,\h9CA9, \hE373,\hF6D0, \h5A88,\h2D38, \hC189,\h2222, \h7872,\hF9CA, \h690F,\h93B3, \hD0F4,\h485B,
    \hC01E,\h1489, \h79E5,\hCF61, \h6898,\hA518, \hD163,\h7EF0, \h4A62,\h71EA, \hF399,\hAA02, \hE2E4,\hC07B, \h5B1F,\h1B93,
    \h0F97,\hD80E, \hB66C,\h03E6, \hA711,\h699F, \h1EEA,\hB277, \h85EB,\hBD6D, \h3C10,\h6685, \h2D6D,\h0CFC, \h9496,\hD714,
    \h0CB9,\hB558, \hB542,\h6EB0, \hA43F,\h04C9, \h1DC4,\hDF21, \h86C5,\hD03B, \h3F3E,\h0BD3, \h2E43,\h61AA, \h97B8,\hBA42,
    \hC330,\h79DF, \h7ACB,\hA237, \h6BB6,\hC84E, \hD24D,\h13A6, \h494C,\h1CBC, \hF0B7,\hC754, \hE1CA,\hAD2D, \h5831,\h76C5,
    \h48DB,\h2A17, \hF120,\hF1FF, \hE05D,\h9B86, \h59A6,\h406E, \hC2A7,\h4F74, \h7B5C,\h949C, \h6A21,\hFEE5, \hD3DA,\h250D,
    \h8752,\hE690, \h3EA9,\h3D78, \h2FD4,\h5701, \h962F,\h8CE9, \h0D2E,\h83F3, \hB4D5,\h581B, \hA5A8,\h3262, \h1C53,\hE98A
  >>

Table15 ==
  <<
    \h0000,\h0000, \hAE68,\h9191, \h87A0,\h2563, \h29C8,\hB4F2, \hD431,\h4C87, \h7A59,\hDD16, \h5391,\h69E4, \hFDF9,\hF875,
    \h7313,\h9F4F, \hDD7B,\h0EDE, \hF4B3,\hBA2C, \h5ADB,\h2BBD, \hA722,\hD3C8, \h094A,\h4259, \h2082,\hF6AB, \h8EEA,\h673A,
    \hE627,\h3E9E, \h484F,\hAF0F, \h6187,\h1BFD, \hCFEF,\h8A6C, \h3216,\h7219, \h9C7E,\hE388, \hB5B6,\h577A, \h1BDE,\hC6EB,
    \h9534,\hA1D1, \h3B5C,\h3040, \h1294,\h84B2, \hBCFC,\h1523, \h4105,\hED56, \hEF6D,\h7CC7, \hC6A5,\hC835, \h68CD,\h59A4,
    \h173F,\h7B7D, \hB957,\hEAEC, \h909F,\h5E1E, \h3EF7,\hCF8F, \hC30E,\h37FA, \h6D66,\hA66B, \h44AE,\h1299, \hEAC6,\h8308,
    \h642C,\hE432, \hCA44,\h75A3, \hE38C,\hC151, \h4DE4,\h50C0, \hB01D,\hA8B5, \h1E75,\h3924, \h37BD,\h8DD6, \h99D5,\h1C47,
    \hF118,\h45E3, \h5F70,\hD472, \h76B8,\h6080, \hD8D0,\hF111, \h2529,\h0964, \h8B41,\h98F5, \hA289,\h2C07, \h0CE1,\hBD96,
    \h820B,\hDAAC, \h2C63,\h4B3D, \h05AB,\hFFCF, \hABC3,\h6E5E, \h563A,\h962B, \hF852,\h07BA, \hD19A,\hB348, \h7FF2,\h22D9,
    \h2E7E,\hF6FA, \h8016,\h676B, \hA9DE,\hD399, \h07B6,\h4208, \hFA4F,\hBA7D, \h5427,\h2BEC, \h7DEF,\h9F1E, \hD387,\h0E8F,
    \h5D6D,\h69B5, \hF305,\hF824, \hDACD,\h4CD6, \h74A5,\hDD47, \h895C,\h2532, \h2734,\hB4A3, \h0EFC,\h0051, \hA094,\h91C0,
    \hC859,\hC864, \h6631,\h59F5, \h4FF9,\hED07, \hE191,\h7C96, \h1C68,\h84E3, \hB200,\h1572, \h9BC8,\hA180, \h35A0,\h3011,
    \hBB4A,\h572B, \h1522,\hC6BA, \h3CEA,\h7248, \h9282,\hE3D9, \h6F7B,\h1BAC, \hC113,\h8A3D, \hE8DB,\h3ECF, \h46B3,\hAF5E,
    \h3941,\h8D87, \h9729,\h1C16, \hBEE1,\hA8E4, \h1089,\h3975, \hED70,\hC100, \h4318,\h5091, \h6AD0,\hE463, \hC4B8,\h75F2,
    \h4A52,\h12C8, \hE43A,\h8359, \hCDF2,\h37AB, \h639A,\hA63A, \h9E63,\h5E4F, \h300B,\hCFDE, \h19C3,\h7B2C, \hB7AB,\hEABD,
    \hDF66,\hB319, \h710E,\h2288, \h58C6,\h967A, \hF6AE,\h07EB, \h0B57,\hFF9E, \hA53F,\h6E0F, \h8CF7,\hDAFD, \h229F,\h4B6C,
    \hAC75,\h2C56, \h021D,\hBDC7, \h2BD5,\h0935, \h85BD,\h98A4, \h7844,\h60D1, \hD62C,\hF140, \hFFE4,\h45B2, \h518C,\hD423,
    \h5CFD,\hEDF4, \hF295,\h7C65, \hDB5D,\hC897, \h7535,\h5906, \h88CC,\hA173, \h26A4,\h30E2, \h0F6C,\h8410, \hA104,\h1581,
    \h2FEE,\h72BB, \h8186,\hE32A, \hA84E,\h57D8, \h0626,\hC649, \hFBDF,\h3E3C, \h55B7,\hAFAD, \h7C7F,\h1B5F, \hD217,\h8ACE,
    \hBADA,\hD36A, \h14B2,\h42FB, \h3D7A,\hF609, \h9312,\h6798, \h6EEB,\h9FED, \hC083,\h0E7C, \hE94B,\hBA8E, \h4723,\h2B1F,
    \hC9C9,\h4C25, \h67A1,\hDDB4, \h4E69,\h6946, \hE001,\hF8D7, \h1DF8,\h00A2, \hB390,\h9133, \h9A58,\h25C1, \h3430,\hB450,
    \h4BC2,\h9689, \hE5AA,\h0718, \hCC62,\hB3EA, \h620A,\h227B, \h9FF3,\hDA0E, \h319B,\h4B9F, \h1853,\hFF6D, \hB63B,\h6EFC,
    \h38D1,\h09C6, \h96B9,\h9857, \hBF71,\h2CA5, \h1119,\hBD34, \hECE0,\h4541, \h4288,\hD4D0, \h6B40,\h6022, \hC528,\hF1B3,
    \hADE5,\hA817, \h038D,\h3986, \h2A45,\h8D74, \h842D,\h1CE5, \h79D4,\hE490, \hD7BC,\h7501, \hFE74,\hC1F3, \h501C,\h5062,
    \hDEF6,\h3758, \h709E,\hA6C9, \h5956,\h123B, \hF73E,\h83AA, \h0AC7,\h7BDF, \hA4AF,\hEA4E, \h8D67,\h5EBC, \h230F,\hCF2D,
    \h7283,\h1B0E, \hDCEB,\h8A9F, \hF523,\h3E6D, \h5B4B,\hAFFC, \hA6B2,\h5789, \h08DA,\hC618, \h2112,\h72EA, \h8F7A,\hE37B,
    \h0190,\h8441, \hAFF8,\h15D0, \h8630,\hA122, \h2858,\h30B3, \hD5A1,\hC8C6, \h7BC9,\h5957, \h5201,\hEDA5, \hFC69,\h7C34,
    \h94A4,\h2590, \h3ACC,\hB401, \h1304,\h00F3, \hBD6C,\h9162, \h4095,\h6917, \hEEFD,\hF886, \hC735,\h4C74, \h695D,\hDDE5,
    \hE7B7,\hBADF, \h49DF,\h2B4E, \h6017,\h9FBC, \hCE7F,\h0E2D, \h3386,\hF658, \h9DEE,\h67C9, \hB426,\hD33B, \h1A4E,\h42AA,
    \h65BC,\h6073, \hCBD4,\hF1E2, \hE21C,\h4510, \h4C74,\hD481, \hB18D,\h2CF4, \h1FE5,\hBD65, \h362D,\h0997, \h9845,\h9806,
    \h16AF,\hFF3C, \hB8C7,\h6EAD, \h910F,\hDA5F, \h3F67,\h4BCE, \hC29E,\hB3BB, \h6CF6,\h222A, \h453E,\h96D8, \hEB56,\h0749,
    \h839B,\h5EED, \h2DF3,\hCF7C, \h043B,\h7B8E, \hAA53,\hEA1F, \h57AA,\h126A, \hF9C2,\h83FB, \hD00A,\h3709, \h7E62,\hA698,
    \hF088,\hC1A2, \h5EE0,\h5033, \h7728,\hE4C1, \hD940,\h7550, \h24B9,\h8D25, \h8AD1,\h1CB4, \hA319,\hA846, \h0D71,\h39D7
  >>

-----------------------------------------------------------------------------
Tables ==
  <<Table0, Table1, Table2, Table3, Table4, Table5, Table6, Table7,
    Table8, Table9, Table10, Table11, Table12, Table13, Table14, Table15>>

\* The b-th word of the k-th table, both counted from 0.
HalfBits(n) == {i \in 0 .. 15 : (n \div 2 ^ i) % 2 = 1}
WordBits(k, b) ==
  HalfBits(Tables[k + 1][2 * b + 2]) \cup {16 + i : i \in HalfBits(Tables[k + 1][2 * b + 1])}

\* A word of the source is what its polynomial makes of its byte and the k
\* bytes of zeros behind it.
WordIsPolynomial(k, b) == WordBits(k, b) = CRC32_TABLE[k + 1][Bits(b)]
=============================================================================
