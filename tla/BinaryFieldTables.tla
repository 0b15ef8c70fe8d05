--------------------------- MODULE BinaryFieldTables ---------------------------
(***************************************************************************)
(* The constant tables of the binary field lowerings, bit for bit: the     *)
(* isomorphism between the tower of GF(2^8) and the field of the AES       *)
(* instructions, the inverses in GF(2^8), and the changes of basis between *)
(* tower and flat fields.  A wide constant is the sequence of its 16-bit   *)
(* words, lowest first, and Column turns a constant into the set of its    *)
(* bits.                                                                   *)
(***************************************************************************)
EXTENDS Integers, Sequences

Bits(v) == {i \in 0..15 : (v \div (2 ^ i)) % 2 = 1}
Column(words) == UNION {{16 * (w - 1) + i : i \in Bits(words[w])} : w \in 1..Len(words)}
Columns(words, n) == [i \in 0..(Len(words) \div n) - 1 |-> Column(SubSeq(words, n * i + 1, n * i + n))]

kTowerToAesMatrix == <<
  \h3e, \h98, \h4e, \h96, \hea, \h6a, \h50, \h31 >>

kAesToTowerMatrix == <<
  \h0c, \h70, \ha2, \h72, \h3e, \h86, \he8, \hd1 >>

(* The row for result bit i is byte 7 - i of the packed matrix; packing puts  *)
(* element i of the array at byte i.                                        *)
packMatrixForAffine(matrix) == [byte \in 0..7 |-> Bits(matrix[byte + 1])]

kBinaryTower8bInverseTable == <<
  \h00, \h01, \h03, \h02, \h06, \h0e, \h04, \h0f, \h0d, \h0a, \h09, \h0c, \h0b, \h08, \h05, \h07,
  \h14, \h67, \h94, \h7b, \h10, \h66, \h9e, \h7e, \hd2, \h81, \h27, \h4b, \hd1, \h8f, \h2f, \h42,
  \h3c, \he6, \hde, \h7c, \hb3, \hc1, \h4a, \h1a, \h30, \he9, \hdd, \h79, \hb1, \hc6, \h43, \h1e,
  \h28, \he8, \h9d, \hb9, \h63, \h39, \h8d, \hc2, \h62, \h35, \h83, \hc5, \h20, \he7, \h97, \hbb,
  \h61, \h48, \h1f, \h2e, \hac, \hc8, \hbc, \h56, \h41, \h60, \h26, \h1b, \hcf, \haa, \h5b, \hbe,
  \hef, \h73, \h6d, \h5e, \hf7, \h86, \h47, \hbd, \h88, \hfc, \hbf, \h4e, \h76, \he0, \h53, \h6c,
  \h49, \h40, \h38, \h34, \he4, \heb, \h15, \h11, \h8b, \h85, \haf, \ha9, \h5f, \h52, \h98, \h92,
  \hfb, \hb5, \hee, \h51, \hb7, \hf0, \h5c, \he1, \hdc, \h2b, \h95, \h13, \h23, \hdf, \h17, \h9f,
  \hd3, \h19, \hc4, \h3a, \h8a, \h69, \h55, \hf6, \h58, \hfd, \h84, \h68, \hc3, \h36, \hd0, \h1d,
  \ha6, \hf3, \h6f, \h99, \h12, \h7a, \hba, \h3e, \h6e, \h93, \ha0, \hf8, \hb8, \h32, \h16, \h7f,
  \h9a, \hf9, \he2, \hdb, \hed, \hd8, \h90, \hf2, \hae, \h6b, \h4d, \hce, \h44, \hc9, \ha8, \h6a,
  \hc7, \h2c, \hc0, \h24, \hfa, \h71, \hf1, \h74, \h9c, \h33, \h96, \h3f, \h46, \h57, \h4f, \h5a,
  \hb2, \h25, \h37, \h8c, \h82, \h3b, \h2d, \hb0, \h45, \had, \hd7, \hff, \hf4, \hd4, \hab, \h4c,
  \h8e, \h1c, \h18, \h80, \hcd, \hf5, \hfe, \hca, \ha5, \hec, \he3, \ha3, \h78, \h2a, \h22, \h7d,
  \h5d, \h77, \ha2, \hda, \h64, \hea, \h21, \h3d, \h31, \h29, \he5, \h65, \hd9, \ha4, \h72, \h50,
  \h75, \hb6, \ha7, \h91, \hcc, \hd5, \h87, \h54, \h9b, \ha1, \hb4, \h70, \h59, \h89, \hd6, \hcb >>

kTowerToFlat16 == Columns(<<
  \h0001,  \h0732,  \ha785,  \h2f29,  \hf6bc,  \h2ee3,  \hb115,  \h46ff,  \h3394,  \hd651,  \h644c,  \hcdd9,  \hc696,  \h88e0,  \hc682,  \he708 >>, 1)

kTowerToFlat32 == Columns(<<
  \h0001,\h0000,  \h1264,\h54fd,  \h155c,\hccec,  \h8a9e,\hbaa8,  \hb36b,\h0843,  \h9e97,\hcc26,  \hc6fd,\h664d,  \hbf36,\hc876,
  \hcc5a,\ha733,  \hf9ff,\h41bb,  \hf221,\haa45,  \hffea,\he618,  \hbbd1,\h2e3b,  \h2070,\hff2b,  \h73d9,\hb2b0,  \hfc3f,\h94eb,
  \h5c70,\h821f,  \ha57e,\hdb81,  \hf133,\h65de,  \h7b11,\hb6c9,  \hd335,\h9649,  \h9963,\h419e,  \hfc23,\h2c04,  \h58c9,\h6bd6,
  \ha11f,\h5364,  \hf2fc,\h7f52,  \hf73b,\h52ad,  \h1f53,\h50bb,  \h15a8,\hffd6,  \h5531,\h1338,  \h8108,\ha3c0,  \h4d8c,\he4df >>, 2)

kTowerToFlat64 == Columns(<<
  \h0001,\h0000,\h0000,\h0000,  \hdc02,\h278a,\h369f,\h19c9,  \h810b,\he9f2,\h75c8,\h4471,  \h769f,\h86ad,\h921e,\he5f0,
  \hb11a,\hf7c7,\he2bf,\hbb1d,  \he0d8,\h4550,\hedd7,\h19a0,  \hb118,\h596b,\h4c79,\he4a2,  \h569c,\h318d,\hc7e1,\hf0a7,
  \h501c,\h72ee,\hf8c3,\h4e2a,  \hd6bb,\h4dc2,\h5a13,\h1273,  \h53c3,\h0aa8,\h44bc,\h08a4,  \hd93d,\he4d6,\hdec2,\h4e6a,
  \h713d,\h10c7,\h3eff,\ha218,  \hf30c,\hcbf5,\h9f12,\hb0ed,  \haa1f,\h2810,\h6905,\hac40,  \he7d6,\h36d9,\h4510,\h416a,
  \h2893,\h5bac,\h7725,\h5596,  \h9e26,\h7a25,\ha231,\hff14,  \h2155,\h10a9,\hb140,\hf687,  \h541c,\h7061,\h9849,\h47ca,
  \h40be,\h5f16,\h1cd0,\ha1ae,  \he98c,\h4558,\h7b7c,\ha159,  \h8994,\h314f,\h3504,\h560b,  \hd784,\h1844,\h4a5c,\hb0c0,
  \h2cb4,\hc287,\h9e8d,\hbbe8,  \h83f9,\h0835,\hb6b5,\hb762,  \h45d5,\hc81b,\h09c4,\hf5f2,  \hfb7a,\hf731,\h8913,\h59c2,
  \he80b,\h125e,\hd480,\haf3a,  \hf0bc,\h769e,\he80d,\h1e4f,  \hb3a3,\h979b,\h78fc,\he202,  \ha713,\h87b2,\h5159,\h5f4f,
  \h2b07,\hd15d,\hdc67,\h91f6,  \h0aa5,\h1ced,\hbac9,\h3592,  \h82a6,\hc9ff,\h7262,\h7913,  \he8fe,\hac4d,\h9a8d,\he94a,
  \h6cb4,\hfd4e,\h6af8,\h8e08,  \he47a,\ha8e3,\h53c5,\ha364,  \h54cf,\hf985,\h1d9e,\h3aa0,  \hb867,\hbd4e,\ha9f1,\ha868,
  \h0001,\h2aff,\h910b,\h3229,  \hd314,\h221d,\hc12b,\ha2e9,  \hd95e,\h0ed8,\hc67d,\h28a3,  \h3d68,\hb07e,\h88bf,\ha7e3,
  \h6b32,\hf8d1,\h3503,\hedab,  \hea85,\h4c89,\h95c9,\hcf89,  \ha87d,\h35ad,\h6819,\h04b7,  \h0f33,\hacda,\hce4d,\h2336,
  \hdd89,\h6834,\h178a,\h8a1d,  \h3340,\hfe51,\hae2e,\he429,  \h21bf,\hd1f7,\h5c08,\h6d06,  \h3374,\h69f0,\hcbb7,\hfe77,
  \ha932,\h377e,\h8fc9,\h1257,  \h3b8f,\h2704,\h4875,\h2b4a,  \h281a,\hffa4,\h4d66,\hfcf2,  \h99e1,\hd9cd,\hc071,\h773c,
  \h3297,\h65f1,\h4459,\h735a,  \h18c9,\h9353,\h3228,\hbeaa,  \h8019,\hb267,\h328e,\hd6f9,  \h378d,\hf71d,\h9cb0,\h7688,
  \haa03,\ha3e8,\h16fd,\h5b2d,  \h7105,\he82b,\h23a6,\h964a,  \hc54b,\hf29c,\h526d,\hc598,  \h75b4,\h2203,\hde01,\h4357 >>, 4)

kTowerToFlat128Lo == Columns(<<
  \h0001,\h0000,\h0000,\h0000,  \h0b08,\ha4b2,\hac9f,\h676a,  \he341,\ha603,\hf7fb,\h34d2,  \h6c63,\hbdbd,\h6e38,\hcbc2,
  \h50db,\had59,\ha49f,\h77ed,  \h11f4,\he387,\hd5f0,\h29c2,  \ha4f0,\h2cca,\hfaef,\hd7ac,  \h21c3,\h2f36,\hc009,\h1367,
  \hb1d2,\hc64e,\h5724,\h77be,  \h75e4,\h9996,\h97b0,\hbc2f,  \h2356,\h1abd,\h64fb,\h476e,  \hc50e,\ha6bc,\h3528,\h0af1,
  \h6f54,\hdc1d,\hf94a,\ha502,  \h87e0,\ha77c,\h2b17,\hef2b,  \hc60b,\h6617,\h95f8,\h974d,  \h4b92,\h4c36,\h573f,\h65c3,
  \h35be,\h14f5,\hb688,\h1428,  \h34e5,\he995,\hab3c,\h40fb,  \h6a43,\h750b,\h5046,\h2264,  \hadae,\hcd95,\he095,\hbb5e,
  \heb94,\h3a68,\h8f16,\h9625,  \hbf20,\h5a8a,\h5e9a,\hcb1f,  \h5620,\hf20f,\h6ab3,\h5277,  \hbe0e,\h5338,\h36e3,\hc906,
  \h0b00,\ha1ec,\he511,\h5825,  \haef2,\h2336,\h4743,\hc72f,  \h09c5,\h810d,\h875d,\h6b4d,  \h391d,\hf7ea,\hd814,\hdf65,
  \h9c55,\h5316,\h7d9f,\h6bd2,  \hdf5d,\h3f1a,\h819e,\h656f,  \h6501,\heecd,\h65a0,\h54f0,  \h4ae6,\hf4ce,\heeb7,\h7990,
  \h3b3d,\hd1df,\h36d0,\h994e,  \h9abd,\ha033,\h6398,\hf223,  \h02e9,\h3e23,\h26a4,\heb1c,  \hbe8d,\h2b47,\h4617,\hf770,
  \h8042,\h120e,\h7479,\h8c5c,  \h0035,\h0859,\h3be1,\h3362,  \h6084,\h70c4,\h27b3,\hca2e,  \hf47a,\he16e,\hcadd,\h23b8,
  \h0387,\hf613,\h47ef,\h246c,  \h5303,\hb626,\hfea8,\h903b,  \h0297,\h27a7,\h1aa8,\h3517,  \h0d56,\hbe2b,\hf417,\h11aa,
  \hdfab,\h04c0,\h7df0,\hbc17,  \h26da,\hc8bb,\hcfa0,\h3c0a,  \hd3d0,\h8590,\h6d21,\h68c9,  \h6774,\hcb8e,\he57b,\ha8b6,
  \hc475,\hc5c8,\h9b33,\h4767,  \h6853,\h36df,\h6b1b,\h6c5e,  \h9472,\h04f2,\hc300,\he7cc,  \habb6,\h00a7,\h6a06,\haa2f,
  \hf266,\h9c20,\h398e,\hfae1,  \h49a9,\h4969,\h6262,\h06f8,  \h721f,\h7d5b,\h0f30,\h372e,  \haa4d,\h59a4,\hf7f4,\h885a,
  \h1a0f,\ha7e2,\h3d60,\hcf31,  \h8a36,\he3fd,\hf172,\h17ad,  \h883e,\h8b33,\hab33,\h9db5,  \h05a1,\h11e7,\h6517,\h7210,
  \h040d,\hf06a,\hf29d,\h42e8,  \h5710,\h3040,\hc840,\h3cc3,  \he230,\h8c21,\h9cb1,\h4efa,  \h6048,\h6257,\hb07f,\hc6f3,
  \h7631,\h152f,\h3094,\hb7b7,  \he43d,\h3cb0,\h9631,\h059f,  \h6875,\hef77,\ha897,\h09c7,  \h9704,\hfe93,\hf6d1,\hc7db,
  \hddfc,\h634b,\h39db,\h6cf6,  \h14e3,\hca8c,\h9114,\h30d4,  \h093f,\hd778,\hbc64,\h78f1,  \hf6c3,\ha539,\hc025,\h877b,
  \h5ecc,\h0f70,\h8814,\hb6ba,  \h9f5d,\h46c5,\h97e2,\hc7a8,  \h1592,\h057b,\he049,\he972,  \h57e7,\hcc02,\hfdc4,\h6a64,
  \h8161,\h07c8,\h23b3,\h1b21,  \h5b7e,\h0a97,\h9c6a,\h34ab,  \h3f76,\h8fb1,\hfcce,\h16cd,  \h3707,\hc537,\hcf45,\h8a7d,
  \ha101,\h8f92,\h172e,\h1a05,  \h6a24,\h8ec0,\h9b74,\h346f,  \hbd45,\h4298,\h0375,\hb25a,  \h73ab,\h9861,\h4415,\h9e6f,
  \h9907,\hf458,\h6049,\he52f,  \h575b,\h5196,\hcf96,\h3e80,  \hf1a0,\h35f7,\hc2cb,\h255f,  \hd277,\hc8b3,\h00cd,\hcae8,
  \ha782,\h0da2,\h6b7c,\h309d,  \h24e7,\hd9c1,\hf646,\h4511,  \hdd06,\h4121,\h0d83,\h3423,  \ha158,\h4c66,\h48c6,\h3945,
  \h14c0,\h9fd3,\ha0c2,\h146c,  \h0652,\h9fe1,\h1be9,\h7da8,  \hdbfb,\h615c,\h122c,\h5235,  \he513,\h3187,\h7f9c,\h1fa2,
  \hbee1,\h178f,\h9595,\hea94,  \h811a,\hd0a8,\hf9b8,\hf2c2,  \h270e,\h84a0,\hcc8c,\hffd4,  \h061b,\h0eff,\h547a,\h13c1,
  \ha583,\hc88e,\h1d79,\had06,  \h2b9a,\h8086,\h41d8,\h3782,  \ha1f5,\h97dc,\hd3b0,\hac8d,  \h75b9,\h157b,\hd37e,\hba50,
  \hd279,\h6b5d,\h8255,\h326c,  \h2a8a,\h48e3,\h219d,\h4c39,  \h915a,\h43ea,\h4d2f,\h3b31,  \hc1d0,\h7e25,\h74cd,\h58db,
  \hb89b,\h10a8,\haf15,\hb8e0,  \h8dfd,\h2f46,\hbeba,\h4372,  \h0874,\h9b0b,\h3e36,\h51c5,  \h41b0,\hb689,\he2c7,\he41f,
  \h491f,\hac0e,\he35a,\h41d2,  \ha376,\ha8a5,\h6b44,\hadfb,  \hb910,\h7e1e,\hfdc8,\h59f8,  \h328a,\hfda7,\h1346,\hf815,
  \hb9d1,\hc732,\h3450,\h115b,  \hdc0e,\hc243,\h6a80,\h6d80,  \hb391,\h46f8,\hf06b,\hf3d1,  \h8fca,\hc5a7,\h0dd4,\h58d6,
  \he4a2,\hf2ef,\h255c,\ha111,  \hc20c,\h63bd,\hb176,\heaf4,  \h85ab,\ha0f1,\h4a37,\he441,  \ha4ba,\hf5d9,\hbb8b,\h7e23,
  \ha546,\h0fd9,\hf29d,\h7f95,  \h4c71,\h20d7,\hbdfe,\h0b4e,  \h84cd,\hb98d,\h0286,\h077d,  \h9a19,\h8379,\h971d,\he680 >>, 4)

kTowerToFlat128Hi == Columns(<<
  \h0000,\h0000,\h0000,\h0000,  \h1af9,\hf473,\hc0b1,\h295a,  \h73bb,\h159d,\h17bd,\h5003,  \h2772,\hd8dd,\h539f,\hf210,
  \h2877,\hca8e,\h2761,\hd727,  \he6a2,\hae59,\he616,\h7009,  \h2dfb,\h52f1,\h42b8,\h28fc,  \hef4d,\h51ff,\hf361,\heee7,
  \hcdf0,\had8d,\h5366,\hf7ee,  \h87c3,\h9fd5,\h4425,\h7549,  \hf34c,\h06ed,\h30ac,\h0885,  \h9583,\h784c,\h4c97,\h45fc,
  \h625f,\he484,\hc2f0,\h34d5,  \h2970,\h2990,\h575b,\hbb20,  \h6bcc,\h707a,\h151e,\h8e34,  \he5d8,\hb36a,\h4dce,\hf731,
  \he56b,\h4d3f,\hc138,\h218c,  \h0baa,\h1f6a,\h51cb,\h683a,  \h554f,\h4cb4,\h3d77,\hff78,  \h92ff,\hae2b,\hfb6a,\h054b,
  \h2e31,\h5d62,\hea16,\h9ba7,  \hb824,\hfeab,\h3084,\hd689,  \h578e,\h2a0c,\h4bc5,\hdfd7,  \hbb96,\hf329,\h0dcd,\h59d1,
  \hfa88,\hf591,\hedd9,\h1db6,  \h767a,\hb209,\hc0f9,\h692e,  \heb5e,\hfa27,\hb808,\h407b,  \h2c0d,\h8e71,\h6094,\heb83,
  \h9d78,\h80cd,\h6dde,\h2468,  \h8349,\h49d4,\h22bb,\h713a,  \h5b03,\h68e9,\h7db0,\h1026,  \h86a1,\h5279,\hc1e8,\he6f7,
  \h817f,\h2679,\hcdaa,\h2c2f,  \h2774,\hfb4c,\h1f2e,\h35bd,  \h4591,\h0a30,\h321d,\h8ac6,  \hc012,\h3044,\h2539,\hfa94,
  \ha4d8,\he763,\h68f8,\hdb48,  \hbe70,\h2e15,\hbcf8,\hcb77,  \h3e36,\hee94,\hcd01,\h2416,  \h7e1b,\he7da,\h3c61,\hfe38,
  \h8c70,\hacc8,\h99d9,\h553b,  \ha8fa,\hd6c0,\hc653,\hc2ea,  \h47fd,\h66d1,\hfd3d,\h1563,  \he44e,\h2e17,\hf4a7,\h68ea,
  \hb8a6,\h5dd9,\he3e1,\h0c14,  \hc488,\hdf69,\hfd66,\h7010,  \h6ef9,\h9462,\he3e4,\h15c9,  \h8595,\hc076,\h18fd,\h7dfd,
  \haede,\h9c00,\h2756,\h74f3,  \hc2e0,\hd05f,\h91d5,\h9b79,  \hbe2c,\ha950,\h3bfd,\hcb3b,  \h638b,\hd9d5,\hcff7,\h3153,
  \h1fae,\he86a,\he55d,\hae94,  \hd05c,\ha57a,\h300b,\hf3f9,  \h9c8f,\h960a,\h2574,\h080c,  \h763d,\h5af6,\h1753,\h9e93,
  \h2aa9,\he3f4,\h52ed,\hf70b,  \h3fac,\h29a6,\h4cec,\hdfe3,  \he5dc,\h91f5,\ha19f,\h822c,  \h540c,\hef5c,\hc244,\h93b4,
  \h8eb0,\h0eff,\h498c,\hbbc3,  \h02aa,\h94f7,\h20a5,\h01d1,  \hc055,\h55c4,\h785d,\haad1,  \h156d,\hc768,\h1229,\h457b,
  \h031c,\h8ec8,\h1e8c,\he4f2,  \h2ed3,\hb9ec,\h18e7,\h4e04,  \h3e81,\h9838,\h0ea2,\h3229,  \hff53,\h89c7,\hbe23,\h6d34,
  \h57aa,\h13e1,\h7b1e,\hac57,  \h8a2c,\ha9c7,\h5953,\h5dd3,  \ha81c,\h5ad7,\h959a,\ha1d7,  \h78b7,\h489d,\h3a80,\h25ef,
  \h8629,\h50a7,\hb285,\h5a9f,  \h66a9,\ha34b,\h0365,\h7176,  \hca69,\he3b2,\ha530,\h7e4b,  \h73e6,\hcb35,\hddc8,\hb3ee,
  \h9403,\h9f41,\h5fd3,\hea28,  \h14df,\h9344,\hab30,\hc85d,  \h3da8,\hc991,\hcfce,\h9397,  \hdf5b,\hb73c,\hf97f,\h67ce,
  \hfe92,\hb525,\hbe99,\hc103,  \h9b3c,\h8ee7,\h34fd,\h21f6,  \hc1e7,\hb896,\h2212,\h916e,  \h66e3,\h1cda,\h8ecf,\he288,
  \h8ce5,\h9df8,\ha9f2,\hb64d,  \h7e58,\h1b34,\h4758,\h9071,  \h3786,\h0c31,\hd629,\h753a,  \h5059,\hb329,\hc5c6,\hc1a4,
  \hd2ce,\hf5b1,\he918,\h3784,  \h663b,\h4383,\h912e,\h6923,  \h80d6,\h4d17,\hca71,\hdced,  \h66ab,\h25b9,\h3234,\h3ff4,
  \h5764,\hd766,\hc609,\h7994,  \hfa4b,\h96e4,\h79a5,\h9dd4,  \hed5d,\h2954,\h783f,\h4a50,  \h85c1,\h502d,\hd066,\hab94,
  \ha881,\ha98d,\h6c09,\he14e,  \h11b1,\hba01,\he59d,\h93a9,  \h9fc9,\hd7d8,\h9c8e,\h1e9e,  \h10db,\h1e9f,\h52c4,\h8a01,
  \hf6bd,\h635e,\hb3e7,\h9668,  \h0b47,\hdf36,\h0ad5,\ha0bd,  \h7893,\h3666,\h8644,\h285a,  \hed44,\h45d9,\h1a3b,\h6ee2,
  \ha6d1,\h1efe,\h77ac,\h7a50,  \h5954,\hc320,\hb29a,\h3899,  \h0b36,\h4c3a,\hcffb,\h1aeb,  \h0b6f,\hd152,\hf098,\ha0a5,
  \h0331,\h5474,\h87b5,\h4472,  \hdb07,\h3d1b,\hfe17,\h2ba2,  \h7697,\hbaf4,\ha894,\h36c5,  \h90f4,\heca0,\h23a5,\h8a2c,
  \h1fe9,\h29b7,\h771e,\he76f,  \ha8f2,\hb16b,\hd267,\he9a9,  \h0128,\h8804,\h032e,\hab0e,  \h0914,\h5298,\h099b,\h5a9a,
  \h5a41,\h217e,\hd144,\h2a94,  \h0c87,\h5bbb,\h0253,\h5a37,  \h6e44,\hbf1d,\hc761,\h548f,  \hfdc6,\h8a7d,\h0b2b,\hd250,
  \h3039,\h2d84,\h8379,\h4d3b,  \h0804,\h5ffd,\hd247,\h7ba2,  \h8a10,\h11e9,\hf3b4,\hf833,  \he9ba,\h27b2,\h358c,\h20d8,
  \h68da,\hf2a2,\hd31d,\hde18,  \h481e,\h2b94,\hf06e,\habb7,  \h5527,\h948a,\he6a4,\ha436,  \h5f36,\h2603,\he9ee,\h89a6 >>, 4)

kFlatToTower16 == Columns(<<
  \h0001,  \hd056,  \hdb5d,  \h8e62,  \h8b5d,  \h499c,  \h7533,  \hde9a,  \hf5b5,  \h7d97,  \h9ab7,  \h6079,  \hb2a3,  \hb51b,  \h0ba0,  \ha24c >>, 1)

kFlatToTower32 == Columns(<<
  \h0001,\h0000,  \h21ff,\h844f,  \h6949,\h6835,  \h7cff,\h0e95,  \h1024,\hfbc6,  \h4e3a,\h7502,  \h0246,\h2ed0,  \hc8b7,\hd90b,
  \h4306,\h81c7,  \hf200,\h2768,  \h9802,\h2bb2,  \h6f4a,\hdc86,  \hacd1,\h189c,  \h507f,\hd202,  \h949b,\h27bb,  \h8fb3,\hfdc2,
  \h6f02,\hd8b5,  \h2168,\ha861,  \h5bda,\hdafc,  \h5c0a,\hb104,  \h4d02,\h911c,  \h3f19,\hb3bd,  \h4d27,\h9f3b,  \hf66e,\h7cb4,
  \hfd7a,\ha1f4,  \h232e,\h6e3b,  \h9570,\hf1eb,  \hd03b,\haf14,  \h4d14,\h67fc,  \h619b,\h92dd,  \h0202,\he867,  \hb4cc,\h8c0d >>, 2)

kFlatToTower64 == Columns(<<
  \h0001,\h0000,\h0000,\h0000,  \hfa32,\h0b75,\hdf34,\h8a7e,  \h7992,\h28b5,\hdbe5,\h9696,  \he9e4,\h4661,\hd211,\haa9d,
  \h64ae,\he2bd,\hf881,\hb477,  \h1b21,\h8600,\hd952,\h8302,  \h6bb2,\hcef3,\h73a9,\h8c06,  \hed08,\hc942,\hfb29,\h87d3,
  \h1fcf,\hc5de,\h93fd,\h7e42,  \h7d9f,\hf207,\hdb7d,\h7a88,  \hefdf,\he380,\hee85,\ha5ea,  \h5494,\hf97f,\he9dd,\h2fa4,
  \h3edc,\h02ca,\h9745,\hcb7f,  \h382a,\h181e,\h9046,\h527f,  \h0e3a,\h912a,\hf015,\h78ad,  \h4110,\h144e,\hac7a,\h3f5f,
  \h7810,\hdb3d,\h52e2,\hf4b9,  \h4422,\h6119,\h0a28,\h7edb,  \h9cab,\h66d5,\h0872,\h0be9,  \haee0,\h7198,\h9f21,\h0854,
  \h4a20,\hb85a,\h2369,\h71e9,  \hbab5,\hfb34,\hd339,\h8de6,  \he67a,\he87b,\h7a8c,\h84a3,  \h02c2,\hc82c,\h1d36,\h101c,
  \hb6a7,\h163f,\h2c0f,\hd34c,  \h7657,\h3afa,\hfa14,\h1432,  \h2331,\h4dba,\hb84e,\h8ac1,  \ha974,\h0354,\h296d,\h311b,
  \h34d9,\h0073,\h0342,\ha781,  \hb99f,\h6e95,\h0e87,\hae19,  \hffda,\h071c,\hea08,\h5735,  \h6670,\h959b,\h4420,\h0a23,
  \h8029,\hb98c,\hd607,\h13a5,  \h5e70,\h3c07,\ha564,\hcb41,  \h6e10,\h6444,\h42e2,\hf41e,  \hb9c3,\h52e4,\hc8ae,\h3757,
  \hf74f,\h1d46,\heb50,\h3efa,  \h0577,\h0f39,\h6810,\hde6d,  \h8aa1,\h2852,\hb170,\hda8f,  \h3d92,\hbdf2,\hf47e,\h84a8,
  \he9ec,\h1c3f,\hb322,\h770f,  \h8ca7,\h1920,\hafc0,\h6b2f,  \h44a8,\h1492,\hea55,\ha5bc,  \h5056,\hf92a,\h31ef,\h0cb0,
  \h97b2,\h6956,\h5b35,\h17e5,  \h54c3,\hd177,\h8c0b,\h2c9a,  \hef02,\he0ab,\ha684,\h7e6e,  \hde1f,\h44a1,\h6e4e,\h5e7e,
  \hbe5e,\h12df,\h15fb,\hbdce,  \h947b,\hf8d5,\h7120,\h29b1,  \hd9c5,\h5e9c,\hc814,\h2b31,  \hb4d7,\ha9fc,\h044e,\hda47,
  \h9eef,\hd5ef,\h02e5,\h3dd8,  \hcf78,\h98c8,\h1e7f,\h84e1,  \h5d34,\h1bf8,\h7ad8,\hdb1d,  \h4662,\hbe88,\h8fa0,\h552e,
  \h217a,\ha559,\h8c59,\h08ed,  \hd24d,\hbfd0,\h1f41,\hb49e,  \h823f,\h825f,\h8d39,\he802,  \h0087,\hc61b,\h125b,\h006e,
  \h7ad8,\h9a7e,\hf5ce,\hbca2,  \hd656,\h7989,\h5c5c,\h502c,  \h9de0,\h26e1,\h5140,\haff7,  \ha189,\h7a9b,\ha11f,\h7948 >>, 4)

kFlatToTower128Lo == Columns(<<
  \h0001,\h0000,\h0000,\h0000,  \hef3d,\hfeda,\h13e1,\h526b,  \h8bfb,\hd287,\haee3,\hd702,  \hb195,\h43db,\h705d,\h7215,
  \h56f6,\hcf9c,\h4cc8,\hc5f9,  \h620b,\hd396,\h4d81,\hfd48,  \h2049,\ha352,\hd940,\hb9e3,  \ha14d,\h1839,\hc80f,\h4c18,
  \ha870,\h913f,\h12b9,\ha68c,  \h3afc,\h65ab,\h7a51,\hd011,  \h0db6,\hcc20,\hab1a,\hcf5f,  \h31e8,\h346a,\he103,\ha363,
  \hdff5,\h3464,\hd96d,\h0b86,  \h9a5d,\haa91,\h9c16,\h7cc0,  \h4f63,\h74cc,\h8e7f,\h76d3,  \hbde7,\hec00,\h6460,\hdbb1,
  \hf127,\hf996,\hd01f,\h9d94,  \h0cbf,\h54d8,\h0c2d,\he6da,  \h5a3b,\h2968,\h1fb7,\h8186,  \hbfb4,\h47de,\ha854,\had5f,
  \hd178,\hb4c6,\hcbd7,\haf28,  \h19d4,\ha5cc,\h0c38,\he93a,  \hae69,\h7aeb,\h6f30,\he744,  \h1cc8,\h1c77,\hffeb,\hb7f0,
  \h946a,\hfe19,\h730c,\h621d,  \h8b87,\hc012,\h6642,\h105f,  \hbdf3,\h5a51,\h2d2a,\h5795,  \hb948,\h87bc,\h7050,\h4383,
  \hf256,\h2d54,\h0fe8,\h1965,  \hc660,\h0214,\h8c7d,\h00ac,  \h7896,\h1151,\h2514,\ha9d5,  \h249c,\h3773,\h03da,\hdc6c,
  \h7b89,\hc5cc,\hac0d,\h3e34,  \hbd4d,\h8710,\hf4ae,\h7cc7,  \h12ac,\hcaf0,\hdd96,\h5996,  \h1202,\hcb5f,\h74fa,\h38b7,
  \h8f93,\h438c,\h9595,\h826b,  \h5603,\h126c,\h9345,\ha967,  \he61f,\h8fa9,\h2bd6,\h51c8,  \hb799,\h6c51,\h0c79,\hc7ab,
  \h4275,\h7aac,\ha953,\hea22,  \hf872,\h8d25,\hd089,\h95b2,  \ha777,\hcab7,\h39a3,\h333f,  \h7cb0,\h761f,\h734b,\h3bf4,
  \h2ad6,\h8a01,\h7b56,\h3752,  \heb3a,\ha2ad,\ha4d9,\h14fd,  \hde7a,\h05db,\hcb45,\hf2ee,  \hf071,\hf383,\hb3c4,\h7ffe,
  \h12c3,\he8dd,\h7e99,\h8e19,  \h60e7,\h12b7,\h1c2a,\h2ba5,  \ha83c,\h40e2,\h15a3,\h79af,  \h4673,\h80f9,\h80bb,\he658,
  \hc58d,\h7b54,\h1a8f,\hae9c,  \hf54a,\hf305,\hc300,\hd77d,  \h9399,\he451,\hc646,\hd768,  \h1065,\h4d74,\h47c7,\h1e94,
  \ha7f0,\h5093,\hf9ed,\h78e0,  \h6acb,\hd4d0,\ha874,\h0603,  \h20e8,\hd949,\h697f,\h8be7,  \h20b8,\he24a,\h3a4f,\h3586,
  \h20ce,\hb09b,\hc9a3,\hb154,  \h17db,\h5786,\ha142,\h4f74,  \hb492,\h5c0a,\h1111,\hf84b,  \hdcab,\hf332,\h2810,\h3cea,
  \hbfc1,\h59ba,\hb80e,\hd961,  \ha0c4,\hab5d,\h6952,\he688,  \hac61,\h586e,\h0f92,\hce6f,  \h7d9a,\hb29d,\hb126,\h420e,
  \h7e9b,\hcad7,\h797e,\h6015,  \hd459,\h08b6,\h0847,\hf8ba,  \hd0c1,\hdb4b,\h115b,\h35e8,  \h665b,\h9f9d,\he45f,\hd01e,
  \hee7a,\hc1de,\h3f35,\hf54c,  \h1821,\h41c4,\h9f7c,\h3723,  \h29fa,\h621d,\h1584,\h47df,  \h5482,\h7e63,\h5e24,\hbaf4,
  \h8ae4,\h7f7f,\he9d0,\h0dd6,  \haa28,\he120,\ha0b7,\h5a91,  \h44f3,\h6bcc,\hadf4,\hb9b2,  \h2ff6,\hbd4d,\h2ac9,\h7c15,
  \hc101,\hb65e,\h971d,\h2f83,  \hb2b2,\h07b7,\h837a,\h112c,  \h597d,\h2263,\h71c7,\h2d20,  \ha8d8,\h831d,\h90f4,\h1994,
  \h853d,\h7d60,\hd355,\h82ec,  \ha984,\h2ed9,\h9f60,\h2005,  \h8666,\h2da8,\hf1c7,\h7434,  \h7c6a,\h136e,\h7d83,\h2ae9,
  \h67a1,\hfe4e,\h24cc,\h3a4f,  \h45df,\hda52,\h1310,\h8d94,  \ha8a3,\h4b29,\h970e,\h74b8,  \h0a37,\hcdf0,\h1e74,\h624c,
  \h2303,\h8db3,\he07c,\h50d0,  \ha430,\h4cd3,\he144,\h36dc,  \h32a0,\h6af3,\hde1b,\headc,  \hb68f,\ha3bc,\ha9a5,\he43a,
  \ha884,\h45a7,\h5664,\hc5c0,  \he5d1,\hdc54,\he6d3,\h1954,  \h399a,\h972e,\h0823,\hb5ac,  \h04f9,\he135,\hca7c,\hcaec,
  \h7b68,\h6d9e,\h77c9,\haf31,  \ha32c,\hcfe6,\hb023,\h7499,  \h7ca4,\hf254,\hcbc5,\hbb01,  \h4fab,\hf6ed,\h74fb,\h4f7a,
  \h3c50,\h1c45,\ha933,\h3e53,  \h98f5,\h52db,\h5533,\h0ea2,  \h8302,\he6ec,\h78ef,\hc7bd,  \h844f,\h6d36,\h55d6,\hb76b,
  \h6652,\hbd18,\h6be4,\hb010,  \hac26,\h2b27,\h7e84,\hf2d7,  \hf6a9,\h022d,\h3a1b,\hf5b1,  \hf8cb,\h6448,\h3315,\hb656,
  \h879e,\h2907,\hb580,\h24a3,  \hcaed,\h30fd,\h97f2,\h8560,  \h58fe,\h4498,\h03c1,\h06ec,  \h565a,\hf938,\h1c97,\hb515,
  \hf3d4,\hda98,\hbecc,\h5b3b,  \hf603,\h9bcc,\h81fb,\h2546,  \h995d,\h0e69,\hce20,\ha224,  \h4e7c,\hf983,\hcf84,\h4b6b,
  \h75c1,\hf2b8,\hf297,\hafa9,  \h28db,\h5753,\h0341,\hf1dc,  \h800e,\hc069,\hcfb3,\h965b,  \hd954,\h5e98,\h2e26,\h48b2,
  \hd4f3,\h18db,\h17ae,\h1e3c,  \ha423,\h80f7,\h6d65,\h1f1c,  \hafc8,\h1ba5,\h74ca,\h8089,  \h861b,\h90dc,\hb550,\hf4b1 >>, 4)

kFlatToTower128Hi == Columns(<<
  \h0000,\h0000,\h0000,\h0000,  \h7754,\he2b7,\ha17e,\hbfe0,  \h5ead,\hcc09,\h397f,\he7ef,  \hdf98,\h3036,\h64be,\h7800,
  \h5da3,\hadf9,\hb7d5,\h6e12,  \h5f2e,\h9cd3,\hcad7,\hb113,  \h9842,\h0f0f,\hb830,\h09c7,  \h154f,\hfe8b,\h98aa,\h8fa8,
  \h5366,\h381f,\h14c3,\h6c21,  \h4802,\ha0a5,\h78e6,\h23f9,  \h107d,\h5ec9,\h439f,\h359f,  \h2e4a,\he415,\h72ab,\ha12a,
  \he560,\hb346,\h5f5e,\h2173,  \h3a41,\h7ced,\h1a45,\h3283,  \h8e65,\h59c7,\h2e41,\h451e,  \hc43d,\h6040,\hb207,\hcfd8,
  \h1356,\h6501,\hc151,\h24dd,  \h60e9,\h3ad1,\h1eba,\h852a,  \h6d6c,\h84cd,\hc9c8,\h036d,  \h965c,\h841f,\h401d,\hc4c0,
  \h8448,\h72a5,\hcafc,\h45dc,  \h11ed,\hb117,\h055c,\h0eb9,  \h7df9,\h8596,\h6163,\h8b06,  \hc0aa,\h4010,\ha5c0,\h3b71,
  \hfe5c,\he114,\hddd5,\hcaac,  \hfa76,\h5931,\h50b3,\hf7a4,  \hebf8,\h8adb,\hecd2,\h9958,  \h1599,\h72d2,\ha124,\h2e03,
  \h1a7a,\h7d91,\hf039,\hac63,  \hda88,\h67ea,\h35d5,\hc341,  \h139f,\h2c84,\h97aa,\h4e9a,  \hd19c,\he87e,\ha9ef,\h4eef,
  \h87dc,\hd7eb,\hd645,\h66e1,  \h9a19,\ha045,\haea8,\h0a8b,  \h4a25,\h604f,\h2f23,\h09e8,  \hd41b,\hca6a,\h68db,\hed97,
  \he520,\h9183,\hfd4b,\h06a4,  \h2d8b,\hbad9,\hffde,\hb9a4,  \h85cf,\h426b,\hc36c,\h5f77,  \h6c20,\h5154,\hed87,\hdf38,
  \he77a,\h917f,\hc3a3,\h5293,  \hf3fa,\h9ecd,\h94b5,\h6eb8,  \he3d0,\h4ed3,\hf70f,\hbe33,  \hf795,\hb435,\ha370,\hc0cd,
  \hb7f5,\hfdec,\h49aa,\h12d8,  \hc254,\h5521,\h1beb,\h4c52,  \h8498,\hc14b,\h9502,\hd03b,  \h9a78,\hc094,\h454b,\ha05b,
  \hd11f,\h06b6,\h7632,\h9205,  \h1168,\hab12,\h983b,\hc99c,  \h1827,\hbfcd,\h2f2c,\hdaa1,  \h86ea,\h175d,\h7c3e,\h6f8c,
  \h7b41,\h140b,\h00d1,\h4df1,  \h36eb,\h12ac,\hc2de,\h104c,  \ha59c,\hc336,\ha068,\hcec1,  \ha30f,\h28bc,\h24b5,\hc16e,
  \h6209,\ha168,\h393b,\h7d63,  \h003a,\h7374,\hcd22,\h9af4,  \hf37f,\hc79a,\h6d40,\haec1,  \h7712,\h44c4,\h6058,\h369b,
  \h942a,\h78af,\hcb5e,\h41d4,  \hfb32,\h146c,\hed1f,\ha923,  \hb72a,\hd281,\hd90d,\ha6b1,  \h61c4,\h31c7,\hd863,\h7ee9,
  \h7d16,\hfc35,\hef1c,\h6097,  \h4cee,\h8b46,\h3e0b,\h11e0,  \hc240,\h659e,\h94a2,\h838c,  \h7db7,\h3734,\hde5c,\h4e65,
  \h2a60,\hae18,\h4e83,\h1618,  \h4833,\hc5df,\h390a,\h5fa0,  \he1e3,\h2819,\h5987,\h3e37,  \h0cf6,\hc139,\ha124,\hedd7,
  \hfda0,\h08b5,\h6d49,\ha439,  \hd5c5,\h55d1,\he5a8,\h5835,  \h9e0d,\h1e12,\hd568,\h8933,  \hd41b,\ha285,\h4510,\hf1f0,
  \h0fbe,\h8f53,\ha167,\h5245,  \h022c,\h63d0,\h76b4,\h72f6,  \hc71b,\hef9f,\h2f68,\h6f81,  \h2045,\ha819,\hc94f,\h1edc,
  \h8b4e,\h271e,\h84a2,\h0f16,  \h1c00,\h684b,\hb606,\h19fe,  \hc366,\hfdb4,\h6c2f,\h9e0c,  \h7cd3,\ha763,\hd7d9,\h9cd8,
  \ha3bd,\h7d80,\hfe3a,\h3c57,  \h0a6a,\h6681,\hf2bd,\h313c,  \h2a5f,\heb98,\ha715,\hef16,  \he813,\h2854,\h4f67,\h14dd,
  \h91b4,\h2354,\hb77b,\hc044,  \h9aae,\hf8c6,\h9ad4,\h6028,  \had1a,\h6e9d,\h3193,\h1690,  \h01e1,\h941b,\hf498,\h39cd,
  \hb5db,\hda90,\hdaa9,\h3a95,  \h46e9,\h596e,\h8f90,\haae7,  \h17e9,\h4b63,\he6c8,\h8314,  \hfd1a,\h81cb,\h1472,\hd1ab,
  \h4c11,\hc6f1,\h2e6a,\h5266,  \h4752,\hb004,\hbb18,\h79af,  \hd33f,\h5ca5,\h1f2d,\hd8e5,  \h6093,\hbf52,\hed1d,\ha8d8,
  \h379b,\h3f1b,\h7191,\hba92,  \ha6d6,\he283,\h5934,\h39e6,  \h0876,\h529d,\hc7c1,\h4666,  \hb5cf,\h9b65,\h0851,\h45ee,
  \h7b0a,\he71e,\h9bb0,\hdcf3,  \h83b7,\h1d8f,\hff52,\h615d,  \h4e84,\h1be7,\h2c26,\ha5af,  \h9362,\h9d50,\h3975,\h9289,
  \h148f,\he8e1,\h98e4,\h4c97,  \h14d7,\hf965,\h80ed,\h7a09,  \hfc4f,\ha373,\hc579,\h359f,  \h09ed,\h9d26,\h54d8,\h1726,
  \h10c2,\he95f,\hfc87,\he610,  \hcc8a,\he363,\h94a0,\h055d,  \h6161,\ha937,\h75ec,\ha7bb,  \h3f22,\h8009,\h42f2,\h1c25,
  \h3539,\hd59f,\hf28b,\h1b3a,  \hd1bf,\h9a6e,\hb77c,\hedc8,  \h0d68,\h6613,\h5038,\h840c,  \h4b37,\h293f,\h5717,\hc50d,
  \h40ea,\h9b40,\h8d2c,\h59d9,  \h9d26,\h508d,\he903,\h2176,  \h2b89,\hd107,\h68ff,\h07c5,  \h3f5e,\hb2d4,\h2f3b,\h24ae,
  \h4e49,\hcfb2,\h0bbd,\h9a24,  \ha869,\hd2d9,\h89a6,\ha883,  \hc3e2,\he70e,\hd029,\h4b3f,  \h2824,\h9713,\h0521,\he378 >>, 4)

================================================================================
